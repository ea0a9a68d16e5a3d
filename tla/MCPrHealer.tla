----------------------------- MODULE MCPrHealer -----------------------------
(***************************************************************************)
(* PrHealer for TLC.  Different: the check runs k1 and k2 name a common    *)
(* file, k2 also one that cannot be repaired, k4 names no file, and k3 is  *)
(* not about a pull request.                                               *)
(***************************************************************************)
EXTENDS PrHealer, TLC

CONSTANTS k1, k2, k3, k4, f1, f2

Different == (k1 :> {f1}) @@ (k2 :> {f1, f2}) @@ (k3 :> {f1}) @@ (k4 :> {})

=============================================================================
