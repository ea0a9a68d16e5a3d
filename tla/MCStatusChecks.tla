--------------------------- MODULE MCStatusChecks ---------------------------
(***************************************************************************)
(* StatusChecks for TLC: one delivery of each kind, under the server's own  *)
(* handler, under an embedder's without app credentials, and with none.    *)
(***************************************************************************)
EXTENDS StatusChecks

Deployments ==
  {[credentials |-> TRUE, handler |-> "server"],
   [credentials |-> FALSE, handler |-> "embedder"],
   [credentials |-> FALSE, handler |-> "none"]}

=============================================================================
