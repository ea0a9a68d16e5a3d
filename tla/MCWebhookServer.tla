-------------------------- MODULE MCWebhookServer --------------------------
(***************************************************************************)
(* WebhookServer for TLC: every delivery comes from the one installation.  *)
(***************************************************************************)
EXTENDS WebhookServer, TLC

CONSTANT Installation

OneInstallation == {Installation}
SameInstallation == [d \in Triggers \cup Notices \cup {NoKey} |-> Installation]
TriggerSymmetry == Permutations(Triggers)

=============================================================================
