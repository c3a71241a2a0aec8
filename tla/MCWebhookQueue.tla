--------------------------- MODULE MCWebhookQueue ---------------------------
(* Small instances of the webhook queue for TLC.                           *)
EXTENDS WebhookQueue, TLC

ProcessSymmetry == Permutations(Processes)
=============================================================================
