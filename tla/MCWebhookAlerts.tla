--------------------------- MODULE MCWebhookAlerts ---------------------------
(* WebhookAlerts for TLC. *)
EXTENDS WebhookAlerts, TLC

Symmetry == Permutations(Event) \cup Permutations(Worker)
=============================================================================
