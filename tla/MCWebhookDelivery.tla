-------------------------- MODULE MCWebhookDelivery --------------------------
(* WebhookDelivery for TLC: interchangeable pollers and executions. *)
EXTENDS WebhookDelivery, TLC

Symmetry == Permutations(Pollers) \cup Permutations(Executions)
==============================================================================
