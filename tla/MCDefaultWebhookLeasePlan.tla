---------------------- MODULE MCDefaultWebhookLeasePlan ----------------------
(* DefaultWebhookLeasePlan for TLC: four shards, the last one static. *)
EXTENDS DefaultWebhookLeasePlan
MCHomeOf == [q \in Queues |-> IF q <= 2 THEN 1 ELSE 2]
==============================================================================
