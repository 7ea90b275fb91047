------------------------ MODULE MCDefaultWebhookLease ------------------------
(* DefaultWebhookLease for TLC. *)
EXTENDS DefaultWebhookLease
==============================================================================
