----------------------------- MODULE MCWebhooks -----------------------------
(* Values for model checking Webhooks: one event for two subscriptions, and
   two overlapping retry workers.  The backoff table is cut to its first two
   entries; its length only sets MAX_ATTEMPTS. *)
EXTENDS Webhooks

MCSchedule == <<60, 300>>
=============================================================================
