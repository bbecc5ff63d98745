---------------------------- MODULE MCOutboxRelay ----------------------------
(* OutboxRelay on small instances. *)
EXTENDS OutboxRelay
==============================================================================
