----------------------------- MODULE MCPresence -----------------------------
(* Two statuses: available, and one away message.                          *)
EXTENDS Presence
=============================================================================
