------------------------------- MODULE MCOutbox -------------------------------
(* Outbox with small constants. *)
EXTENDS Outbox

\* A bound: in slow mode nothing else is refused.  What slow mode itself refuses, it refuses every
\* message for.
OneReason == slow_mode => refused = {}
=============================================================================
