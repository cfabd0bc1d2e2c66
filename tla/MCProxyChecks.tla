--------------------------- MODULE MCProxyChecks ---------------------------
(* Three checks for two connections: one of them waits in the queue. *)
EXTENDS ProxyChecks

TwoSlots == 0..1
=============================================================================
