---------------------------- MODULE MCHandshake ----------------------------
(* The disturbances and the tasks of other threads in the runs of Handshake. *)
EXTENDS Handshake

AnyDisturbance == DisturbanceNames
AnyTask == AppTaskNames
=============================================================================
