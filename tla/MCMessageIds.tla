---------------------------- MODULE MCMessageIds ----------------------------
(* The datacenters of the runs of MessageIds. *)
EXTENDS MessageIds

CONSTANTS dc1, dc2
One == {dc1}
Two == {dc1, dc2}
=============================================================================
