---------------------------- MODULE MCTransport ----------------------------
(* Values for the model checker. *)
EXTENDS Transport

AllProtocols == {"EF", "EE", "DD"}
Lengths == {3, 4, 6, 9}
Sizes == {4, 7, 12}
=============================================================================
