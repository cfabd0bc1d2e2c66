----------------------------- MODULE MCSession ------------------------------
(* The messages that the library cannot parse, for the runs of Session. *)
EXTENDS Session

ThirdUnparsed == {5}
=============================================================================
