---------------------------- MODULE MCMigration ----------------------------
(* The datacenters and requests of the run of Migration. *)
EXTENDS Migration

TwoDcs == {2, 4}
OneLogin == {201}
OneFile == {301}
=============================================================================
