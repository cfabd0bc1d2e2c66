------------------------------ MODULE MCConfig ------------------------------
(* The sets of failing library calls that the runs of Config use. *)
EXTENDS Config

(* Every call that writeConfig makes may fail, and so may the rename of the
   constructor. *)
WriteFaults == {"rename", "open", "write", "removeConfig", "removeBackup",
                "ctorRename"}
=============================================================================
