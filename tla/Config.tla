------------------------------- MODULE Config -------------------------------
(***************************************************************************)
(* The configuration store of tgnet (Config.cpp): one file and its ".bak"  *)
(* sibling, written by the network thread through writeConfig and read     *)
(* back by a new process through the constructor and readConfig.  The same *)
(* class keeps tgnet.dat, dcNconf.dat and cdnkeys.dat.                     *)
(*                                                                         *)
(* A file is Absent, Torn (shorter than its size header says) or holds the *)
(* complete configuration of one writeConfig call; the calls are numbered  *)
(* 1, 2, ...  A library call that the program tests for failure can fail   *)
(* when its name is in Faults, and the process can be killed between any   *)
(* two library calls.  Directory operations (rename, remove) are durable   *)
(* when they return.                                                       *)
(***************************************************************************)
EXTENDS Integers

CONSTANTS
    Absent,     \* no file under that path
    Torn,       \* a file whose data ends early
    Faults,     \* the library calls that may fail
    MaxWrites   \* bound on the writeConfig calls of all processes together

FaultNames == {"rename", "open", "write", "removeConfig", "removeBackup",
               "ctorRemove", "ctorRename"}

ASSUME FileAssumption ==
    /\ Absent \notin Nat
    /\ Torn \notin Nat
    /\ Absent # Torn
ASSUME FaultsAssumption == Faults \subseteq FaultNames
ASSUME MaxWritesAssumption == MaxWrites \in Nat

VARIABLES
    pc,         \* the next library call of the process ("down": no process)
    file,       \* what configPath names
    backup,     \* what backupPath names
    hasBackupFile,  \* the local of writeConfig
    version,    \* the number of the latest writeConfig call
    reported,   \* the latest call that logged "config write ok"
    loaded,     \* what readConfig returned to this process (0: nullptr)
    leftBackup  \* history: a call has returned and left a backup behind

vars == <<pc, file, backup, hasBackupFile, version, reported, loaded, leftBackup>>

Contents == Nat \cup {Absent, Torn}

ReadableUnchecked(f) == IF f = Absent THEN 0 ELSE f

(* The buffer that readConfig makes of a file: nullptr unless complete. *)
Readable(f) == IF f \in Nat THEN f ELSE 0

TypeOK ==
    /\ pc \in {"down", "restore", "read", "idle", "open", "data", "finish",
               "failed"}
    /\ file \in Contents
    /\ backup \in Contents
    /\ hasBackupFile \in BOOLEAN
    /\ version \in Nat
    /\ reported \in Nat
    /\ loaded \in Nat
    /\ leftBackup \in BOOLEAN

Init ==
    /\ pc = "down"
    /\ file = Absent
    /\ backup = Absent
    /\ hasBackupFile = FALSE
    /\ version = 0
    /\ reported = 0
    /\ loaded = 0
    /\ leftBackup = FALSE

----------------------------------------------------------------------------
(* Wrong variants of some definitions below, for the mutation runs: each
   makes the mistake its name says. *)
FindBackupDropped ==
    /\ pc = "down"
    /\ pc' = "read"
    /\ backup' = Absent
    /\ UNCHANGED <<file, hasBackupFile, version, reported, loaded>>

BeginWriteNoBackup ==
    /\ pc = "idle"
    /\ version < MaxWrites
    /\ version' = version + 1
    /\ file' = Absent
    /\ hasBackupFile' = FALSE
    /\ pc' = "open"
    /\ UNCHANGED <<backup, reported, loaded>>

WriteDataUnchecked ==
    /\ pc = "data"
    /\ pc' = "finish"
    /\ file' \in {Torn, version}
    /\ UNCHANGED <<backup, hasBackupFile, version, reported, loaded>>

----------------------------------------------------------------------------
(* The constructor.  It ignores what remove and rename return. *)
FindBackup ==
    /\ pc = "down"
    /\ \/ /\ backup = Absent
          /\ pc' = "read"
          /\ file' = file
       \/ /\ backup # Absent
          /\ pc' = "restore"
          /\ file' \in {Absent} \cup (IF "ctorRemove" \in Faults THEN {file} ELSE {})
    /\ UNCHANGED <<backup, hasBackupFile, version, reported, loaded>>

RestoreBackup ==
    /\ pc = "restore"
    /\ pc' = "read"
    /\ \/ file' = backup /\ backup' = Absent
       \/ "ctorRename" \in Faults /\ UNCHANGED <<file, backup>>
    /\ UNCHANGED <<hasBackupFile, version, reported, loaded>>

ReadConfig ==
    /\ pc = "read"
    /\ pc' = "idle"
    /\ loaded' = Readable(file)
    /\ UNCHANGED <<file, backup, hasBackupFile, version, reported>>

(* writeConfig up to fopen(configPath, "wb"): the previous file becomes the
   backup, unless there is a backup already. *)
BeginWrite ==
    /\ pc = "idle"
    /\ version < MaxWrites
    /\ version' = version + 1
    /\ \/ /\ file = Absent
          /\ hasBackupFile' = FALSE
          /\ pc' = "open"
          /\ UNCHANGED <<file, backup>>
       \/ /\ file # Absent /\ backup = Absent
          /\ \/ /\ backup' = file
                /\ file' = Absent
                /\ hasBackupFile' = TRUE
                /\ pc' = "open"
             \/ /\ "rename" \in Faults
                /\ hasBackupFile' = FALSE
                /\ UNCHANGED <<pc, file, backup>>
       \/ /\ file # Absent /\ backup # Absent
          /\ file' \in {Absent} \cup (IF "removeConfig" \in Faults THEN {file} ELSE {})
          /\ hasBackupFile' = FALSE
          /\ pc' = "open"
          /\ UNCHANGED backup
    /\ UNCHANGED <<reported, loaded>>

OpenFile ==
    /\ pc = "open"
    /\ \/ file' = Torn /\ pc' = "data"
       \/ "open" \in Faults /\ pc' = "idle" /\ UNCHANGED file
    /\ UNCHANGED <<backup, hasBackupFile, version, reported, loaded>>

(* fwrite, fflush, fsync, fclose.  When one of them fails, what has reached
   the disk may be all of the data or less. *)
WriteData ==
    /\ pc = "data"
    /\ \/ file' = version /\ pc' = "finish"
       \/ /\ "write" \in Faults
          /\ pc' = "failed"
          /\ file' \in {Torn, version}
    /\ UNCHANGED <<backup, hasBackupFile, version, reported, loaded>>

WriteFailed ==
    /\ pc = "failed"
    /\ pc' = "idle"
    /\ file' \in {Absent} \cup (IF "removeConfig" \in Faults THEN {file} ELSE {})
    /\ UNCHANGED <<backup, hasBackupFile, version, reported, loaded>>

WriteOk ==
    /\ pc = "finish"
    /\ pc' = "idle"
    /\ reported' = version
    /\ backup' \in (IF hasBackupFile THEN {Absent} ELSE {backup})
                   \cup (IF "removeBackup" \in Faults THEN {backup} ELSE {})
    /\ UNCHANGED <<file, hasBackupFile, version, loaded>>

(* The process is killed.  Data that fwrite was given and fsync has not yet
   forced out may or may not be on the disk. *)
Crash ==
    /\ pc # "down"
    /\ pc' = "down"
    /\ file' \in {file} \cup (IF pc = "data" THEN {version} ELSE {})
    /\ UNCHANGED <<backup, hasBackupFile, version, reported, loaded>>

Step ==
    \/ FindBackup
    \/ RestoreBackup
    \/ ReadConfig
    \/ BeginWrite
    \/ OpenFile
    \/ WriteData
    \/ WriteFailed
    \/ WriteOk
    \/ Crash

Next ==
    /\ Step
    /\ leftBackup' = (leftBackup \/ (pc' = "idle" /\ backup' # Absent))

Spec == Init /\ [][Next]_vars

----------------------------------------------------------------------------
(* What the next process would load if this one stopped now, not counting
   a file that writeConfig has opened and not finished with. *)
Writing == pc \in {"data", "finish", "failed"}

Durable ==
    IF backup # Absent THEN Readable(backup)
    ELSE IF Writing THEN 0 ELSE Readable(file)

(* No step of the program, no failure of a library call inside writeConfig
   and no crash makes the configuration that a restart would find older
   than it was before the step. *)
DurableNeverRegresses == [][Durable' >= Durable]_vars

(* What a process has loaded stays on the disk, or something newer does,
   through any number of failed or interrupted writes. *)
LoadedSurvives == loaded <= Durable

(* A write that was reported by "config write ok" is what a restart finds, or
   a newer one is, through crashes anywhere and any failing calls, until the
   first time that the constructor or writeConfig returns and leaves a backup
   behind. *)
ReportedDurable == leftBackup \/ reported <= Durable
=============================================================================
