---------------------------- MODULE ConfigProofs ----------------------------
(* Proofs about the configuration store, for any number of writes, crashes
   and failures. *)
EXTENDS Config, TLAPS

(* The inductive invariant.  A complete file or backup holds the data of a
   write that has begun; writeConfig opens the file without a backup only
   when there was nothing to back up; a write that is about to be reported
   is complete; and the constructor restores only a backup that exists. *)
Numbered ==
    /\ file \in Nat => file <= version
    /\ backup \in Nat => backup <= version
    /\ reported <= version

OpenEmpty == (pc = "open" /\ backup = Absent) => file = Absent

FinishFile == pc = "finish" => file = version

RestoreFinds == pc = "restore" => backup # Absent

IInv == TypeOK /\ Numbered /\ OpenEmpty /\ FinishFile /\ RestoreFinds

(* IInv holds of the empty disk a first process starts on. *)
LEMMA InitIInv == Init => IInv
<1> SUFFICES ASSUME Init PROVE IInv
  OBVIOUS
<1> USE FileAssumption DEF FileAssumption, Init
<1>1. hasBackupFile \in BOOLEAN /\ leftBackup \in BOOLEAN
  OBVIOUS
<1>2. TypeOK
  BY <1>1 DEF TypeOK, Contents
<1>3. Numbered /\ OpenEmpty /\ FinishFile /\ RestoreFinds
  BY DEF Numbered, OpenEmpty, FinishFile, RestoreFinds
<1> QED
  BY <1>2, <1>3 DEF IInv

(* Every library call, failed or not, and every crash preserves IInv. *)
LEMMA NextIInv == IInv /\ [Next]_vars => IInv'
<1> SUFFICES ASSUME IInv, [Next]_vars PROVE IInv'
  OBVIOUS
<1> USE FileAssumption DEF FileAssumption, IInv, TypeOK, Numbered, OpenEmpty, FinishFile, RestoreFinds, Contents
<1>0. leftBackup' \in BOOLEAN
  BY DEF Next, vars
<1>1. CASE FindBackup
  BY <1>0, <1>1 DEF FindBackup
<1>2. CASE RestoreBackup
  BY <1>0, <1>2 DEF RestoreBackup
<1>3. CASE ReadConfig
  BY <1>0, <1>3 DEF ReadConfig, Readable
<1>4. CASE BeginWrite
  <2>1. hasBackupFile' \in BOOLEAN
    BY <1>0, <1>4 DEF BeginWrite
  <2>2. CASE file = Absent
    BY <1>0, <1>4, <2>1, <2>2 DEF BeginWrite
  <2>3. CASE file # Absent /\ backup = Absent
    BY <1>0, <1>4, <2>1, <2>3 DEF BeginWrite
  <2>4. CASE file # Absent /\ backup # Absent
    BY <1>0, <1>4, <2>1, <2>4 DEF BeginWrite
  <2> QED
    BY <2>2, <2>3, <2>4
<1>5. CASE OpenFile
  BY <1>0, <1>5 DEF OpenFile
<1>6. CASE WriteData
  BY <1>0, <1>6 DEF WriteData
<1>7. CASE WriteFailed
  BY <1>0, <1>7 DEF WriteFailed
<1>8. CASE WriteOk
  BY <1>0, <1>8 DEF WriteOk
<1>9. CASE Crash
  BY <1>0, <1>9 DEF Crash
<1>10. CASE UNCHANGED vars
  BY <1>10 DEF vars
<1> QED
  BY <1>1, <1>2, <1>3, <1>4, <1>5, <1>6, <1>7, <1>8, <1>9, <1>10 DEF Next, Step

(* IInv is an invariant; TypeOK is one of its parts. *)
THEOREM TypeCorrect == Spec => []TypeOK
<1>1. Spec => []IInv
  BY InitIInv, NextIInv, PTL DEF Spec
<1>2. IInv => TypeOK
  BY DEF IInv
<1> QED
  BY <1>1, <1>2, PTL

(* One step never replaces what a restart would load by something older. *)
LEMMA StepDurable == IInv /\ [Next]_vars => Durable' >= Durable
<1> SUFFICES ASSUME IInv, [Next]_vars PROVE Durable' >= Durable
  OBVIOUS
<1> USE FileAssumption DEF FileAssumption, IInv, TypeOK, Numbered, OpenEmpty,
      FinishFile, RestoreFinds, Contents, Durable, Writing, Readable
<1>1. CASE FindBackup
  <2>1. CASE backup = Absent
    BY <1>1, <2>1 DEF FindBackup
  <2>2. CASE backup # Absent
    BY <1>1, <2>2 DEF FindBackup
  <2> QED
    BY <2>1, <2>2
<1>2. CASE RestoreBackup
  <2>1. CASE file' = backup /\ backup' = Absent
    BY <1>2, <2>1 DEF RestoreBackup
  <2>2. CASE UNCHANGED <<file, backup>>
    BY <1>2, <2>2 DEF RestoreBackup
  <2> QED
    BY <1>2, <2>1, <2>2 DEF RestoreBackup
<1>3. CASE ReadConfig
  BY <1>3 DEF ReadConfig
<1>4. CASE BeginWrite
  BY <1>4 DEF BeginWrite
<1>5. CASE OpenFile
  <2>1. CASE backup = Absent
    BY <1>5, <2>1 DEF OpenFile
  <2>2. CASE backup # Absent
    BY <1>5, <2>2 DEF OpenFile
  <2> QED
    BY <2>1, <2>2
<1>6. CASE WriteData
  BY <1>6 DEF WriteData
<1>7. CASE WriteFailed
  BY <1>7 DEF WriteFailed
<1>8. CASE WriteOk
  BY <1>8 DEF WriteOk
<1>9. CASE Crash
  BY <1>9 DEF Crash
<1>10. CASE UNCHANGED vars
  BY <1>10 DEF vars
<1> QED
  BY <1>1, <1>2, <1>3, <1>4, <1>5, <1>6, <1>7, <1>8, <1>9, <1>10 DEF Next, Step

(* The configuration that a restart finds never gets older, whichever library
   calls fail and wherever the process is killed. *)
THEOREM NeverRegresses == Spec => DurableNeverRegresses
<1>1. Spec => []IInv
  BY InitIInv, NextIInv, PTL DEF Spec
<1>2. IInv /\ [Next]_vars => [Durable' >= Durable]_vars
  BY StepDurable
<1> QED
  BY <1>1, <1>2, PTL DEF Spec, DurableNeverRegresses

(* When the constructor's remove works, a constructor whose rename fails
   leaves no file beside the backup for readConfig to load. *)
CtorRemoved ==
    /\ pc = "restore" => file = Absent
    /\ (pc = "read" /\ backup # Absent) => file = Absent

LInv == IInv /\ CtorRemoved /\ LoadedSurvives

(* What a process loaded is never lost, through failed and interrupted
   writes, as long as the constructor's remove does what it says. *)
THEOREM LoadedIsKept ==
  ASSUME "ctorRemove" \notin Faults
  PROVE  Spec => []LoadedSurvives
<1>1. Init => LInv
  BY InitIInv, FileAssumption DEF FileAssumption, Init, LInv, CtorRemoved,
     LoadedSurvives, Durable, Writing, Readable
<1>2. LInv /\ [Next]_vars => LInv'
  <2> SUFFICES ASSUME LInv, [Next]_vars PROVE LInv'
    OBVIOUS
  <2>1. IInv /\ IInv'
    BY NextIInv DEF LInv
  <2>2. Durable' >= Durable /\ Durable \in Nat /\ Durable' \in Nat
    BY <2>1, StepDurable DEF Durable, Readable, IInv, TypeOK
  <2>3. LoadedSurvives'
    <3>1. CASE ReadConfig
      BY <2>1, <3>1, FileAssumption DEF FileAssumption, LInv, CtorRemoved, ReadConfig,
         LoadedSurvives, Durable, Writing, Readable, IInv, TypeOK, Contents
    <3>2. CASE loaded' = loaded
      BY <2>1, <2>2, <3>2 DEF LInv, LoadedSurvives, IInv, TypeOK
    <3> QED
      BY <3>1, <3>2 DEF Next, Step, vars, FindBackup, RestoreBackup, BeginWrite, OpenFile,
         WriteData, WriteFailed, WriteOk, Crash
  <2>4. CtorRemoved'
    BY <2>1, FileAssumption DEF FileAssumption, LInv, IInv, RestoreFinds, CtorRemoved, Next, Step,
       vars, FindBackup, RestoreBackup, ReadConfig, BeginWrite, OpenFile, WriteData,
       WriteFailed, WriteOk, Crash
  <2> QED
    BY <2>1, <2>3, <2>4 DEF LInv
<1>3. LInv => LoadedSurvives
  BY DEF LInv
<1> QED
  BY <1>1, <1>2, <1>3, PTL DEF Spec

(* A configuration whose write was reported ok is found by every later
   process, wherever processes are killed, until a call leaves a backup
   behind.  What is reported is durable when it is reported, unless a backup
   is left, and stays so because nothing durable gets older. *)
THEOREM ReportedIsDurable == Spec => []ReportedDurable
<1>1. Init => ReportedDurable
  BY FileAssumption DEF FileAssumption, Init, ReportedDurable, Durable, Writing, Readable
<1>2. IInv /\ ReportedDurable /\ [Next]_vars => ReportedDurable'
  <2> SUFFICES ASSUME IInv, ReportedDurable, [Next]_vars, ~leftBackup'
               PROVE  reported' <= Durable'
    BY DEF ReportedDurable
  <2>1. IInv' /\ reported \in Nat /\ version \in Nat
    BY NextIInv DEF IInv, TypeOK
  <2>2. Durable' >= Durable /\ Durable \in Nat /\ Durable' \in Nat
    BY <2>1, StepDurable DEF Durable, Readable, IInv, TypeOK
  <2>3. ~leftBackup
    BY DEF Next, vars
  <2>4. reported <= Durable
    BY <2>3 DEF ReportedDurable
  <2>5. CASE WriteOk
    <3>1. pc' = "idle" /\ reported' = version /\ file' = file
      BY <2>5 DEF WriteOk
    <3>2. backup' = Absent
      BY <2>5, <3>1 DEF WriteOk, Next, vars
    <3>3. file = version
      BY <2>5 DEF WriteOk, IInv, FinishFile
    <3> QED
      BY <2>1, <3>1, <3>2, <3>3 DEF Durable, Writing, Readable
  <2>6. CASE reported' = reported
    BY <2>1, <2>2, <2>4, <2>6
  <2> QED
    BY <2>5, <2>6 DEF Next, Step, vars, FindBackup, RestoreBackup, ReadConfig, BeginWrite,
       OpenFile, WriteData, WriteFailed, Crash
<1> QED
  BY <1>1, <1>2, InitIInv, NextIInv, PTL DEF Spec
=============================================================================
