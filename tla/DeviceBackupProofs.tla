------------------------- MODULE DeviceBackupProofs -------------------------
(* Proofs about DeviceBackup: its types, that a completed backup stays in the  *)
(* blobs, and that a completed import has restored it.                        *)
EXTENDS DeviceBackup, TLAPS

Parts == {"devices", "configs"}

(* What a copy leaves is contents, part by part. *)
LEMMA CopyType ==
    ASSUME NEW from \in Contents, NEW to \in Contents, NEW parts \in SUBSET Parts
    PROVE  /\ Copy(from, to, parts) \in Contents
           /\ Copy(from, to, parts).devices = IF "devices" \in parts THEN from.devices ELSE to.devices
           /\ Copy(from, to, parts).configs = IF "configs" \in parts THEN from.configs ELSE to.configs
    BY DEF Copy, Contents, Parts

LEMMA PartsType == ASSUME NEW h PROVE PartsOf(h) \in SUBSET Parts
    BY DEF PartsOf, Parts

LEMMA NothingType == Nothing \in Contents
    BY BackupAssumption DEF Nothing, Contents, Versions

LEMMA Backups ==
    ASSUME BackupKept, backup \in Contents, blob \in Contents
    PROVE  /\ backup.devices # 0 => blob.devices = backup.devices
           /\ backup.configs # 0 => blob.configs = backup.configs
    BY DEF BackupKept, Contents

(* The job of h gets a status and keeps what it works on. *)
LEMMA SetStatusType ==
    ASSUME job \in [Hubs -> Jobs], NEW h \in Hubs,
           NEW status \in Ended \union Active \union {"None"}, SetStatus(h, status)
    PROVE  /\ job' \in [Hubs -> Jobs]
           /\ job'[h].status = status
           /\ \A k \in Hubs : job'[k].configs = job[k].configs
           /\ \A k \in Hubs \ {h} : job'[k] = job[k]
    <1>1. [job[h] EXCEPT !.status = status] \in Jobs
          /\ [job[h] EXCEPT !.status = status].status = status
          /\ [job[h] EXCEPT !.status = status].configs = job[h].configs
        BY DEF Jobs
    <1>2. job' = [job EXCEPT ![h] = [job[h] EXCEPT !.status = status]]
        BY DEF SetStatus
    <1> DEFINE j == [job[h] EXCEPT !.status = status]
    <1>3. j \in Jobs /\ j.status = status /\ j.configs = job[h].configs
          /\ job' = [job EXCEPT ![h] = j]
        BY <1>1, <1>2
    <1> HIDE DEF j
    <1>4. QED
        BY <1>3

(* A transfer of the source hub changes the blobs and one of the target hub     *)
(* changes the target hub.                                                    *)
LEMMA TransferType ==
    ASSUME hub \in [Hubs -> Contents], blob \in Contents,
           NEW h \in Hubs, NEW parts \in SUBSET Parts, Transfer(h, parts)
    PROVE  /\ hub' \in [Hubs -> Contents] /\ blob' \in Contents
           /\ h = "source" => hub' = hub
           /\ h = "target" => blob' = blob /\ hub'["target"] = Copy(blob, hub["target"], parts)
    <1>1. CASE h = "source"
        BY <1>1, CopyType DEF Transfer, Hubs
    <1>2. CASE h = "target"
        <2> DEFINE c == Copy(blob, hub["target"], parts)
        <2>1. c \in Contents
            BY CopyType DEF Hubs
        <2>2. hub' = [hub EXCEPT !["target"] = c] /\ blob' = blob
            BY <1>2 DEF Transfer
        <2> HIDE DEF c
        <2>3. hub' \in [Hubs -> Contents] /\ hub'["target"] = c
            BY <2>1, <2>2 DEF Hubs
        <2>4. QED
            BY <1>2, <2>2, <2>3 DEF c
    <1>3. QED
        BY <1>1, <1>2 DEF Hubs

-----------------------------------------------------------------------------
LEMMA BackupInit == Init => IInv
    <1> SUFFICES ASSUME Init
                 PROVE  IInv
        OBVIOUS
    <1>1. TypeOK
        <2>1. hub \in [Hubs -> Contents] /\ blob \in Contents /\ backup \in Contents
            BY NothingType DEF Init
        <2>2. [status |-> "None", configs |-> FALSE] \in Jobs
            BY DEF Jobs
        <2>3. job \in [Hubs -> Jobs] /\ args \in Args
            BY <2>2 DEF Init, Args
        <2>4. runs \in 0 .. MaxRuns /\ faults \in 0 .. MaxFaults
            BY BackupAssumption DEF Init
        <2>5. QED
            BY <2>1, <2>3, <2>4 DEF Init, TypeOK
    <1>2. BackupKept
        BY DEF Init, BackupKept, Nothing
    <1>3. QED
        BY <1>1, <1>2 DEF Init, IInv, RestoredIsBackup, NoExportAtWork, OwnImport,
                          RestoredEnded

LEMMA ChangeInv ==
    ASSUME IInv, NEW part \in Parts, Change(part)
    PROVE  IInv'
    <1> DEFINE c == [hub["source"] EXCEPT ![part] = hub["source"][part] + 1]
    <1>1. TypeOK
        BY DEF IInv
    <1>2. hub["source"] \in Contents
        BY <1>1 DEF TypeOK, Hubs
    <1>3. c \in Contents
        BY <1>2, BackupAssumption DEF Change, Contents, Versions, Parts
    <1>4. hub' = [hub EXCEPT !["source"] = c]
        BY DEF Change
    <1> HIDE DEF c
    <1>5. hub' \in [Hubs -> Contents] /\ hub'["target"] = hub["target"]
        BY <1>1, <1>3, <1>4 DEF TypeOK, Hubs
    <1>6. QED
        BY <1>5 DEF IInv, Change, NoFault, TypeOK, BackupKept, RestoredIsBackup,
                    NoExportAtWork, OwnImport, Holds, RestoredEnded

(* A run begins: an export gives up the backup, an import keeps it. *)
LEMMA StartInv ==
    ASSUME IInv, NEW a \in Args, NEW valid \in BOOLEAN, Start(a, valid)
    PROVE  IInv'
    <1>1. CASE valid
        <2>1. TypeOK'
            <3>1. TypeOK /\ runs' \in 0 .. MaxRuns
                BY <1>1, BackupAssumption DEF IInv, Start, TypeOK
            <3>2. backup' \in Contents
                BY <1>1, <3>1, NothingType DEF Start, TypeOK
            <3>3. /\ step' = "prepare" /\ args' = a /\ result' = "None" /\ restored' = FALSE
                  /\ UNCHANGED <<hub, blob, job, faults>>
                BY <1>1 DEF Start, NoFault
            <3>4. QED
                BY <3>1, <3>2, <3>3 DEF TypeOK
        <2>2. BackupKept'
            BY <1>1 DEF IInv, Start, BackupKept, Nothing
        <2>3. NoExportAtWork'
            BY <1>1 DEF IInv, Start, NoExportAtWork
        <2>4. QED
            BY <1>1, <2>1, <2>2, <2>3 DEF IInv, Start, RestoredIsBackup, OwnImport,
                                          RestoredEnded
    <1>2. CASE ~ valid
        BY <1>2, BackupAssumption
           DEF IInv, Start, NoFault, TypeOK, BackupKept, RestoredIsBackup,
               NoExportAtWork, OwnImport, Holds, RestoredEnded
    <1>3. QED
        BY <1>1, <1>2

LEMMA PrepareInv == IInv /\ PrepareStorage => IInv'
    BY BackupAssumption
       DEF IInv, PrepareStorage, Throws, NoFault, Fault, TypeOK, BackupKept,
           RestoredIsBackup, NoExportAtWork, OwnImport, Holds, RestoredEnded

(* A job is submitted to the hub that the run is about, or not. *)
LEMMA SubmitInv == IInv /\ SubmitJob => IInv'
    <1> SUFFICES ASSUME IInv, SubmitJob
                 PROVE  IInv'
        OBVIOUS
    <1> DEFINE h == HubOf(args)
    <1> DEFINE j == [status |-> "Enqueued", configs |-> args.configs]
    <1>1. /\ TypeOK /\ BackupKept /\ NoExportAtWork /\ step = "submit" /\ ~ restored
          /\ RestoredEnded
        BY DEF IInv, SubmitJob, RestoredEnded
    <1>2. h \in Hubs /\ j \in Jobs /\ args \in Args
          /\ (h = "target" <=> args.import)
        BY <1>1 DEF TypeOK, HubOf, Hubs, Jobs, Args, Active
    <1>3. /\ job' = job \/ job' = [job EXCEPT ![h] = j]
          /\ \/ step' = "wait" /\ job' = [job EXCEPT ![h] = j] /\ faults' = faults /\ result' = result
             \/ step' = "none" /\ result' = "Error" /\ (faults' = faults \/ Fault)
          /\ UNCHANGED <<hub, blob, args, runs, backup, restored>>
        BY DEF SubmitJob, Throws, NoFault, Fault
    <1> HIDE DEF h
    <1>4. j.status \in Active /\ j.configs = args.configs
        BY DEF Active
    <1> HIDE DEF j
    <1>5. job \in [Hubs -> Jobs]
        BY <1>1 DEF TypeOK
    <1>6. job' \in [Hubs -> Jobs]
        BY <1>2, <1>3, <1>5
    <1>7. TypeOK'
        BY <1>1, <1>3, <1>6, BackupAssumption DEF TypeOK, Fault, Ended
    <1>8. NoExportAtWork'
        <2>1. backup # Nothing => h # "source" /\ job["source"].status \notin Active /\ args.import
            BY <1>1, <1>2 DEF NoExportAtWork
        <2>2. h # "source" => job'["source"] = job["source"]
            BY <1>2, <1>3, <1>5 DEF Hubs
        <2>3. QED
            BY <1>3, <2>1, <2>2 DEF NoExportAtWork
    <1>9. OwnImport'
        <2> SUFFICES ASSUME step' = "wait", args'.import
                     PROVE  /\ job'["target"].configs = args'.configs
                            /\ job'["target"].status # "Completed"
            BY DEF OwnImport
        <2>1. job'["target"] = j
            BY <1>2, <1>3, <1>5 DEF Hubs
        <2>2. QED
            BY <1>3, <1>4, <2>1 DEF Active
    <1>10. BackupKept' /\ RestoredIsBackup' /\ RestoredEnded'
        BY <1>1, <1>3 DEF BackupKept, RestoredIsBackup, RestoredEnded
    <1>11. QED
        BY <1>7, <1>8, <1>9, <1>10 DEF IInv

(* The run ends with the status of its job, or with an exception. *)
LEMMA WaitInv == IInv /\ WaitForJob => IInv'
    <1> SUFFICES ASSUME IInv, WaitForJob
                 PROVE  IInv'
        OBVIOUS
    <1>1. /\ TypeOK /\ BackupKept /\ RestoredIsBackup /\ NoExportAtWork /\ OwnImport
          /\ RestoredEnded /\ step = "wait" /\ step' = "none" /\ ~ restored
          /\ UNCHANGED <<hub, blob, job, args, runs>>
        BY DEF IInv, WaitForJob, Throws, RestoredEnded
    <1>2. CASE Completes /\ job[HubOf(args)].status = "Completed" /\ NoFault
               /\ result' = "Completed"
        <2>1. args \in Args /\ blob \in Contents /\ backup \in Contents
            BY <1>1 DEF TypeOK
        <2>2. backup' \in Contents /\ restored' \in BOOLEAN
            <3>1. [blob EXCEPT !.configs = 0] \in Contents
                BY <2>1, BackupAssumption DEF Contents, Versions
            <3>2. QED
                BY <1>2, <2>1, <3>1 DEF Completes, Args
        <2>3. TypeOK'
            BY <1>1, <1>2, <2>2 DEF TypeOK, NoFault, Ended
        <2>4. CASE args.import
            <3>1. backup' = backup /\ job["target"].status = "Completed" /\ Holds
                BY <1>1, <1>2, <2>4 DEF Completes, HubOf, OwnImport
            <3>2. QED
                BY <1>1, <1>2, <2>3, <2>4, <3>1
                   DEF IInv, BackupKept, RestoredIsBackup, NoExportAtWork, OwnImport, Holds,
                       RestoredEnded, Active
        <2>5. CASE ~ args.import
            <3>1. /\ ~ restored' /\ job["source"].status = "Completed"
                  /\ backup' = IF args.configs THEN blob ELSE [blob EXCEPT !.configs = 0]
                BY <1>2, <2>1, <2>5 DEF Completes, HubOf, Args
            <3>2. BackupKept'
                BY <1>1, <2>1, <3>1 DEF BackupKept, Contents
            <3>3. QED
                BY <1>1, <2>3, <3>1, <3>2
                   DEF IInv, RestoredIsBackup, NoExportAtWork, OwnImport, RestoredEnded, Active
        <2>6. QED
            BY <2>4, <2>5
    <1>3. CASE UNCHANGED <<backup, restored>>
               /\ \/ NoFault /\ result' \in Ended
                  \/ Fault /\ result' = "Error"
        <2>1. TypeOK'
            BY <1>1, <1>3, BackupAssumption DEF TypeOK, NoFault, Fault
        <2>2. QED
            BY <1>1, <1>3, <2>1
               DEF IInv, BackupKept, RestoredIsBackup, NoExportAtWork, OwnImport, RestoredEnded
    <1>4. QED
        BY <1>2, <1>3 DEF WaitForJob, Throws

-----------------------------------------------------------------------------
(* The jobs of the hubs.                                                   *)
LEMMA JobStartsInv ==
    ASSUME IInv, NEW h \in Hubs, JobStarts(h)
    PROVE  IInv'
    <1>1. /\ TypeOK /\ NoExportAtWork /\ OwnImport /\ RestoredEnded
          /\ job[h].status = "Enqueued"
          /\ UNCHANGED <<hub, blob, step, args, result, runs, backup, restored, faults>>
        BY DEF IInv, JobStarts, NoFault
    <1>2. /\ job' \in [Hubs -> Jobs] /\ job'[h].status = "Running"
          /\ \A k \in Hubs : job'[k].configs = job[k].configs
          /\ \A k \in Hubs \ {h} : job'[k] = job[k]
        BY <1>1, SetStatusType DEF JobStarts, TypeOK, Active
    <1>3. TypeOK'
        BY <1>1, <1>2 DEF TypeOK
    <1>4. NoExportAtWork'
        BY <1>1, <1>2 DEF NoExportAtWork, Active, Hubs
    <1>5. OwnImport' /\ RestoredEnded'
        BY <1>1, <1>2 DEF OwnImport, Holds, RestoredEnded, Active, Hubs
    <1>6. QED
        BY <1>1, <1>3, <1>4, <1>5 DEF IInv, BackupKept, RestoredIsBackup

(* A job that works on a hub, to its end. *)
LEMMA JobEnds ==
    ASSUME IInv, NEW h \in Hubs, job[h].status = "Running",
           NEW parts \in SUBSET Parts, Transfer(h, parts),
           NEW status \in Ended, SetStatus(h, status),
           status = "Completed" => parts = PartsOf(h),
           UNCHANGED <<step, args, result, runs, backup, restored>>,
           faults' \in 0 .. MaxFaults
    PROVE  IInv'
    <1>1. /\ TypeOK /\ BackupKept /\ RestoredIsBackup /\ NoExportAtWork /\ OwnImport
          /\ RestoredEnded
        BY DEF IInv
    <1>2. /\ hub \in [Hubs -> Contents] /\ blob \in Contents /\ backup \in Contents
          /\ job \in [Hubs -> Jobs] /\ args \in Args
        BY <1>1 DEF TypeOK
    <1>3. /\ job' \in [Hubs -> Jobs] /\ job'[h].status = status
          /\ \A k \in Hubs : job'[k].configs = job[k].configs
          /\ \A k \in Hubs \ {h} : job'[k] = job[k]
        BY <1>2, SetStatusType
    <1>4. /\ hub' \in [Hubs -> Contents] /\ blob' \in Contents
          /\ h = "source" => hub' = hub
          /\ h = "target" => blob' = blob /\ hub'["target"] = Copy(blob, hub["target"], parts)
        BY <1>2, TransferType
    <1>5. TypeOK'
        BY <1>1, <1>3, <1>4 DEF TypeOK
    <1>6. CASE h = "source"
        <2>1. backup = Nothing
            BY <1>1, <1>6 DEF NoExportAtWork, Active
        <2>2. backup'.devices = 0 /\ backup'.configs = 0 /\ backup' = Nothing
            BY <2>1 DEF Nothing
        <2>3. BackupKept' /\ NoExportAtWork'
            BY <2>2 DEF BackupKept, NoExportAtWork, Nothing
        <2>4. job'["target"] = job["target"]
            BY <1>3, <1>6 DEF Hubs
        <2>5. OwnImport' /\ RestoredEnded' /\ RestoredIsBackup'
            BY <1>1, <2>2, <2>4 DEF OwnImport, Holds, RestoredEnded, RestoredIsBackup
        <2>6. QED
            BY <1>5, <2>3, <2>5 DEF IInv
    <1>7. CASE h = "target"
        <2>1. blob' = blob /\ ~ restored' /\ job'["source"] = job["source"]
            BY <1>1, <1>3, <1>4, <1>7 DEF RestoredEnded, Active, Hubs
        <2>2. BackupKept' /\ NoExportAtWork' /\ RestoredIsBackup' /\ RestoredEnded'
            BY <1>1, <2>1 DEF BackupKept, NoExportAtWork, RestoredIsBackup, RestoredEnded
        <2>3. OwnImport'
            <3> SUFFICES ASSUME step = "wait", args.import
                         PROVE  /\ job'["target"].configs = args.configs
                                /\ job'["target"].status = "Completed" => Holds'
                BY DEF OwnImport
            <3>1. job["target"].configs = args.configs /\ job'["target"].configs = args.configs
                BY <1>1, <1>3 DEF OwnImport, Hubs
            <3>2. ASSUME job'["target"].status = "Completed"
                  PROVE  Holds'
                <4>1. parts = PartsOf("target")
                    BY <1>3, <1>7, <3>2
                <4>2. "devices" \in parts /\ (args.configs => "configs" \in parts)
                    BY <3>1, <4>1 DEF PartsOf
                <4>3. hub["target"] \in Contents
                    BY <1>2 DEF Hubs
                <4>4. /\ hub'["target"].devices = blob.devices
                      /\ args.configs => hub'["target"].configs = blob.configs
                    BY <1>2, <1>4, <1>7, <4>2, <4>3, CopyType
                <4>5. QED
                    BY <1>1, <1>2, <4>4, Backups DEF Holds
            <3>3. QED
                BY <3>1, <3>2
        <2>4. QED
            BY <1>5, <2>2, <2>3 DEF IInv
    <1>8. QED
        BY <1>6, <1>7 DEF Hubs

LEMMA JobCompletesInv ==
    ASSUME IInv, NEW h \in Hubs, JobCompletes(h)
    PROVE  IInv'
    <1>1. "Completed" \in Ended /\ PartsOf(h) \in SUBSET Parts
        BY PartsType DEF Ended
    <1>2. faults' \in 0 .. MaxFaults
        BY DEF IInv, TypeOK, JobCompletes, NoFault
    <1>3. QED
        BY <1>1, <1>2, JobEnds DEF JobCompletes

LEMMA JobFailsInv ==
    ASSUME IInv, NEW h \in Hubs, JobFails(h)
    PROVE  IInv'
    <1>1. PICK parts \in SUBSET PartsOf(h) : Transfer(h, parts)
        BY DEF JobFails
    <1>2. parts \in SUBSET Parts
        BY <1>1, PartsType
    <1>3. PICK status \in {"Failed", "Cancelled"} : SetStatus(h, status)
        BY DEF JobFails
    <1>4. status \in Ended /\ status # "Completed"
        BY <1>3 DEF Ended
    <1>5. faults' \in 0 .. MaxFaults
        BY BackupAssumption DEF IInv, TypeOK, JobFails, NoFault, Fault
    <1>6. QED
        BY <1>1, <1>2, <1>3, <1>4, <1>5, JobEnds DEF JobFails

LEMMA BackupNext == IInv /\ [Next]_vars => IInv'
    <1> SUFFICES ASSUME IInv, [Next]_vars
                 PROVE  IInv'
        OBVIOUS
    <1>1. ASSUME NEW part \in {"devices", "configs"}, Change(part)
          PROVE  IInv'
        BY <1>1, ChangeInv DEF Parts
    <1>2. ASSUME NEW a \in Args, NEW valid \in BOOLEAN, Start(a, valid)
          PROVE  IInv'
        BY <1>2, StartInv
    <1>3. CASE Program
        BY <1>3, PrepareInv, SubmitInv, WaitInv DEF Program
    <1>4. ASSUME NEW h \in Hubs, JobStep(h)
          PROVE  IInv'
        BY <1>4, JobStartsInv, JobCompletesInv, JobFailsInv DEF JobStep
    <1>5. CASE UNCHANGED vars
        BY <1>5 DEF vars, IInv, TypeOK, BackupKept, RestoredIsBackup, NoExportAtWork,
                    OwnImport, Holds, RestoredEnded
    <1>6. QED
        BY <1>1, <1>2, <1>3, <1>4, <1>5 DEF Next, Done

-----------------------------------------------------------------------------
(* Backup, jobs and runs agree at every moment, for any bounds. *)
THEOREM BackupInvariant == Spec => []IInv
    BY BackupInit, BackupNext, PTL DEF Spec

(* Hubs, blobs, jobs and the results of runs keep their types. *)
THEOREM BackupTypeCorrect == Spec => []TypeOK
    <1>1. IInv => TypeOK
        BY DEF IInv
    <1>2. QED
        BY <1>1, BackupInvariant, PTL

(* However often runs lose sight of their jobs, a backup that an export said to  *)
(* have completed stays as it is until the next export.                       *)
THEOREM BackupIsKept == Spec => []BackupKept
    <1>1. IInv => BackupKept
        BY DEF IInv
    <1>2. QED
        BY <1>1, BackupInvariant, PTL

(* An import that says it has completed has restored that backup. *)
THEOREM BackupIsRestored == Spec => []RestoredIsBackup
    <1>1. IInv => RestoredIsBackup
        BY DEF IInv
    <1>2. QED
        BY <1>1, BackupInvariant, PTL
=============================================================================
