---------------------------- MODULE DeviceBackup ----------------------------
(***************************************************************************)
(* iot_import_export: an operator runs the program again and again, to      *)
(* export the devices (and configurations) of an IoT hub to two blobs or    *)
(* to import them into another hub. The program submits a job to the hub    *)
(* and polls it; the job goes on without the program. The contents of a hub *)
(* or a blob are version numbers, 0 when there are none.                    *)
(***************************************************************************)
EXTENDS Naturals

CONSTANTS
    MaxVersion,   \* bound: changes of the source hub
    MaxRuns,      \* bound: runs of the program
    MaxFaults     \* bound: calls that fail

ASSUME BackupAssumption ==
    MaxVersion \in Nat \ {0} /\ MaxRuns \in Nat /\ MaxFaults \in Nat

VARIABLES
    hub,          \* the registry of the source and of the target hub
    blob,         \* the devices blob and the configurations blob
    job,          \* the latest job of each hub
    step,         \* where the running program stands
    args,         \* the arguments of the latest run that had valid ones
    result,       \* what the latest run printed at its end
    runs,         \* runs started
    backup,       \* history: what the last export run said to have completed
    restored,     \* history: the last import run said to have completed it
    faults        \* calls that failed

vars == <<hub, blob, job, step, args, result, runs, backup, restored, faults>>

Hubs == {"source", "target"}
Versions == 0 .. MaxVersion
Contents == [devices : Versions, configs : Versions]
Nothing == [devices |-> 0, configs |-> 0]

Ended == {"Completed", "Failed", "Cancelled"}
Active == {"Enqueued", "Running"}
Jobs == [status : Ended \union Active \union {"None"}, configs : BOOLEAN]

Args == [import : BOOLEAN, configs : BOOLEAN]
HubOf(a) == IF a.import THEN "target" ELSE "source"

Init ==
    /\ hub \in [Hubs -> {Nothing}]
    /\ blob = Nothing
    /\ job = [h \in Hubs |-> [status |-> "None", configs |-> FALSE]]
    /\ step = "none"
    /\ args = [import |-> FALSE, configs |-> FALSE]
    /\ result = "None"
    /\ runs = 0
    /\ backup = Nothing
    /\ restored = FALSE
    /\ faults = 0

NoFault == UNCHANGED faults
Fault == faults < MaxFaults /\ faults' = faults + 1

\* A device or a configuration of the source hub changes.
Change(part) ==
    /\ hub["source"][part] < MaxVersion
    /\ hub' = [hub EXCEPT !["source"][part] = @ + 1]
    /\ NoFault
    /\ UNCHANGED <<blob, job, step, args, result, runs, backup, restored>>

-----------------------------------------------------------------------------
(* The program.                                                            *)

\* Main: parameters that do not validate end the run with exit code 1; an export
\* forgets the backup of an earlier one.
Start(a, valid) ==
    /\ step = "none"
    /\ runs < MaxRuns
    /\ runs' = runs + 1
    /\ IF valid
       THEN /\ step' = "prepare"
            /\ args' = a
            /\ result' = "None"
            /\ backup' = IF a.import THEN backup ELSE Nothing
            /\ restored' = FALSE
       ELSE /\ result' = "Refused"
            /\ UNCHANGED <<step, args, backup, restored>>
    /\ NoFault
    /\ UNCHANGED <<hub, blob, job>>

\* An exception is printed, by ExportDevicesAsync or by Main, and the run ends.
Throws == step' = "none" /\ result' = "Error"

PrepareStorage ==
    /\ step = "prepare"
    /\ \/ step' = "submit" /\ NoFault /\ UNCHANGED result
       \/ Throws /\ Fault
    /\ UNCHANGED <<hub, blob, job, args, runs, backup, restored>>

\* A hub takes no job while one is active. A call that fails may have submitted it.
SubmitJob ==
    LET h == HubOf(args)
        submitted == [job EXCEPT ![h] = [status |-> "Enqueued", configs |-> args.configs]]
    IN
    /\ step = "submit"
    /\ \/ /\ job[h].status \notin Active
          /\ job' = submitted /\ step' = "wait" /\ NoFault /\ UNCHANGED result
       \/ job[h].status \notin Active /\ job' \in {job, submitted} /\ Throws /\ Fault
       \/ job[h].status \in Active /\ UNCHANGED job /\ Throws /\ NoFault
    /\ UNCHANGED <<hub, blob, args, runs, backup, restored>>

\* What a completed run adds to the history: the parts an export took are in the
\* blobs, or an import has put them into the target hub.
Completes ==
    /\ restored' = args.import
    /\ backup' = IF args.import THEN backup
                 ELSE IF args.configs THEN blob ELSE [blob EXCEPT !.configs = 0]

\* Mutant: the loop ends at the first poll, whatever the status.
PollOnce ==
    /\ step = "wait"
    /\ step' = "none" /\ result' = job[HubOf(args)].status /\ NoFault
    /\ Completes
    /\ UNCHANGED <<hub, blob, job, args, runs>>

\* Mutant: the loop does not know the status Cancelled.
IgnoreCancelled ==
    /\ step = "wait"
    /\ LET status == job[HubOf(args)].status IN
       \/ status \in Ended \ {"Cancelled"} /\ step' = "none" /\ result' = status /\ NoFault
       \/ Throws /\ Fault
    /\ UNCHANGED <<hub, blob, job, args, runs, backup, restored>>

\* Mutant: the status of the job is not looked at.
AnyEndIsCompleted ==
    /\ step = "wait"
    /\ job[HubOf(args)].status \in Ended
    /\ step' = "none" /\ result' = "Completed" /\ NoFault
    /\ Completes
    /\ UNCHANGED <<hub, blob, job, args, runs>>

\* Polls until the job has ended; a poll that throws leaves the job to itself.
WaitForJob ==
    /\ step = "wait"
    /\ LET status == job[HubOf(args)].status IN
       \/ /\ status \in Ended
          /\ step' = "none" /\ result' = status /\ NoFault
          /\ IF status = "Completed" THEN Completes ELSE UNCHANGED <<backup, restored>>
       \/ Throws /\ Fault /\ UNCHANGED <<backup, restored>>
    /\ UNCHANGED <<hub, blob, job, args, runs>>

-----------------------------------------------------------------------------
(* The hub's job service.                                                  *)

SetStatus(h, status) == job' = [job EXCEPT ![h].status = status]

JobStarts(h) ==
    /\ job[h].status = "Enqueued"
    /\ SetStatus(h, "Running")
    /\ NoFault
    /\ UNCHANGED <<hub, blob, step, args, result, runs, backup, restored>>

\* What a copy of some parts of one contents over another gives.
Copy(from, to, parts) ==
    [part \in {"devices", "configs"} |-> IF part \in parts THEN from[part] ELSE to[part]]

PartsOf(h) == IF job[h].configs THEN {"devices", "configs"} ELSE {"devices"}

Transfer(h, parts) ==
    IF h = "source"
    THEN blob' = Copy(hub["source"], blob, parts) /\ UNCHANGED hub
    ELSE hub' = [hub EXCEPT !["target"] = Copy(blob, @, parts)] /\ UNCHANGED blob

\* An import needs the blobs of what it imports.
Missing(h) == h = "target" /\ \E part \in PartsOf(h) : blob[part] = 0

JobCompletes(h) ==
    /\ job[h].status = "Running"
    /\ ~ Missing(h)
    /\ Transfer(h, PartsOf(h))
    /\ SetStatus(h, "Completed")
    /\ NoFault
    /\ UNCHANGED <<step, args, result, runs, backup, restored>>

\* A job that fails or is cancelled may have done a part of its work.
JobFails(h) ==
    /\ job[h].status = "Running"
    /\ \E parts \in SUBSET PartsOf(h) : Transfer(h, parts)
    /\ \/ Missing(h) /\ SetStatus(h, "Failed") /\ NoFault
       \/ \E status \in {"Failed", "Cancelled"} : SetStatus(h, status) /\ Fault
    /\ UNCHANGED <<step, args, result, runs, backup, restored>>

\* The operator has made the last run, and no job is active.
Done ==
    /\ step = "none" /\ runs = MaxRuns
    /\ \A h \in Hubs : job[h].status \notin Active
    /\ UNCHANGED vars

Program == PrepareStorage \/ SubmitJob \/ WaitForJob

JobStep(h) == JobStarts(h) \/ JobCompletes(h) \/ JobFails(h)

Next ==
    \/ \E part \in {"devices", "configs"} : Change(part)
    \/ \E a \in Args, valid \in BOOLEAN : Start(a, valid)
    \/ Program
    \/ \E h \in Hubs : JobStep(h)
    \/ Done

Spec == Init /\ [][Next]_vars

\* The program goes on polling and the hub works on its jobs.
Fairness == WF_vars(Program) /\ \A h \in Hubs : WF_vars(JobStep(h))

FairSpec == Spec /\ Fairness

-----------------------------------------------------------------------------
(* Properties.                                                             *)

\* Every variable has its type: a run prints a final status of its job, or an error.
TypeOK ==
    /\ hub \in [Hubs -> Contents]
    /\ blob \in Contents
    /\ job \in [Hubs -> Jobs]
    /\ step \in {"none", "prepare", "submit", "wait"}
    /\ args \in Args
    /\ result \in Ended \union {"None", "Error", "Refused"}
    /\ runs \in 0 .. MaxRuns
    /\ backup \in Contents
    /\ restored \in BOOLEAN
    /\ faults \in 0 .. MaxFaults

\* What an export run said to have completed stays in the blobs until the next
\* export run: no job an earlier run lost sight of writes over it.
BackupKept ==
    \A part \in {"devices", "configs"} : backup[part] # 0 => blob[part] = backup[part]

\* After an import run that said to have completed, the target hub holds the
\* devices of the last export run that said so, although imports and exports
\* whose polls failed may still be at work; and the configurations, if both runs
\* included them.
RestoredIsBackup ==
    restored =>
        /\ backup.devices # 0 => hub["target"].devices = backup.devices
        /\ args.configs /\ backup.configs # 0 => hub["target"].configs = backup.configs

\* Every run ends, however its job ends.
RunsEnd == step # "none" ~> step = "none"

-----------------------------------------------------------------------------
\* The inductive invariant of the safety properties. The backup is safe because no
\* job works on the source hub while there is one; a run that waits for an import
\* waits for its own job, and what that job leaves is the backup.
NoExportAtWork ==
    backup # Nothing =>
        /\ job["source"].status \notin Active
        /\ step # "none" => args.import

\* The target hub holds the backup, as far as both runs went.
Holds ==
    /\ backup.devices # 0 => hub["target"].devices = backup.devices
    /\ args.configs /\ backup.configs # 0 => hub["target"].configs = backup.configs

OwnImport ==
    step = "wait" /\ args.import =>
        /\ job["target"].configs = args.configs
        /\ job["target"].status = "Completed" => Holds

RestoredEnded == restored => step = "none" /\ job["target"].status \notin Active

IInv ==
    /\ TypeOK
    /\ BackupKept /\ RestoredIsBackup
    /\ NoExportAtWork /\ OwnImport /\ RestoredEnded
=============================================================================
