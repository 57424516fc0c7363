---------------------------- MODULE SqlWriteFix ----------------------------
(***************************************************************************)
(* fix-sql-write-performance.ps1, run any number of times on one SQL       *)
(* Server host by an operator who answers its prompts, with calls that     *)
(* fail. SqlWriteValidation says what the validation script would report   *)
(* of the host at any moment.                                              *)
(***************************************************************************)
EXTENDS SqlWriteValidation

CONSTANTS
    MemoryArgs,   \* values of -MaxMemoryMB; 0 when it is not given
    MaxFailures,  \* bound: calls that fail
    MaxRuns       \* bound: runs of the script

ASSUME FixAssumption ==
    MemoryArgs \subseteq Nat /\ MaxFailures \in Nat /\ MaxRuns \in Nat

VARIABLES
    host,      \* the host the script runs on; its maxMem is the value in use
    pending,   \* a max server memory that waits for a RECONFIGURE or a restart; 0: none
    fix,       \* the script: where it is, its arguments and its work list
    failures,  \* calls that failed so far
    runs,      \* runs so far
    before,    \* history: the checks that passed when the run began
    clean,     \* history: no memory was pending when the run began, and in it no
               \* call failed and no prompt was refused
    settled    \* history: a clean run ended, and nothing failed since

vars == <<host, pending, fix, failures, runs, before, clean, settled>>

NotRunning == [at |-> "end", whatIf |-> FALSE, want |-> 0, todo |-> {}]

Places == {"memory", "lock pages", "grant", "restart", "defender", "exclude",
           "indexing", "disable", "summary", "end"}

PassedChecks(h) == {r \in Results(h, FALSE) : r.result = "pass"}

Init ==
    /\ host \in Hosts
    /\ pending = 0
    /\ fix = NotRunning
    /\ failures = 0
    /\ runs = 0
    /\ before = {}
    /\ clean = FALSE
    /\ settled = FALSE

At(place) == fix.at = place

GoTo(place) == fix' = [fix EXCEPT !.at = place]

\* The calls of a step succeed and its prompt is answered Y.
Smooth == UNCHANGED <<failures, clean, settled>>

\* A call of the step fails.
Failing ==
    /\ failures < MaxFailures
    /\ failures' = failures + 1
    /\ clean' = FALSE
    /\ settled' = FALSE

\* The operator answers N, or the step comes to nothing for another reason.
Skipped == clean' = FALSE /\ UNCHANGED <<failures, settled>>

\* A query of the instance: it has to be running.
Answered == host.target \in host.running /\ Smooth
Unanswered ==
    \/ host.target \in host.running /\ Failing
    \/ host.target \notin host.running /\ Skipped

Same == UNCHANGED <<pending, runs, before>>

-----------------------------------------------------------------------------
(* Start: the connectivity test, and the value of Fix 1. A value that an    *)
(* earlier run left pending takes effect in this one, whatever it does.     *)

\* Mutant: the operating system is left 10 %, however little that is.
TenPercentLeft(ram) == ram * 1024 - CeilDiv(ram * 1024, 10)

\* In MB: 4 GB or 10 % are left to the operating system.
Recommended(ram) == ram * 1024 - Larger(4096, CeilDiv(ram * 1024, 10))

Start(whatIf, arg) ==
    /\ At("end")
    /\ runs < MaxRuns
    /\ host.target \in host.running
    /\ fix' = [at |-> "memory", whatIf |-> whatIf, todo |-> {},
               want |-> IF arg = 0 THEN Recommended(host.ram) ELSE arg]
    /\ runs' = runs + 1
    /\ before' = {r \in PassedChecks(host) : (arg = 0 /\ pending = 0) \/ r.check # "4.1"}
    /\ clean' = (~ whatIf /\ arg = 0 /\ pending = 0)
    /\ settled' = (settled /\ arg = 0)
    /\ UNCHANGED <<host, pending, failures>>

-----------------------------------------------------------------------------
(* Fix 1: max server memory. The default is replaced without a prompt. SQL *)
(* Server refuses values below 128 MB. Each RECONFIGURE puts in use what    *)
(* is pending, the first one of the batch what an earlier run left.         *)

InUse == IF pending = 0 THEN host ELSE [host EXCEPT !.maxMem = pending]

Allowed == fix.want >= 128

\* Mutant: the RECONFIGURE after the new value is forgotten.
SetWithoutReconfigure == host' = InUse /\ pending' = fix.want

SetMemory == host' = [host EXCEPT !.maxMem = fix.want] /\ pending' = 0

\* The batch ends after any of its four statements.
SetPart ==
    \/ UNCHANGED <<host, pending>>
    \/ host' = InUse /\ pending' = 0
    \/ Allowed /\ host' = InUse /\ pending' = fix.want
    \/ Allowed /\ SetMemory

FixMemory ==
    /\ At("memory")
    /\ GoTo("lock pages")
    /\ \/ /\ host.maxMem # fix.want /\ ~ fix.whatIf
          /\ \/ Allowed /\ SetMemory /\ Smooth
             \/ ~ Allowed /\ host' = InUse /\ pending' = 0 /\ Skipped
             \/ SetPart /\ Failing
       \/ /\ host.maxMem = fix.want \/ fix.whatIf
          /\ UNCHANGED <<host, pending>>
          /\ Smooth
       \/ /\ host.maxMem # Unlimited /\ host.maxMem # fix.want
          /\ UNCHANGED <<host, pending>>
          /\ Skipped
    /\ UNCHANGED <<runs, before>>

\* The current value could not be read: it differs from any value, so that the
\* operator is asked whatever it is.
FixUnreadMemory ==
    /\ At("memory")
    /\ GoTo("lock pages")
    /\ Failing
    /\ IF fix.whatIf THEN UNCHANGED <<host, pending>> ELSE SetPart
    /\ UNCHANGED <<runs, before>>

-----------------------------------------------------------------------------
(* Fix 2: the privilege goes to the account of the first MSSQL service that *)
(* WMI lists; the memory model is asked of the instance of -SQLInstance.    *)

SqlService(h) == h.services[1]

CheckLockPages ==
    /\ At("lock pages")
    /\ \/ /\ Answered
          /\ GoTo(IF host.model[host.target] = "LOCK_PAGES" \/ fix.whatIf
                  THEN "defender" ELSE "grant")
       \/ /\ Unanswered
          /\ GoTo(IF fix.whatIf THEN "defender" ELSE "grant")
    /\ UNCHANGED host
    /\ Same

\* secedit reports no failure: the operator is asked all the same.
GrantLockPages ==
    /\ At("grant")
    /\ \/ /\ host' = [host EXCEPT !.granted = @ \union {SqlService(host)}]
          /\ GoTo("restart")
          /\ Smooth
       \/ /\ UNCHANGED host
          /\ GoTo("restart") \/ GoTo("defender")
          /\ Failing
    /\ Same

\* SQL Server locks its pages when its account held the privilege at its start.
MemoryModel(h, i) == IF i \in h.granted THEN "LOCK_PAGES" ELSE "CONVENTIONAL"

\* An instance starts with the memory that was pending. A restart that fails
\* leaves the service as it was, or stopped.
RestartService ==
    /\ At("restart")
    /\ GoTo("defender")
    /\ LET s == SqlService(host)
           h == IF s = host.target THEN InUse ELSE host IN
          \/ /\ host' = [h EXCEPT !.model[s] = MemoryModel(h, s),
                                  !.running = @ \union {s}]
             /\ pending' = IF s = host.target THEN 0 ELSE pending
             /\ Smooth
          \/ /\ \/ UNCHANGED host
                \/ host' = [host EXCEPT !.running = @ \ {s}]
             /\ UNCHANGED pending
             /\ Failing
          \/ UNCHANGED <<host, pending>> /\ Skipped
    /\ UNCHANGED <<runs, before>>

-----------------------------------------------------------------------------
(* Fix 3: Windows Defender exclusions, of the full folder of every file.    *)

\* Mutant: the folder above the file's.
ParentFolders(h) == {SubSeq(f.folder, 1, Len(f.folder) - 1) : f \in h.files}

SqlFolders(h) == {f.folder : f \in h.files}

\* An unanswered query either ends Fix 3 or counts as no path at all.
ReadExclusions ==
    /\ At("defender")
    /\ LET found(paths) == [fix EXCEPT !.at = IF fix.whatIf THEN "indexing" ELSE "exclude",
                                       !.todo = paths] IN
          \/ /\ ~ host.defender
             /\ GoTo("indexing")
             /\ Smooth
          \/ /\ host.defender
             /\ fix' = IF fix.whatIf THEN found({})
                       ELSE found(SqlFolders(host) \ host.exclusions)
             /\ Answered
          \/ /\ host.defender
             /\ GoTo("indexing") \/ fix' = found({})
             /\ Unanswered
    /\ UNCHANGED host
    /\ Same

\* The first path that cannot be added ends the loop.
AddExclusion ==
    /\ At("exclude")
    /\ \E path \in fix.todo :
          \/ /\ host' = [host EXCEPT !.exclusions = @ \union {path}]
             /\ fix' = [fix EXCEPT !.todo = @ \ {path}]
             /\ Smooth
          \/ /\ UNCHANGED host
             /\ fix' = [fix EXCEPT !.todo = {}]
             /\ Failing
    /\ Same

ExcludeExe ==
    /\ At("exclude")
    /\ fix.todo = {}
    /\ GoTo("indexing")
    /\ \/ /\ IF host.exeFound
             THEN host' = [host EXCEPT !.exclusions = @ \union {Exe}]
             ELSE UNCHANGED host
          /\ Smooth
       \/ /\ host.exeFound /\ Exe \notin host.exclusions
          /\ UNCHANGED host
          /\ Failing
    /\ Same

-----------------------------------------------------------------------------
(* Fix 4: file indexing, off on every volume of a SQL Server file.         *)

Indexed(h) == {v \in SqlVolumes(h) : h.volumes[v].indexing}

ReadVolumes ==
    /\ At("indexing")
    /\ \/ /\ Answered
          /\ fix' = IF fix.whatIf THEN [fix EXCEPT !.at = "summary"]
                    ELSE [fix EXCEPT !.at = "disable", !.todo = Indexed(host)]
       \/ /\ ~ fix.whatIf /\ Indexed(host) # {}
          /\ GoTo("summary")
          /\ host.target \in host.running /\ Skipped
       \/ Unanswered /\ GoTo("summary")
    /\ UNCHANGED host
    /\ Same

\* Each volume has its own catch: one that fails does not keep the others.
DisableIndexing ==
    /\ At("disable")
    /\ \E v \in fix.todo :
          /\ fix' = [fix EXCEPT !.todo = @ \ {v}]
          /\ \/ /\ host' = [host EXCEPT !.volumes[v].indexing = FALSE]
                /\ Smooth
             \/ UNCHANGED host /\ Failing
    /\ Same

\* The summary says that the fixes were applied, whatever happened.
Summary ==
    /\ At("summary") \/ (At("disable") /\ fix.todo = {})
    /\ fix' = NotRunning
    /\ settled' = IF fix.whatIf THEN settled ELSE clean
    /\ clean' = FALSE
    /\ UNCHANGED <<host, failures>>
    /\ Same

Ended ==
    /\ At("end")
    /\ runs = MaxRuns \/ host.target \notin host.running
    /\ UNCHANGED vars

Next ==
    \/ \E whatIf \in BOOLEAN, arg \in MemoryArgs : Start(whatIf, arg)
    \/ FixMemory \/ FixUnreadMemory
    \/ CheckLockPages \/ GrantLockPages \/ RestartService
    \/ ReadExclusions \/ AddExclusion \/ ExcludeExe
    \/ ReadVolumes \/ DisableIndexing
    \/ Summary
    \/ Ended

Spec == Init /\ [][Next]_vars

-----------------------------------------------------------------------------
(* Properties.                                                             *)

\* The two scripts agree on the reserve of the operating system: one rounds 10 %
\* up to a MB, the other to a GB.
ReserveAgrees(h) == h.ram <= 40 \/ h.ram % 10 = 0

\* Hosts on which what Fix 1 to 4 do is what the validation looks for: the
\* instance is the first one listed, and each file is in a folder of its drive.
Standard(h) ==
    /\ ReserveAgrees(h)
    /\ h.services[1] = h.target
    /\ \A f \in h.files : Len(f.folder) = 2
    /\ SqlVolumes(h) # {}

Fixed == {"1.3", "4.1", "4.2", "7.1"}

Passes(h, checks) ==
    \A r \in Results(h, FALSE) : r.check \in checks => r.result = "pass"

\* After a run in which no call failed and no prompt was refused, and that found no
\* memory pending, the validation passes every check the script is about, on a
\* standard host.
AppliedFixesPass == settled /\ Standard(host) => Passes(host, Fixed)

\* A run, in the middle of it or at its end, with failures, refused prompts and
\* half done loops, never takes away a check that passed when it began, as long
\* as the instance is running. A memory an earlier run left pending is not asked
\* about: it may take effect in this run and fail check 4.1.
NeverWorse ==
    host.target \in host.running =>
        \A r \in before :
            r \in PassedChecks(host) \/ (r.check = "4.1" /\ ~ ReserveAgrees(host))

\* Run again after a clean run, the script finds nothing to do on a host whose
\* first service is the instance it was given: no memory to set, nothing to
\* grant or restart, no folder and no volume.
SettledRerun ==
    settled /\ host.services[1] = host.target =>
        /\ host.maxMem = Recommended(host.ram)
        /\ ~ At("grant") /\ ~ At("restart")
        /\ fix.todo = {}

Under(folder, path) ==
    Len(folder) <= Len(path) /\ SubSeq(path, 1, Len(folder)) = folder

\* The verdict over every check but 4.3, which fails on every host.
VerdictBut43 == Verdict({r \in Results(host, FALSE) : r.check # "4.3"})

\* But for check 4.3, the verdict "excellent" is given only to a host that keeps 4
\* GB and 10 % of its memory (to the rounding of 0.01 GB) from SQL Server, scans no
\* database file, and separates data from log wherever each is on one drive.
ExcellentMeansTuned ==
    VerdictBut43 = "excellent" =>
        /\ host.ram * 1024 - host.maxMem >= Larger(4096, CeilDiv(host.ram * 1024, 10)) - 6
        /\ host.defender =>
              \A f \in host.files : \E e \in host.exclusions : Under(e, f.folder)
        /\ \A db \in UserDatabases(host) :
              LET data == DriveSet(host, db, "ROWS")
                  log == DriveSet(host, db, "LOG")
              IN Cardinality(data) = 1 /\ Cardinality(log) = 1 => data # log

\* fix-sql-write-performance.ps1:409: "Run the validation script again to verify
\* all checks pass", for the checks the script is about.
FixesVerified ==
    settled /\ host.services[1] = host.target => Passes(host, Fixed)

-----------------------------------------------------------------------------
(* The inductive invariant that shows the properties.                      *)

TypeOK ==
    /\ IsHost(host)
    /\ pending \in Nat
    /\ fix \in [at : Places, whatIf : BOOLEAN, want : Int,
               todo : SUBSET (SqlFolders(host) \union SqlVolumes(host))]
    /\ At("disable") => fix.todo \subseteq SqlVolumes(host)
    /\ failures \in 0 .. MaxFailures /\ runs \in 0 .. MaxRuns
    /\ clean \in BOOLEAN /\ settled \in BOOLEAN

Excluded(h) == h.defender => SqlFolders(h) \subseteq h.exclusions

\* While a run is clean, what it has come past is done, and what its list does not
\* hold any more is too.
CleanInv ==
    clean =>
        /\ ~ At("end") /\ ~ At("summary")
        /\ ~ fix.whatIf
        /\ fix.want = Recommended(host.ram)
        /\ host.target \in host.running
        /\ pending = 0
        /\ At("memory") \/ host.maxMem = fix.want
        /\ host.services[1] = host.target =>
              /\ At("restart") => host.target \in host.granted
              /\ fix.at \in {"defender", "exclude", "indexing", "disable"} =>
                    host.model[host.target] = "LOCK_PAGES"
        /\ At("exclude") => SqlFolders(host) \subseteq host.exclusions \union fix.todo
        /\ fix.at \in {"indexing", "disable"} => Excluded(host)
        /\ At("disable") => Indexed(host) \subseteq fix.todo

Tuned(h) ==
    /\ h.maxMem = Recommended(h.ram)
    /\ h.model[h.target] = "LOCK_PAGES"
    /\ Excluded(h)
    /\ Indexed(h) = {}

\* What a clean run did stays done, and the runs after it have nothing to do.
SettledInv ==
    settled =>
        /\ host.target \in host.running /\ pending = 0
        /\ host.services[1] = host.target =>
              /\ Tuned(host)
              /\ ~ At("grant") /\ ~ At("restart")
              /\ fix.todo = {}
              /\ At("memory") => fix.want = Recommended(host.ram)

\* What passed before the run passes still; the run that may spoil check 4.1 is
\* one that sets another value than the recommended one.
BeforeInv ==
    \A r \in before :
        /\ r \in PassedChecks(host) \/ (r.check = "4.1" /\ ~ ReserveAgrees(host))
        /\ r.check = "4.1" /\ ~ At("end") =>
              fix.want = Recommended(host.ram) /\ pending \in {0, fix.want}

IInv == TypeOK /\ CleanInv /\ SettledInv /\ BeforeInv

=============================================================================
