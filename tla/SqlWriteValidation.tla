------------------------- MODULE SqlWriteValidation -------------------------
(***************************************************************************)
(* validate-sql-write-performance.ps1: what the seventeen checks say of a *)
(* SQL Server host, and the verdict over them.                             *)
(*                                                                         *)
(* A folder is the sequence of its drive and folder names: <<"E", "SQL">>  *)
(* is E:\SQL\. master has database_id 1, the other system databases 2 to  *)
(* 4. RAM is in whole GB, so that the script's double arithmetic is exact; *)
(* max server memory is in MB.                                             *)
(***************************************************************************)
EXTENDS Integers, Sequences, FiniteSets

CONSTANTS
    Hosts,        \* the hosts the scripts meet
    Drives,       \* drive letters
    Instances,    \* SQL Server instances (Windows services) of a host
    Exe           \* the path of sqlservr.exe

Unlimited == 2147483647
Unreadable == -1

\* sql_memory_model_desc.
MemoryModels == {"CONVENTIONAL", "LOCK_PAGES", "LARGE_PAGES"}

\* What the scripts read of a host. A privilege counts when a service starts: an
\* instance with locked pages has it.
IsHost(h) ==
    /\ h = [files |-> h.files, volumes |-> h.volumes, disks |-> h.disks, cpus |-> h.cpus,
            ram |-> h.ram, maxMem |-> h.maxMem, target |-> h.target,
            services |-> h.services, running |-> h.running, granted |-> h.granted,
            model |-> h.model, ifi |-> h.ifi, vlf |-> h.vlf,
            highPerformance |-> h.highPerformance, pageFile |-> h.pageFile,
            defender |-> h.defender, exclusions |-> h.exclusions, exeFound |-> h.exeFound]
    /\ h.ram \in Nat /\ h.maxMem \in Nat
    /\ h.target \in Instances
    /\ h.services \in Seq(Instances) /\ h.services # <<>>
    /\ h.running \subseteq Instances
    /\ h.granted \subseteq Instances
    /\ h.model \in [Instances -> MemoryModels]
    /\ \A s \in Instances : h.model[s] = "LOCK_PAGES" => s \in h.granted
    /\ DOMAIN h.volumes \subseteq Drives
    /\ h.volumes \in [DOMAIN h.volumes ->
                         [unit : Nat, compressed : BOOLEAN, indexing : BOOLEAN]]
    /\ \A f \in h.files : /\ f.folder \in Seq(STRING) /\ Len(f.folder) >= 1
                          /\ f.folder[1] \in Drives

\* When a script starts, its instance answers; every running one is a service.
HostAssumption ==
    \A h \in Hosts :
        /\ IsHost(h)
        /\ h.target \in h.running
        /\ \A s \in h.running : \E k \in DOMAIN h.services : h.services[k] = s

ASSUME HostAssumption

-----------------------------------------------------------------------------
(* Results: only pass, warn and fail are counted.                          *)

Pass(check, on) == [check |-> check, on |-> on, result |-> "pass"]
Warn(check, on) == [check |-> check, on |-> on, result |-> "warn"]
Fail(check, on) == [check |-> check, on |-> on, result |-> "fail"]

Require(check, on, ok) == IF ok THEN Pass(check, on) ELSE Fail(check, on)

Drive(f) == f.folder[1]
Databases(h) == {f.db : f \in h.files}
SystemDatabases == {"master", "tempdb", "model", "msdb"}
UserDatabases(h) == Databases(h) \ SystemDatabases
FilesOf(h, db, kind) == {f \in h.files : f.db = db /\ f.kind = kind}

-----------------------------------------------------------------------------
(* 1. Storage.                                                             *)

\* The fixed volumes that hold a file of tempdb, msdb, model or a user database.
SqlVolumes(h) == {Drive(f) : f \in {g \in h.files : g.db # "master"}}
                    \intersect DOMAIN h.volumes

VolumeCheck(h, check, good) ==
    IF SqlVolumes(h) = {} THEN {Warn(check, "volumes")}
    ELSE {Require(check, v, v \in good) : v \in SqlVolumes(h)}

AllocationUnitSize(h) ==
    VolumeCheck(h, "1.1", {v \in SqlVolumes(h) : h.volumes[v].unit = 65536})

Compression(h) ==
    VolumeCheck(h, "1.2", {v \in SqlVolumes(h) : ~ h.volumes[v].compressed})

Indexing(h) ==
    VolumeCheck(h, "1.3", {v \in SqlVolumes(h) : ~ h.volumes[v].indexing})

Ssds(h) == {d \in DOMAIN h.disks : h.disks[d].media = "SSD" /\ ~ h.disks[d].virtual}

\* An enabled write cache is only mentioned.
WriteCache(h) ==
    IF Ssds(h) = {} THEN {Warn("1.4", "disks")}
    ELSE {Pass("1.4", d) : d \in {e \in Ssds(h) : ~ h.disks[e].cache}}

SectorSize(h) ==
    IF Ssds(h) = {} THEN {Warn("1.5", "disks")}
    ELSE LET Physical(d) == h.disks[d].sector[1]
             Logical(d) == h.disks[d].sector[2]
         IN {Pass("1.5", d) :
                d \in {e \in Ssds(h) : Physical(e) = 4096 /\ Logical(e) \in {512, 4096}}}
            \union
            {Warn("1.5", d) :
                d \in {e \in Ssds(h) : \/ Physical(e) = 512
                                       \/ Physical(e) = 4096 /\ Logical(e) \notin {512, 4096}}}

-----------------------------------------------------------------------------
(* 2. tempdb.                                                              *)

TempdbFiles(h) == {f \in h.files : f.db = "tempdb"}

TempdbLocation(h) ==
    {Require("2.1", f.name,
             \/ Drive(f) = "D"
             \/ Drive(f) \in DOMAIN h.disks /\ h.disks[Drive(f)].media = "SSD") :
        f \in TempdbFiles(h)}

TempdbFileCount(h) ==
    LET recommended == IF h.cpus < 8 THEN h.cpus ELSE 8
    IN {IF Cardinality(FilesOf(h, "tempdb", "ROWS")) = recommended
        THEN Pass("2.2", "tempdb") ELSE Warn("2.2", "tempdb")}

TempdbFileSizes(h) ==
    {Require("2.3", "tempdb",
             Cardinality({f.size : f \in FilesOf(h, "tempdb", "ROWS")}) = 1)}

-----------------------------------------------------------------------------
(* 3. Data and log files of the user databases.                            *)

DriveSet(h, db, kind) == {Drive(f) : f \in FilesOf(h, db, kind)}

\* -ne on PowerShell values: a scalar when there is one drive, else an array. An
\* array on the left is filtered by the value on the right, and what is left of
\* it is true; an array on the right never equals a scalar.
NotEqual(data, log) == ~ (Cardinality(data) = 1 /\ data = log)

LogSeparation(h) ==
    {Require("3.1", db, NotEqual(DriveSet(h, db, "ROWS"), DriveSet(h, db, "LOG"))) :
        db \in UserDatabases(h)}

Autogrowth(h) ==
    LET percent == {f \in h.files : f.db \in UserDatabases(h) /\ f.percentGrowth}
    IN IF percent = {} THEN {Pass("3.2", "files")}
       ELSE {Fail("3.2", f.name) : f \in percent}

-----------------------------------------------------------------------------
(* 4. Memory and instant file initialization.                              *)

Larger(a, b) == IF a < b THEN b ELSE a
CeilDiv(a, b) == (a + b - 1) \div b

\* In hundredths of a GB, as [Math]::Round(_, 2) leaves it.
MaxMemGB(h) == (200 * h.maxMem + 1024) \div 2048

\* Mutant: the reserve of the operating system is 10 %, however little that is.
ReserveTenPercent(h) == 100 * (h.ram - CeilDiv(h.ram, 10))

RecommendedMax(h) == 100 * (h.ram - Larger(4, CeilDiv(h.ram, 10)))

MaxServerMemory(h) ==
    {IF h.maxMem = Unlimited THEN Fail("4.1", "memory")
     ELSE IF MaxMemGB(h) \in RecommendedMax(h) - 400 .. RecommendedMax(h)
     THEN Pass("4.1", "memory")
     ELSE Warn("4.1", "memory")}

LockPages(h) == {Require("4.2", "memory", h.model[h.target] = "LOCK_PAGES")}

\* The column is compared with 1, but holds 'Y' or 'N': the check fails on every
\* host, and no host gets the verdict "excellent".
InstantFileInitialization(h) == {Require("4.3", "files", h.ifi = "1")}

-----------------------------------------------------------------------------
(* 5 to 7. Log, Windows and anti-virus.                                    *)

VirtualLogFiles(h) ==
    {IF h.vlf[db] = Unreadable THEN Warn("5.1", db)
     ELSE IF h.vlf[db] <= 50 THEN Pass("5.1", db)
     ELSE IF h.vlf[db] <= 100 THEN Warn("5.1", db)
     ELSE Fail("5.1", db) : db \in UserDatabases(h)}

PowerPlan(h) == {Require("6.1", "power", h.highPerformance)}

PageFile(h) ==
    IF h.pageFile = "system" THEN {}
    ELSE {IF h.pageFile # "D" THEN Pass("6.2", "pagefile") ELSE Warn("6.2", "pagefile")}

\* LEFT up to the backslash that ends the first folder; "" for a file in the
\* root of its drive.
FolderPath(f) == SubSeq(f.folder, 1, IF Len(f.folder) = 1 THEN 0 ELSE 2)

DefenderExclusions(h, detailed) ==
    LET missing == {FolderPath(f) : f \in h.files} \ h.exclusions
    IN IF ~ h.defender THEN {}
       ELSE {Require("7.1", "paths", missing = {})}
            \union {Warn("7.1", "a path") : path \in {p \in missing : detailed}}

-----------------------------------------------------------------------------
(* The summary.                                                            *)

Results(h, detailed) ==
    UNION {AllocationUnitSize(h), Compression(h), Indexing(h), WriteCache(h),
           SectorSize(h), TempdbLocation(h), TempdbFileCount(h),
           TempdbFileSizes(h), LogSeparation(h), Autogrowth(h),
           MaxServerMemory(h), LockPages(h), InstantFileInitialization(h),
           VirtualLogFiles(h), PowerPlan(h), PageFile(h),
           DefenderExclusions(h, detailed)}

Verdict(results) ==
    IF \E r \in results : r.result = "fail" THEN "critical"
    ELSE IF \E r \in results : r.result = "warn" THEN "good"
    ELSE "excellent"
=============================================================================
