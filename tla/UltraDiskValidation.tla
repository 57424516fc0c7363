------------------------- MODULE UltraDiskValidation -------------------------
(***************************************************************************)
(* sql_ultra_disks/validate-sql-ultradisk.sh: the validation of a virtual  *)
(* machine with Ultra Disks, one az call at a time. A call may fail; most  *)
(* failures cost a warning and the script goes on. The number of checks    *)
(* that passed is only printed and left out; sizes and rates are reduced   *)
(* to whether they reach the recommended ones. Its names differ from those *)
(* of SqlWriteFix, so that one module of proofs can be about both.         *)
(***************************************************************************)
EXTENDS Naturals, Sequences

CONSTANTS
    Machines,     \* the virtual machines validated
    NoZone,       \* no availability zone
    MaxAzFailures   \* bound: the az calls that fail

IsSequence(s) == s \in Seq({s[k] : k \in DOMAIN s})

\* What az answers for a machine.
IsMachine(m) ==
    /\ m.sizeSupported \in BOOLEAN
    /\ IsSequence(m.nics) /\ \A k \in DOMAIN m.nics : m.nics[k] \in BOOLEAN
    /\ IsSequence(m.disks)
    /\ \A k \in DOMAIN m.disks :
          LET d == m.disks[k] IN
          d.iops \in BOOLEAN /\ d.throughput \in BOOLEAN /\ d.size \in BOOLEAN /\ d.lun \in Nat
    /\ m.os.sku \in {"Standard", "StandardSSD", "Premium"}

ASSUME ValidationAssumption ==
    MaxAzFailures \in Nat /\ \A m \in Machines : IsMachine(m)

VARIABLES
    vm,           \* the machine, as az vm show and az disk show answer
    detailed,     \* -d
    pc,           \* the check in progress
    nth,            \* the element of the loop in progress
    fail, warn,   \* FAIL_COUNT and WARN_COUNT
    ultra,        \* ULTRA_DISKS: the indexes of the disks counted as Ultra
    accelerated,  \* ALL_NICS_ACCELERATED
    osKnown,      \* OS_DISK_DETAIL holds the disk, not an error message
    aligned,      \* ALL_DISKS_ZONE_ALIGNED
    claimed,      \* history: "All data disks are in the same zone" was printed
    azFailures      \* az calls that failed

vmVars == <<vm, detailed, pc, nth, fail, warn, ultra, accelerated, osKnown,
          aligned, claimed, azFailures>>

VmInit ==
    /\ vm \in Machines
    /\ detailed \in BOOLEAN
    /\ pc = "account"
    /\ nth = 1
    /\ fail = 0 /\ warn = 0
    /\ ultra = {}
    /\ accelerated = TRUE
    /\ osKnown = FALSE
    /\ aligned = TRUE
    /\ claimed = FALSE
    /\ azFailures = 0

Disks == DOMAIN vm.disks

\* The counters after f failures and w warnings more.
Score(f, w) == fail' = fail + f /\ warn' = warn + w

Count(bool) == IF bool THEN 1 ELSE 0

Goto(next) == pc' = next /\ nth' = 1

AzAnswers == UNCHANGED azFailures

AzFails == azFailures < MaxAzFailures /\ azFailures' = azFailures + 1

\* set -e and set -u: the script stops at once, without a summary.
Abort ==
    /\ Goto("aborted")
    /\ UNCHANGED <<vm, detailed, fail, warn, ultra, accelerated, osKnown,
                   aligned, claimed>>

-----------------------------------------------------------------------------
(* Section 1.                                                              *)

SetAccount ==
    /\ pc = "account"
    /\ \/ /\ AzAnswers
          /\ Goto("show")
          /\ UNCHANGED <<vm, detailed, fail, warn, ultra, accelerated, osKnown,
                         aligned, claimed>>
       \/ AzFails /\ Abort

ShowMachine ==
    /\ pc = "show"
    /\ \/ /\ AzAnswers
          /\ Goto("size")
          /\ UNCHANGED <<vm, detailed, fail, warn, ultra, accelerated, osKnown,
                         aligned, claimed>>
       \/ AzFails /\ Abort

CheckSizeAndZone ==
    /\ pc = "size"
    /\ Score(Count(~ vm.sizeSupported), Count(vm.zone = NoZone))
    /\ Goto("nics")
    /\ UNCHANGED <<vm, detailed, ultra, accelerated, osKnown, aligned, claimed,
                   azFailures>>

\* The loop stops at the first interface that is not accelerated or not known.
CheckNic ==
    /\ pc = "nics"
    /\ nth \in DOMAIN vm.nics
    /\ \/ /\ AzAnswers
          /\ accelerated' = vm.nics[nth]
          /\ UNCHANGED warn
       \/ /\ AzFails
          /\ accelerated' = FALSE
          /\ warn' = warn + 1
    /\ nth' = IF accelerated' THEN nth + 1 ELSE Len(vm.nics) + 1
    /\ UNCHANGED <<vm, detailed, pc, fail, ultra, osKnown, aligned, claimed>>

CheckAcceleratedNetworking ==
    /\ pc = "nics"
    /\ nth \notin DOMAIN vm.nics
    /\ Score(Count(~ accelerated), 0)
    /\ Goto("collect")
    /\ UNCHANGED <<vm, detailed, ultra, accelerated, osKnown, aligned, claimed,
                   azFailures>>

-----------------------------------------------------------------------------
(* Section 2.                                                              *)

\* An Ultra Disk whose details cannot be read is not counted as one.
CollectDisk ==
    /\ pc = "collect"
    /\ nth \in Disks
    /\ \/ /\ AzAnswers
          /\ ultra' = IF vm.disks[nth].sku = "Ultra" THEN ultra \union {nth} ELSE ultra
          /\ UNCHANGED warn
       \/ /\ AzFails
          /\ warn' = warn + 1
          /\ UNCHANGED ultra
    /\ nth' = nth + 1
    /\ UNCHANGED <<vm, detailed, pc, fail, accelerated, osKnown, aligned, claimed>>

\* DATA_DISK_NAMES was declared and never assigned: set -u refuses its
\* length (line 283).
CountNoDisks ==
    /\ pc = "collect"
    /\ Disks = {}
    /\ Abort
    /\ AzAnswers

CheckUltraAttached ==
    /\ pc = "collect"
    /\ Disks # {} /\ nth \notin Disks
    /\ Score(Count(ultra = {}), 0)
    /\ Goto("ultra")
    /\ UNCHANGED <<vm, detailed, ultra, accelerated, osKnown, aligned, claimed,
                   azFailures>>

CheckUltraDisk ==
    /\ pc = "ultra"
    /\ nth \in Disks
    /\ IF nth \in ultra
       THEN LET d == vm.disks[nth] IN
            \/ /\ AzAnswers
               /\ Score(0, Count(~ d.iops) + Count(~ d.throughput) + Count(~ d.size))
            \/ AzFails /\ Score(0, 1)
       ELSE AzAnswers /\ Score(0, 0)
    /\ nth' = nth + 1
    /\ UNCHANGED <<vm, detailed, pc, ultra, accelerated, osKnown, aligned, claimed>>

CheckCaching ==
    /\ pc = "caching"
    /\ nth \in Disks
    /\ \/ /\ AzAnswers
          /\ LET d == vm.disks[nth] IN
             IF d.sku = "Ultra"
             THEN Score(Count(d.caching # "None"), 0)
             ELSE Score(0, Count(d.caching # "ReadOnly"))
       \/ AzFails /\ Score(0, 1)
    /\ nth' = nth + 1
    /\ UNCHANGED <<vm, detailed, pc, ultra, accelerated, osKnown, aligned, claimed>>

\* A loop over the data disks is over.
NextCheck(from, to) ==
    /\ pc = from
    /\ nth \notin Disks
    /\ Goto(to)
    /\ UNCHANGED <<vm, detailed, fail, warn, ultra, accelerated, osKnown,
                   aligned, claimed, azFailures>>

CheckOsDisk ==
    /\ pc = "os"
    /\ \/ /\ AzAnswers
          /\ osKnown' = TRUE
          /\ Score(Count(vm.os.sku = "Standard"), Count(vm.os.caching # "ReadWrite"))
       \/ /\ AzFails
          /\ osKnown' = FALSE
          /\ Score(0, 1)
    /\ Goto(IF vm.zone = NoZone THEN "count" ELSE "osZone")
    /\ UNCHANGED <<vm, detailed, ultra, accelerated, aligned, claimed>>

\* The zone of a disk that is not known is taken for no zone.
CheckOsZone ==
    /\ pc = "osZone"
    /\ LET zone == IF osKnown THEN vm.os.zone ELSE NoZone IN
          /\ Score(Count(zone \notin {NoZone, vm.zone}), Count(zone = NoZone))
          /\ aligned' = (zone = vm.zone)
    /\ Goto("zones")
    /\ UNCHANGED <<vm, detailed, ultra, accelerated, osKnown, claimed, azFailures>>

\* Mutant: a disk that cannot be read is skipped without a warning.
CheckKnownZone ==
    /\ pc = "zones"
    /\ nth \in Disks
    /\ LET zone == vm.disks[nth].zone IN
       \/ /\ AzAnswers
          /\ Score(Count(zone \notin {NoZone, vm.zone}), Count(zone = NoZone))
          /\ aligned' = (aligned /\ zone = vm.zone)
       \/ /\ AzFails
          /\ Score(0, 0)
          /\ UNCHANGED aligned
    /\ nth' = nth + 1
    /\ UNCHANGED <<vm, detailed, pc, ultra, accelerated, osKnown, claimed>>

CheckDiskZone ==
    /\ pc = "zones"
    /\ nth \in Disks
    /\ LET zone == vm.disks[nth].zone IN
       \/ /\ AzAnswers
          /\ Score(Count(zone \notin {NoZone, vm.zone}), Count(zone = NoZone))
          /\ aligned' = (aligned /\ zone = vm.zone)
       \/ /\ AzFails
          /\ Score(0, 1)
          /\ UNCHANGED aligned
    /\ nth' = nth + 1
    /\ UNCHANGED <<vm, detailed, pc, ultra, accelerated, osKnown, claimed>>

CheckZoneAlignment ==
    /\ pc = "zones"
    /\ nth \notin Disks
    /\ claimed' = (aligned /\ ~ detailed)
    /\ Goto("count")
    /\ UNCHANGED <<vm, detailed, fail, warn, ultra, accelerated, osKnown,
                   aligned, azFailures>>

-----------------------------------------------------------------------------
(* Section 3 and the summary.                                              *)

\* Mutant: units are counted from 1.
LunsFromOne == {vm.disks[k].lun : k \in Disks} = 1 .. Len(vm.disks)

\* The sorted units are 0, 1, 2, ...
LunsSequential == {vm.disks[k].lun : k \in Disks} = 0 .. Len(vm.disks) - 1

CheckLayout ==
    /\ pc = "count"
    /\ Score(0, Count(Len(vm.disks) < 2) + Count(~ LunsSequential))
    /\ Goto("summary")
    /\ UNCHANGED <<vm, detailed, ultra, accelerated, osKnown, aligned, claimed,
                   azFailures>>

VmEnded == pc \in {"summary", "aborted"} /\ UNCHANGED vmVars

VmNext ==
    \/ SetAccount
    \/ ShowMachine
    \/ CheckSizeAndZone
    \/ CheckNic
    \/ CheckAcceleratedNetworking
    \/ CollectDisk
    \/ CountNoDisks
    \/ CheckUltraAttached
    \/ CheckUltraDisk
    \/ NextCheck("ultra", "caching")
    \/ CheckCaching
    \/ NextCheck("caching", "os")
    \/ CheckOsDisk
    \/ CheckOsZone
    \/ CheckDiskZone
    \/ CheckZoneAlignment
    \/ CheckLayout
    \/ VmEnded

VmSpec == VmInit /\ [][VmNext]_vmVars

-----------------------------------------------------------------------------
(* Properties.                                                             *)

\* "All checks passed! VM configuration follows best practices."
AllPassed == pc = "summary" /\ fail = 0 /\ warn = 0

\* The best practices, as the script recommends them.
BestPractice ==
    /\ vm.sizeSupported
    /\ vm.zone # NoZone
    /\ \A k \in DOMAIN vm.nics : vm.nics[k]
    /\ \E k \in Disks : vm.disks[k].sku = "Ultra"
    /\ \A k \in Disks :
          LET d == vm.disks[k] IN
          /\ d.zone = vm.zone
          /\ IF d.sku = "Ultra"
             THEN d.iops /\ d.throughput /\ d.size /\ d.caching = "None"
             ELSE d.caching = "ReadOnly"
    /\ vm.os.sku \in {"Premium", "StandardSSD"}
    /\ vm.os.caching = "ReadWrite"
    /\ vm.os.zone = vm.zone
    /\ Len(vm.disks) >= 2
    /\ \A k \in Disks : vm.disks[k].lun < Len(vm.disks)
    /\ \A j, k \in Disks : vm.disks[j].lun = vm.disks[k].lun => j = k

\* The final message says that all checks passed only if the machine follows
\* every best practice and every call was answered: no failed call, wherever it
\* strikes, lets an unchecked disk or interface pass.
PassedIsChecked == AllPassed => BestPractice /\ azFailures = 0

\* A machine that follows the best practices is told so whenever the calls are
\* answered, with details or without.
GoodPasses == pc = "summary" /\ azFailures = 0 /\ BestPractice => AllPassed

\* Line 515: "All data disks are in the same zone as VM".
AlignedClaimHolds == claimed => \A k \in Disks : vm.disks[k].zone = vm.zone

-----------------------------------------------------------------------------
(* The inductive invariant that shows the two verdicts.                    *)

VmPlaces == {"account", "show", "size", "nics", "collect", "ultra", "caching", "os",
           "osZone", "zones", "count", "summary", "aborted"}

VmTypeOK ==
    /\ IsMachine(vm)
    /\ pc \in VmPlaces /\ nth \in Nat \ {0}
    /\ fail \in Nat /\ warn \in Nat /\ azFailures \in 0 .. MaxAzFailures
    /\ ultra \subseteq Disks
    /\ accelerated \in BOOLEAN /\ osKnown \in BOOLEAN

UltraDisks == {k \in Disks : vm.disks[k].sku = "Ultra"}

Performs(d) == d.iops /\ d.throughput /\ d.size
CachedWell(d) == d.caching = IF d.sku = "Ultra" THEN "None" ELSE "ReadOnly"

GoodOs == vm.os.sku # "Standard" /\ vm.os.caching = "ReadWrite"

\* The loop at a place has come past element k, or is over.
Past(place, later, k) == (pc = place /\ k < nth) \/ pc \in later

AfterCount == {"summary"}
AfterZones == AfterCount \union {"count"}
AfterOsZone == AfterZones \union {"zones"}
AfterOs == AfterOsZone \union {"osZone"}
AfterCaching == AfterOs \union {"os"}
AfterUltra == AfterCaching \union {"caching"}
AfterCollect == AfterUltra \union {"ultra"}
AfterNics == AfterCollect \union {"collect"}
AfterSize == AfterNics \union {"nics"}

\* A script that has neither failed nor warned had every call answered, and found
\* good what it has come past.
FoundInv ==
    fail = 0 /\ warn = 0 /\ pc # "aborted" =>
        /\ azFailures = 0
        /\ pc \in AfterSize => vm.sizeSupported /\ vm.zone # NoZone
        /\ accelerated => \A k \in DOMAIN vm.nics : Past("nics", AfterNics, k) => vm.nics[k]
        /\ ~ accelerated => pc = "nics" /\ nth \notin DOMAIN vm.nics
        /\ \A k \in Disks : k \in ultra <=> k \in UltraDisks /\ Past("collect", AfterCollect, k)
        /\ pc \in AfterCollect => ultra # {}
        /\ \A k \in UltraDisks : Past("ultra", AfterUltra, k) => Performs(vm.disks[k])
        /\ \A k \in Disks : Past("caching", AfterCaching, k) => CachedWell(vm.disks[k])
        /\ pc \in AfterOs => GoodOs /\ osKnown
        /\ pc \in AfterOsZone => vm.os.zone = vm.zone
        /\ \A k \in Disks : Past("zones", AfterZones, k) => vm.disks[k].zone = vm.zone
        /\ pc \in AfterCount => Len(vm.disks) >= 2 /\ LunsSequential

\* A good machine whose calls were all answered has neither failed nor warned.
AnsweredInv ==
    azFailures = 0 /\ BestPractice /\ pc # "aborted" =>
        /\ fail = 0 /\ warn = 0
        /\ accelerated
        /\ \A k \in Disks : k \in ultra <=> k \in UltraDisks /\ Past("collect", AfterCollect, k)
        /\ pc \in AfterOs => osKnown

VmInv == VmTypeOK /\ FoundInv /\ AnsweredInv
=============================================================================
