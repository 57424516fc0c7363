------------------------- MODULE SqlUltraDisksProofs -------------------------
(***************************************************************************)
(* Theorems about the programs of sql_ultra_disks.                         *)
(*                                                                         *)
(* The first part is about SqlWriteFix, for all hosts, any number of runs  *)
(* and of calls that fail, and any answers to the prompts: what a fix      *)
(* changes of a host and what the checks make of that, then how every step *)
(* keeps each part of IInv.                                                *)
(*                                                                         *)
(* The second part is about UltraDiskValidation, for all machines and any  *)
(* number of calls that fail: the two sides of its verdict, FoundInv and   *)
(* AnsweredInv.                                                            *)
(***************************************************************************)
EXTENDS SqlWriteFix, UltraDiskValidation, FiniteSetTheorems, FunctionTheorems,
        SequenceTheorems, TLAPS

-----------------------------------------------------------------------------
\* What no fix changes.
Rest(h, g) ==
    /\ g.files = h.files /\ g.disks = h.disks /\ g.cpus = h.cpus /\ g.ram = h.ram
    /\ g.target = h.target /\ g.services = h.services /\ g.ifi = h.ifi
    /\ g.vlf = h.vlf /\ g.highPerformance = h.highPerformance
    /\ g.pageFile = h.pageFile /\ g.defender = h.defender /\ g.exeFound = h.exeFound

\* The host with other settings: those the fixes change.
With(h, memory, granted, running, model, exclusions, volumes) ==
    [files |-> h.files, volumes |-> volumes, disks |-> h.disks, cpus |-> h.cpus,
     ram |-> h.ram, maxMem |-> memory, target |-> h.target, services |-> h.services,
     running |-> running, granted |-> granted, model |-> model, ifi |-> h.ifi,
     vlf |-> h.vlf, highPerformance |-> h.highPerformance, pageFile |-> h.pageFile,
     defender |-> h.defender, exclusions |-> exclusions, exeFound |-> h.exeFound]

LEMMA WithFields ==
    ASSUME NEW h, NEW memory, NEW granted, NEW running, NEW model, NEW exclusions,
           NEW volumes, NEW g,
           g = With(h, memory, granted, running, model, exclusions, volumes)
    PROVE  /\ Rest(h, g)
           /\ g.maxMem = memory /\ g.granted = granted /\ g.running = running
           /\ g.model = model /\ g.exclusions = exclusions /\ g.volumes = volumes
           /\ g = With(g, g.maxMem, g.granted, g.running, g.model, g.exclusions, g.volumes)
  BY DEF With, Rest

LEMMA HostIsWith ==
    ASSUME NEW h, IsHost(h)
    PROVE  h = With(h, h.maxMem, h.granted, h.running, h.model, h.exclusions, h.volumes)
  BY DEF IsHost, With

LEMMA WithIsHost ==
    ASSUME NEW h, IsHost(h), NEW memory \in Nat, NEW granted \in SUBSET Instances,
           NEW running \in SUBSET Instances, NEW model \in [Instances -> MemoryModels],
           \A s \in Instances : model[s] = "LOCK_PAGES" => s \in granted,
           NEW exclusions,
           NEW volumes \in [DOMAIN h.volumes ->
                               [unit : Nat, compressed : BOOLEAN, indexing : BOOLEAN]],
           NEW g, g = With(h, memory, granted, running, model, exclusions, volumes)
    PROVE  IsHost(g)
  <1>1. /\ Rest(h, g)
        /\ g.maxMem = memory /\ g.granted = granted /\ g.running = running
        /\ g.model = model /\ g.exclusions = exclusions /\ g.volumes = volumes
        /\ g = With(g, g.maxMem, g.granted, g.running, g.model, g.exclusions, g.volumes)
    BY WithFields
  <1>2. DOMAIN g.volumes = DOMAIN h.volumes
    BY <1>1
  <1>3. QED
    BY <1>1, <1>2 DEF IsHost, Rest, With

\* Each update of a host names what it sets; the rest stays.
LEMMA Updates ==
    ASSUME NEW h, IsHost(h), NEW x, NEW y
    PROVE  /\ [h EXCEPT !.maxMem = x]
                = With(h, x, h.granted, h.running, h.model, h.exclusions, h.volumes)
           /\ [h EXCEPT !.granted = x]
                = With(h, h.maxMem, x, h.running, h.model, h.exclusions, h.volumes)
           /\ [h EXCEPT !.running = x]
                = With(h, h.maxMem, h.granted, x, h.model, h.exclusions, h.volumes)
           /\ [h EXCEPT !.model = y, !.running = x]
                = With(h, h.maxMem, h.granted, x, y, h.exclusions, h.volumes)
           /\ [h EXCEPT !.exclusions = x]
                = With(h, h.maxMem, h.granted, h.running, h.model, x, h.volumes)
           /\ [h EXCEPT !.volumes = x]
                = With(h, h.maxMem, h.granted, h.running, h.model, h.exclusions, x)
  <1>1. h = With(h, h.maxMem, h.granted, h.running, h.model, h.exclusions, h.volumes)
    BY HostIsWith
  <1>2. [h EXCEPT !.maxMem = x]
          = With(h, x, h.granted, h.running, h.model, h.exclusions, h.volumes)
    BY <1>1 DEF With
  <1>3. [h EXCEPT !.granted = x]
          = With(h, h.maxMem, x, h.running, h.model, h.exclusions, h.volumes)
    BY <1>1 DEF With
  <1>4. [h EXCEPT !.running = x]
          = With(h, h.maxMem, h.granted, x, h.model, h.exclusions, h.volumes)
    BY <1>1 DEF With
  <1>5. [h EXCEPT !.model = y, !.running = x]
          = With(h, h.maxMem, h.granted, x, y, h.exclusions, h.volumes)
    <2> DEFINE hm == [h EXCEPT !.model = y]
    <2>1. hm = With(h, h.maxMem, h.granted, h.running, y, h.exclusions, h.volumes)
      BY <1>1 DEF With
    <2>2. [h EXCEPT !.model = y, !.running = x] = [hm EXCEPT !.running = x]
      OBVIOUS
    <2> HIDE DEF hm
    <2>3. [hm EXCEPT !.running = x]
            = With(h, h.maxMem, h.granted, x, y, h.exclusions, h.volumes)
      BY <2>1 DEF With
    <2>4. QED
      BY <2>2, <2>3
  <1>6. [h EXCEPT !.exclusions = x]
          = With(h, h.maxMem, h.granted, h.running, h.model, x, h.volumes)
    BY <1>1 DEF With
  <1>7. [h EXCEPT !.volumes = x]
          = With(h, h.maxMem, h.granted, h.running, h.model, h.exclusions, x)
    BY <1>1 DEF With
  <1>8. QED
    BY <1>2, <1>3, <1>4, <1>5, <1>6, <1>7

\* What the fixes change of a host, one setting at a time.
Settings(h, g, memory, granted, running, model, exclusions, volumes) ==
    /\ IsHost(g) /\ Rest(h, g)
    /\ g.maxMem = memory /\ g.granted = granted /\ g.running = running
    /\ g.model = model /\ g.exclusions = exclusions /\ g.volumes = volumes

LEMMA WithSettings ==
    ASSUME NEW h, IsHost(h), NEW memory \in Nat, NEW granted \in SUBSET Instances,
           NEW running \in SUBSET Instances, NEW model \in [Instances -> MemoryModels],
           \A s \in Instances : model[s] = "LOCK_PAGES" => s \in granted,
           NEW exclusions,
           NEW volumes \in [DOMAIN h.volumes ->
                               [unit : Nat, compressed : BOOLEAN, indexing : BOOLEAN]],
           NEW g, g = With(h, memory, granted, running, model, exclusions, volumes)
    PROVE  Settings(h, g, memory, granted, running, model, exclusions, volumes)
  <1>1. IsHost(g)
    BY WithIsHost
  <1>2. QED
    BY <1>1, WithFields DEF Settings

LEMMA HostTypes ==
    ASSUME NEW h, IsHost(h)
    PROVE  /\ h.maxMem \in Nat /\ h.ram \in Nat /\ h.target \in Instances
           /\ h.granted \in SUBSET Instances /\ h.running \in SUBSET Instances
           /\ h.model \in [Instances -> MemoryModels]
           /\ \A s \in Instances : h.model[s] = "LOCK_PAGES" => s \in h.granted
           /\ h.volumes \in [DOMAIN h.volumes ->
                               [unit : Nat, compressed : BOOLEAN, indexing : BOOLEAN]]
           /\ SqlService(h) \in Instances
  <1>1. h.services \in Seq(Instances) /\ h.services # <<>>
    BY DEF IsHost
  <1>2. SqlService(h) \in Instances
    <2>1. Len(h.services) >= 1
      BY <1>1
    <2>2. QED
      BY <1>1, <2>1 DEF SqlService
  <1>3. QED
    BY <1>2 DEF IsHost

LEMMA MemorySet ==
    ASSUME NEW h, IsHost(h), NEW memory \in Nat, NEW g, g = [h EXCEPT !.maxMem = memory]
    PROVE  Settings(h, g, memory, h.granted, h.running, h.model, h.exclusions, h.volumes)
  <1>1. g = With(h, memory, h.granted, h.running, h.model, h.exclusions, h.volumes)
    BY Updates
  <1>2. QED
    BY <1>1, HostTypes, WithSettings

LEMMA PrivilegeGranted ==
    ASSUME NEW h, IsHost(h), NEW s \in Instances,
           NEW g, g = [h EXCEPT !.granted = @ \union {s}]
    PROVE  Settings(h, g, h.maxMem, h.granted \union {s}, h.running, h.model,
                    h.exclusions, h.volumes)
  <1>1. g = With(h, h.maxMem, h.granted \union {s}, h.running, h.model, h.exclusions,
                 h.volumes)
    BY Updates
  <1>2. h.granted \union {s} \in SUBSET Instances
    BY HostTypes
  <1>3. \A i \in Instances : h.model[i] = "LOCK_PAGES" => i \in h.granted \union {s}
    BY HostTypes
  <1>4. QED
    BY <1>1, <1>2, <1>3, HostTypes, WithSettings

LEMMA RunningSet ==
    ASSUME NEW h, IsHost(h), NEW running \in SUBSET Instances,
           NEW g, g = [h EXCEPT !.running = running]
    PROVE  Settings(h, g, h.maxMem, h.granted, running, h.model, h.exclusions, h.volumes)
  <1>1. g = With(h, h.maxMem, h.granted, running, h.model, h.exclusions, h.volumes)
    BY Updates
  <1>2. QED
    BY <1>1, HostTypes, WithSettings

LEMMA Restarted ==
    ASSUME NEW h, IsHost(h), NEW s \in Instances,
           NEW g, g = [h EXCEPT !.model[s] = MemoryModel(h, s), !.running = @ \union {s}]
    PROVE  Settings(h, g, h.maxMem, h.granted, h.running \union {s},
                    [h.model EXCEPT ![s] = MemoryModel(h, s)], h.exclusions, h.volumes)
  <1> DEFINE model == [h.model EXCEPT ![s] = MemoryModel(h, s)]
             running == h.running \union {s}
  <1>1. g = [h EXCEPT !.model = model, !.running = running]
    OBVIOUS
  <1>2. MemoryModel(h, s) \in MemoryModels
        /\ (MemoryModel(h, s) = "LOCK_PAGES" => s \in h.granted)
    BY DEF MemoryModel, MemoryModels
  <1>3. model \in [Instances -> MemoryModels]
    BY <1>2, HostTypes
  <1>4. \A i \in Instances : model[i] = "LOCK_PAGES" => i \in h.granted
    BY <1>2, HostTypes
  <1>5. running \in SUBSET Instances
    BY HostTypes
  <1> HIDE DEF model, running
  <1>6. g = With(h, h.maxMem, h.granted, running, model, h.exclusions, h.volumes)
    BY <1>1, Updates, ZenonT(60)
  <1>7. Settings(h, g, h.maxMem, h.granted, running, model, h.exclusions, h.volumes)
    BY <1>3, <1>4, <1>5, <1>6, HostTypes, WithSettings
  <1>8. QED
    BY <1>7 DEF model, running

LEMMA ExclusionsSet ==
    ASSUME NEW h, IsHost(h), NEW exclusions, NEW g, g = [h EXCEPT !.exclusions = exclusions]
    PROVE  Settings(h, g, h.maxMem, h.granted, h.running, h.model, exclusions, h.volumes)
  <1>1. g = With(h, h.maxMem, h.granted, h.running, h.model, exclusions, h.volumes)
    BY Updates
  <1>2. QED
    BY <1>1, HostTypes, WithSettings

NotIndexed(volumes, v) == [volumes EXCEPT ![v] = [@ EXCEPT !.indexing = FALSE]]

LEMMA IndexingOff ==
    ASSUME NEW h, IsHost(h), NEW v \in DOMAIN h.volumes,
           NEW g, g = [h EXCEPT !.volumes[v].indexing = FALSE]
    PROVE  Settings(h, g, h.maxMem, h.granted, h.running, h.model, h.exclusions,
                    NotIndexed(h.volumes, v))
  <1> DEFINE volumes == NotIndexed(h.volumes, v)
  <1>1. g = [h EXCEPT !.volumes = volumes]
    BY DEF NotIndexed
  <1>2. volumes \in [DOMAIN h.volumes ->
                        [unit : Nat, compressed : BOOLEAN, indexing : BOOLEAN]]
    <2> DEFINE off == [h.volumes[v] EXCEPT !.indexing = FALSE]
               Volume == [unit : Nat, compressed : BOOLEAN, indexing : BOOLEAN]
    <2>1. h.volumes \in [DOMAIN h.volumes -> Volume] /\ h.volumes[v] \in Volume
      BY HostTypes
    <2>2. off \in Volume
      BY <2>1
    <2>3. volumes = [h.volumes EXCEPT ![v] = off]
      BY DEF NotIndexed
    <2> HIDE DEF off, Volume, volumes
    <2>4. QED
      BY <2>1, <2>2, <2>3 DEF Volume
  <1> HIDE DEF volumes
  <1>3. g = With(h, h.maxMem, h.granted, h.running, h.model, h.exclusions, volumes)
    BY <1>1, Updates
  <1>4. Settings(h, g, h.maxMem, h.granted, h.running, h.model, h.exclusions, volumes)
    BY <1>2, <1>3, HostTypes, WithSettings
  <1>5. QED
    BY <1>4 DEF volumes

\* What the settings of two hosts are when no check of the second one is worse, its
\* maximum memory left aside.
Kept(h, g) ==
    /\ Rest(h, g)
    /\ DOMAIN g.volumes = DOMAIN h.volumes
    /\ \A v \in DOMAIN h.volumes :
          /\ g.volumes[v].unit = h.volumes[v].unit
          /\ g.volumes[v].compressed = h.volumes[v].compressed
          /\ g.volumes[v].indexing => h.volumes[v].indexing
    /\ h.model[h.target] = "LOCK_PAGES" => g.model[g.target] = "LOCK_PAGES"
    /\ h.exclusions \subseteq g.exclusions

LEMMA KeptWithVolumes ==
    ASSUME NEW h, NEW g, NEW memory, NEW granted, NEW running, NEW model, NEW exclusions,
           Settings(h, g, memory, granted, running, model, exclusions, h.volumes),
           h.model[h.target] = "LOCK_PAGES" => model[h.target] = "LOCK_PAGES",
           h.exclusions \subseteq exclusions
    PROVE  Kept(h, g)
  BY DEF Settings, Kept, Rest

LEMMA IndexingKeeps ==
    ASSUME NEW h, IsHost(h), NEW v \in DOMAIN h.volumes, NEW g,
           Settings(h, g, h.maxMem, h.granted, h.running, h.model, h.exclusions,
                    NotIndexed(h.volumes, v))
    PROVE  Kept(h, g)
  <1> DEFINE volumes == NotIndexed(h.volumes, v)
  <1>1. /\ DOMAIN volumes = DOMAIN h.volumes
        /\ \A w \in DOMAIN h.volumes :
              /\ volumes[w].unit = h.volumes[w].unit
              /\ volumes[w].compressed = h.volumes[w].compressed
              /\ volumes[w].indexing => h.volumes[w].indexing
    BY HostTypes DEF NotIndexed
  <1>2. g.volumes = volumes
    BY DEF Settings
  <1> HIDE DEF volumes
  <1>3. QED
    BY <1>1, <1>2 DEF Settings, Kept, Rest

LEMMA Unchanged ==
    ASSUME NEW h, NEW g, g = h
    PROVE  Kept(h, g)
  BY DEF Kept, Rest

\* The files are where they were, and so are the volumes.
LEMMA KeptPlaces ==
    ASSUME NEW h, NEW g, Kept(h, g)
    PROVE  /\ SqlFolders(g) = SqlFolders(h) /\ SqlVolumes(g) = SqlVolumes(h)
           /\ SqlService(g) = SqlService(h) /\ g.target = h.target /\ g.ram = h.ram
           /\ g.services = h.services /\ g.defender = h.defender
  BY DEF Kept, Rest, SqlFolders, SqlVolumes, SqlService

\* What a step does to the host.
HostStep ==
    /\ IsHost(host') /\ Kept(host, host')
    /\ \/ host'.maxMem = host.maxMem
       \/ ~ At("end") /\ host'.maxMem = fix.want
       \/ ~ At("end") /\ pending # 0 /\ host'.maxMem = pending

\* What a step does to the memory that is pending.
PendingStep ==
    /\ pending' \in Nat
    /\ pending' = pending \/ pending' = 0 \/ (~ At("end") /\ pending' = fix.want)

LEMMA TypeParts ==
    ASSUME TypeOK
    PROVE  /\ IsHost(host) /\ pending \in Nat
           /\ fix.at \in Places /\ fix.whatIf \in BOOLEAN /\ fix.want \in Int
           /\ fix.todo \subseteq SqlFolders(host) \union SqlVolumes(host)
           /\ fix = [at |-> fix.at, whatIf |-> fix.whatIf, want |-> fix.want,
                     todo |-> fix.todo]
           /\ failures \in Nat /\ runs \in Nat /\ failures <= MaxFailures /\ runs <= MaxRuns
           /\ clean \in BOOLEAN /\ settled \in BOOLEAN
  <1>1. MaxFailures \in Nat /\ MaxRuns \in Nat
    BY FixAssumption DEF FixAssumption
  <1>2. QED
    BY <1>1 DEF TypeOK

LEMMA SetMemoryStep ==
    ASSUME TypeOK, At("memory"), Allowed, SetMemory
    PROVE  /\ HostStep /\ PendingStep
           /\ host'.maxMem = fix.want /\ host'.running = host.running
  <1>1. IsHost(host) /\ fix.want \in Nat
    BY TypeParts DEF Allowed
  <1>2. Settings(host, host', fix.want, host.granted, host.running, host.model,
                 host.exclusions, host.volumes)
    BY <1>1, MemorySet DEF SetMemory
  <1>3. Kept(host, host')
    BY <1>2, KeptWithVolumes
  <1>4. ~ At("end")
    BY DEF At
  <1>5. HostStep
    BY <1>2, <1>3, <1>4 DEF HostStep, Settings
  <1>6. QED
    BY <1>2, <1>5 DEF PendingStep, SetMemory, Settings

\* What is pending can be put in use at any time.
LEMMA InUseIsHost ==
    ASSUME TypeOK
    PROVE  /\ IsHost(InUse)
           /\ Settings(host, InUse, IF pending = 0 THEN host.maxMem ELSE pending,
                       host.granted, host.running, host.model, host.exclusions,
                       host.volumes)
  <1>1. IsHost(host) /\ pending \in Nat
    BY TypeParts
  <1>2. CASE pending = 0
    BY <1>1, <1>2, HostTypes DEF InUse, Settings, Rest
  <1>3. CASE pending # 0
    <2>1. InUse = [host EXCEPT !.maxMem = pending]
      BY <1>3 DEF InUse
    <2>2. Settings(host, InUse, pending, host.granted, host.running, host.model,
                   host.exclusions, host.volumes)
      BY <1>1, <2>1, MemorySet
    <2>3. QED
      BY <1>3, <2>2 DEF Settings
  <1>4. QED
    BY <1>2, <1>3

LEMMA InUseStep ==
    ASSUME TypeOK, ~ At("end"), host' = InUse
    PROVE  HostStep /\ host'.running = host.running
  <1>1. Settings(host, host', IF pending = 0 THEN host.maxMem ELSE pending,
                 host.granted, host.running, host.model, host.exclusions, host.volumes)
    BY InUseIsHost
  <1>2. Kept(host, host')
    BY <1>1, KeptWithVolumes
  <1>3. QED
    BY <1>1, <1>2 DEF HostStep, Settings

LEMMA SetPartStep ==
    ASSUME TypeOK, At("memory"), SetPart
    PROVE  HostStep /\ PendingStep
  <1>1. ~ At("end") /\ pending \in Nat /\ fix.want \in Int
    BY TypeParts DEF At
  <1>2. CASE UNCHANGED <<host, pending>>
    BY <1>1, <1>2, TypeParts, Unchanged DEF HostStep, PendingStep
  <1>3. CASE host' = InUse /\ pending' = 0
    BY <1>1, <1>3, InUseStep DEF PendingStep
  <1>4. CASE Allowed /\ host' = InUse /\ pending' = fix.want
    BY <1>1, <1>4, InUseStep DEF PendingStep, Allowed
  <1>5. CASE Allowed /\ SetMemory
    BY <1>5, SetMemoryStep
  <1>6. QED
    BY <1>2, <1>3, <1>4, <1>5 DEF SetPart

LEMMA GrantStep ==
    ASSUME TypeOK, host' = [host EXCEPT !.granted = @ \union {SqlService(host)}]
    PROVE  HostStep /\ Settings(host, host', host.maxMem,
                                host.granted \union {SqlService(host)}, host.running,
                                host.model, host.exclusions, host.volumes)
  <1> DEFINE s == SqlService(host)
  <1>1. IsHost(host)
    BY TypeParts
  <1>2. s \in Instances
    BY <1>1, HostTypes
  <1> HIDE DEF s
  <1>3. host' = [host EXCEPT !.granted = @ \union {s}]
    BY DEF s
  <1>4. Settings(host, host', host.maxMem, host.granted \union {s}, host.running,
                 host.model, host.exclusions, host.volumes)
    BY <1>1, <1>2, <1>3, PrivilegeGranted
  <1>5. Kept(host, host')
    BY <1>4, KeptWithVolumes
  <1>6. HostStep
    BY <1>4, <1>5 DEF HostStep, Settings
  <1>7. QED
    BY <1>4, <1>6 DEF s

LEMMA RestartStep ==
    ASSUME TypeOK, ~ At("end"), NEW s, s = SqlService(host), NEW h,
           h = (IF s = host.target THEN InUse ELSE host),
           host' = [h EXCEPT !.model[s] = MemoryModel(h, s), !.running = @ \union {s}]
    PROVE  HostStep /\ Settings(host, host', h.maxMem, host.granted,
                                host.running \union {s},
                                [host.model EXCEPT ![s] = MemoryModel(host, s)],
                                host.exclusions, host.volumes)
  <1> DEFINE model == [host.model EXCEPT ![s] = MemoryModel(host, s)]
  <1>1. IsHost(host) /\ IsHost(h)
    BY TypeParts, InUseIsHost
  <1>2. s \in Instances
    BY <1>1, HostTypes
  <1>3. /\ Settings(host, h, h.maxMem, host.granted, host.running, host.model,
                    host.exclusions, host.volumes)
        /\ h.maxMem = host.maxMem \/ (pending # 0 /\ h.maxMem = pending)
    <2>1. CASE h = host
      BY <1>1, <2>1, HostTypes DEF Settings, Rest
    <2>2. CASE h = InUse
      BY <2>2, InUseIsHost DEF Settings
    <2>3. QED
      BY <2>1, <2>2
  <1>4. Settings(h, host', h.maxMem, h.granted, h.running \union {s},
                 [h.model EXCEPT ![s] = MemoryModel(h, s)], h.exclusions, h.volumes)
    BY <1>1, <1>2, Restarted
  <1>5. /\ h.granted = host.granted /\ h.running = host.running /\ h.model = host.model
        /\ h.exclusions = host.exclusions /\ h.volumes = host.volumes
    BY <1>3 DEF Settings
  <1>6. MemoryModel(h, s) = MemoryModel(host, s)
    BY <1>5 DEF MemoryModel
  <1>7. Settings(host, host', h.maxMem, host.granted, host.running \union {s},
                 model, host.exclusions, host.volumes)
    BY <1>3, <1>4, <1>5, <1>6 DEF Settings, Rest
  <1>8. host.model[host.target] = "LOCK_PAGES" => model[host.target] = "LOCK_PAGES"
    BY <1>1, <1>2, HostTypes DEF MemoryModel
  <1> HIDE DEF model
  <1>9. Kept(host, host')
    BY <1>7, <1>8, KeptWithVolumes
  <1>10. HostStep
    BY <1>3, <1>7, <1>9 DEF HostStep, Settings
  <1>11. QED
    BY <1>7, <1>10 DEF model

LEMMA StopStep ==
    ASSUME TypeOK, NEW s, host' = [host EXCEPT !.running = @ \ {s}]
    PROVE  HostStep
  <1>1. IsHost(host)
    BY TypeParts
  <1>2. Settings(host, host', host.maxMem, host.granted, host.running \ {s},
                 host.model, host.exclusions, host.volumes)
    <2> DEFINE running == host.running \ {s}
    <2>1. running \in SUBSET Instances /\ host' = [host EXCEPT !.running = running]
      BY <1>1, HostTypes
    <2> HIDE DEF running
    <2>2. Settings(host, host', host.maxMem, host.granted, running,
                   host.model, host.exclusions, host.volumes)
      BY <1>1, <2>1, RunningSet
    <2>3. QED
      BY <2>2 DEF running
  <1>3. Kept(host, host')
    BY <1>2, KeptWithVolumes
  <1>4. QED
    BY <1>2, <1>3 DEF HostStep, Settings

LEMMA ExcludeStep ==
    ASSUME TypeOK, NEW path, host' = [host EXCEPT !.exclusions = @ \union {path}]
    PROVE  HostStep /\ Settings(host, host', host.maxMem, host.granted, host.running,
                                host.model, host.exclusions \union {path}, host.volumes)
  <1> DEFINE exclusions == host.exclusions \union {path}
  <1>1. IsHost(host)
    BY TypeParts
  <1>2. host.exclusions \subseteq exclusions /\ host' = [host EXCEPT !.exclusions = exclusions]
    OBVIOUS
  <1> HIDE DEF exclusions
  <1>3. Settings(host, host', host.maxMem, host.granted, host.running, host.model,
                 exclusions, host.volumes)
    BY <1>1, <1>2, ExclusionsSet
  <1>4. Kept(host, host')
    BY <1>2, <1>3, KeptWithVolumes
  <1>5. HostStep
    BY <1>3, <1>4 DEF HostStep, Settings
  <1>6. QED
    BY <1>3, <1>5 DEF exclusions

LEMMA IndexStep ==
    ASSUME TypeOK, NEW v \in SqlVolumes(host),
           host' = [host EXCEPT !.volumes[v].indexing = FALSE]
    PROVE  HostStep /\ Settings(host, host', host.maxMem, host.granted, host.running,
                                host.model, host.exclusions, NotIndexed(host.volumes, v))
  <1>1. IsHost(host) /\ v \in DOMAIN host.volumes
    BY TypeParts DEF SqlVolumes
  <1>2. Settings(host, host', host.maxMem, host.granted, host.running, host.model,
                 host.exclusions, NotIndexed(host.volumes, v))
    BY <1>1, IndexingOff
  <1>3. Kept(host, host')
    BY <1>1, <1>2, IndexingKeeps
  <1>4. QED
    BY <1>2, <1>3 DEF HostStep, Settings

LEMMA StillStep ==
    ASSUME TypeOK, UNCHANGED host
    PROVE  HostStep
  BY TypeParts, Unchanged DEF HostStep

\* Whatever the step, it does no more than that to the host.
LEMMA StepOfHost ==
    ASSUME TypeOK, [Next]_vars
    PROVE  HostStep
  <1>1. CASE UNCHANGED host
    BY <1>1, StillStep
  <1>2. CASE FixMemory
    <2>1. At("memory") /\ ~ At("end")
      BY <1>2 DEF FixMemory, At
    <2>2. UNCHANGED host \/ (Allowed /\ SetMemory) \/ host' = InUse \/ SetPart
      BY <1>2 DEF FixMemory
    <2>3. QED
      BY <2>1, <2>2, StillStep, SetMemoryStep, InUseStep, SetPartStep
  <1>3. CASE FixUnreadMemory
    <2>1. At("memory") /\ (UNCHANGED host \/ SetPart)
      BY <1>3 DEF FixUnreadMemory
    <2>2. QED
      BY <2>1, StillStep, SetPartStep
  <1>4. CASE GrantLockPages
    <2>1. UNCHANGED host
          \/ host' = [host EXCEPT !.granted = @ \union {SqlService(host)}]
      BY <1>4 DEF GrantLockPages
    <2>2. QED
      BY <2>1, StillStep, GrantStep
  <1>5. CASE RestartService
    <2> DEFINE s == SqlService(host)
               h == IF s = host.target THEN InUse ELSE host
    <2>1. /\ ~ At("end")
          /\ \/ UNCHANGED host
             \/ host' = [h EXCEPT !.model[s] = MemoryModel(h, s), !.running = @ \union {s}]
             \/ host' = [host EXCEPT !.running = @ \ {s}]
      BY <1>5 DEF RestartService, At
    <2>2. QED
      BY <2>1, StillStep, RestartStep, StopStep
  <1>6. CASE AddExclusion \/ ExcludeExe
    <2>1. UNCHANGED host
          \/ \E path : host' = [host EXCEPT !.exclusions = @ \union {path}]
      BY <1>6 DEF AddExclusion, ExcludeExe
    <2>2. QED
      BY <2>1, StillStep, ExcludeStep
  <1>7. CASE DisableIndexing
    <2>1. fix.todo \subseteq SqlVolumes(host)
      BY <1>7 DEF TypeOK, DisableIndexing
    <2>2. UNCHANGED host
          \/ \E v \in fix.todo : host' = [host EXCEPT !.volumes[v].indexing = FALSE]
      BY <1>7 DEF DisableIndexing
    <2>3. QED
      BY <2>1, <2>2, StillStep, IndexStep
  <1>8. ASSUME NEW whatIf \in BOOLEAN, NEW arg \in MemoryArgs, Start(whatIf, arg)
        PROVE  UNCHANGED host
    BY <1>8 DEF Start
  <1>9. QED
    BY <1>1, <1>2, <1>3, <1>4, <1>5, <1>6, <1>7, <1>8
       DEF Next, vars, CheckLockPages, ReadExclusions, ReadVolumes, Summary, Ended

LEMMA StepOfPending ==
    ASSUME TypeOK, [Next]_vars
    PROVE  PendingStep
  <1>1. pending \in Nat
    BY TypeParts
  <1>2. CASE UNCHANGED pending
    BY <1>1, <1>2 DEF PendingStep
  <1>3. CASE FixMemory
    <2>1. /\ At("memory")
          /\ UNCHANGED pending \/ pending' = 0 \/ (Allowed /\ SetMemory) \/ SetPart
      BY <1>3 DEF FixMemory
    <2>2. QED
      BY <1>2, <2>1, SetMemoryStep, SetPartStep DEF PendingStep
  <1>4. CASE FixUnreadMemory
    <2>1. At("memory") /\ (UNCHANGED pending \/ SetPart)
      BY <1>4 DEF FixUnreadMemory
    <2>2. QED
      BY <1>2, <2>1, SetPartStep
  <1>5. CASE RestartService
    <2>1. UNCHANGED pending \/ pending' = 0
      BY <1>5 DEF RestartService
    <2>2. QED
      BY <1>2, <2>1 DEF PendingStep
  <1>6. QED
    BY <1>2, <1>3, <1>4, <1>5
       DEF Next, vars, Start, CheckLockPages, GrantLockPages, ReadExclusions,
           AddExclusion, ExcludeExe, ReadVolumes, DisableIndexing, Summary, Ended, Same

-----------------------------------------------------------------------------
(* Types.                                                                  *)

Fixes == [at : Places, whatIf : BOOLEAN, want : Int,
          todo : SUBSET (SqlFolders(host) \union SqlVolumes(host))]

LEMMA GoToType ==
    ASSUME TypeOK, NEW place \in Places, GoTo(place)
    PROVE  /\ fix' \in Fixes /\ fix'.at = place /\ fix'.todo = fix.todo
           /\ fix'.want = fix.want /\ fix'.whatIf = fix.whatIf
  BY TypeParts DEF GoTo, Fixes

LEMMA TodoType ==
    ASSUME TypeOK, NEW place \in Places,
           NEW todo \in SUBSET (SqlFolders(host) \union SqlVolumes(host)),
           fix' = [fix EXCEPT !.at = place, !.todo = todo]
    PROVE  /\ fix' \in Fixes /\ fix'.at = place /\ fix'.todo = todo
           /\ fix'.want = fix.want /\ fix'.whatIf = fix.whatIf
  BY TypeParts DEF Fixes

LEMMA TodoOnly ==
    ASSUME TypeOK, NEW todo \in SUBSET (SqlFolders(host) \union SqlVolumes(host)),
           fix' = [fix EXCEPT !.todo = todo]
    PROVE  /\ fix' \in Fixes /\ fix'.at = fix.at /\ fix'.todo = todo
           /\ fix'.want = fix.want /\ fix'.whatIf = fix.whatIf
  BY TypeParts DEF Fixes

LEMMA PlaceOnly ==
    ASSUME TypeOK, NEW place \in Places, fix' = [fix EXCEPT !.at = place]
    PROVE  /\ fix' \in Fixes /\ fix'.at = place /\ fix'.todo = fix.todo
           /\ fix'.want = fix.want /\ fix'.whatIf = fix.whatIf
  BY TypeParts DEF Fixes

LEMMA NotRunningType == NotRunning \in Fixes
  BY DEF NotRunning, Fixes, Places

\* The ways a step counts what became of it.
LEMMA CountType ==
    ASSUME TypeOK, Smooth \/ Failing \/ Skipped
    PROVE  failures' \in 0 .. MaxFailures /\ clean' \in BOOLEAN /\ settled' \in BOOLEAN
  <1>1. MaxFailures \in Nat
    BY FixAssumption DEF FixAssumption
  <1>2. CASE Smooth
    BY <1>2 DEF Smooth, TypeOK
  <1>3. CASE Failing
    <2>1. failures' \in 0 .. MaxFailures
      BY <1>1, <1>3, TypeParts DEF Failing
    <2>2. QED
      BY <1>3, <2>1 DEF Failing
  <1>4. CASE Skipped
    BY <1>4 DEF Skipped, TypeOK
  <1>5. QED
    BY <1>2, <1>3, <1>4

LEMMA TypeStep ==
    ASSUME TypeOK, HostStep, PendingStep, fix' \in Fixes,
           fix'.at = "disable" => fix'.todo \subseteq SqlVolumes(host),
           Smooth \/ Failing \/ Skipped, UNCHANGED <<runs, before>>
    PROVE  TypeOK'
  <1>1. IsHost(host') /\ Kept(host, host')
    BY DEF HostStep
  <1>2. SqlFolders(host)' = SqlFolders(host) /\ SqlVolumes(host)' = SqlVolumes(host)
    BY <1>1, KeptPlaces
  <1>3. /\ fix' \in [at : Places, whatIf : BOOLEAN, want : Int,
                     todo : SUBSET (SqlFolders(host) \union SqlVolumes(host))']
        /\ fix'.at = "disable" => fix'.todo \subseteq SqlVolumes(host)'
    BY <1>2 DEF Fixes
  <1>4. runs' \in 0 .. MaxRuns /\ pending' \in Nat
    BY DEF TypeOK, PendingStep
  <1>5. QED
    BY <1>1, <1>3, <1>4, CountType DEF TypeOK, At

LEMMA HostsAreTyped ==
    ASSUME NEW h \in Hosts
    PROVE  IsHost(h) /\ h.target \in h.running
  BY HostAssumption DEF HostAssumption

LEMMA TypeInit == Init => TypeOK
  <1> SUFFICES ASSUME Init PROVE TypeOK
    OBVIOUS
  <1>1. MaxFailures \in Nat /\ MaxRuns \in Nat
    BY FixAssumption DEF FixAssumption
  <1>2. IsHost(host)
    BY HostsAreTyped DEF Init
  <1>3. fix \in Fixes /\ fix.at = "end"
    BY NotRunningType DEF Init, NotRunning
  <1>4. failures \in 0 .. MaxFailures /\ runs \in 0 .. MaxRuns
    BY <1>1 DEF Init
  <1>5. pending \in Nat /\ clean \in BOOLEAN /\ settled \in BOOLEAN
    BY DEF Init
  <1>6. QED
    BY <1>2, <1>3, <1>4, <1>5 DEF TypeOK, Fixes, At

LEMMA RecommendedType ==
    ASSUME NEW ram \in Nat
    PROVE  Recommended(ram) \in Int
  BY DEF Recommended, Larger, CeilDiv

LEMMA StartType ==
    ASSUME TypeOK, NEW whatIf \in BOOLEAN, NEW arg \in MemoryArgs, Start(whatIf, arg)
    PROVE  TypeOK'
  <1>1. /\ MaxRuns \in Nat /\ arg \in Int
    BY FixAssumption DEF FixAssumption
  <1>2. Recommended(host.ram) \in Int
    BY TypeParts, HostTypes, RecommendedType
  <1> DEFINE want == IF arg = 0 THEN Recommended(host.ram) ELSE arg
  <1>3. want \in Int
    BY <1>1, <1>2
  <1>4. fix' = [at |-> "memory", whatIf |-> whatIf, todo |-> {}, want |-> want]
    BY DEF Start
  <1> HIDE DEF want
  <1>5. fix' \in Fixes /\ fix'.at = "memory"
    BY <1>3, <1>4 DEF Fixes, Places
  <1>6. runs' \in 0 .. MaxRuns
    BY <1>1, TypeParts DEF Start
  <1>7. clean' \in BOOLEAN /\ settled' \in BOOLEAN
    <2>1. /\ clean' = (~ whatIf /\ arg = 0 /\ pending = 0)
          /\ settled' = (settled /\ arg = 0)
      BY DEF Start
    <2>2. QED
      BY <2>1
  <1>8. UNCHANGED <<host, pending, failures>>
    BY DEF Start
  <1>9. QED
    BY <1>5, <1>6, <1>7, <1>8 DEF TypeOK, Fixes, At

LEMMA SummaryType ==
    ASSUME TypeOK, Summary
    PROVE  TypeOK'
  <1>1. UNCHANGED <<host, pending, failures, runs>>
    BY DEF Summary, Same
  <1>2. fix' \in Fixes /\ fix'.at = "end"
    BY NotRunningType DEF Summary, NotRunning
  <1>3. clean' \in BOOLEAN /\ settled' \in BOOLEAN
    BY TypeParts DEF Summary
  <1>4. QED
    BY <1>1, <1>2, <1>3 DEF TypeOK, Fixes, At

LEMMA AnswerCounts ==
    /\ Answered => Smooth
    /\ Unanswered => Failing \/ Skipped
  BY DEF Answered, Unanswered

LEMMA TypeNext == TypeOK /\ [Next]_vars => TypeOK'
  <1> SUFFICES ASSUME TypeOK, [Next]_vars PROVE TypeOK'
    OBVIOUS
  <1>1. HostStep /\ PendingStep
    BY StepOfHost, StepOfPending
  <1>2. fix.todo \in SUBSET (SqlFolders(host) \union SqlVolumes(host))
    BY TypeParts
  <1>3. CASE UNCHANGED vars
    BY <1>3 DEF vars, TypeOK, At
  <1>4. ASSUME NEW whatIf \in BOOLEAN, NEW arg \in MemoryArgs, Start(whatIf, arg)
        PROVE  TypeOK'
    BY <1>4, StartType
  <1>5. CASE FixMemory
    <2>1. GoTo("lock pages") /\ (Smooth \/ Failing \/ Skipped) /\ UNCHANGED <<runs, before>>
      BY <1>5 DEF FixMemory
    <2>2. "lock pages" \in Places
      BY DEF Places
    <2>3. QED
      BY <1>1, <2>1, <2>2, GoToType, TypeStep
  <1>6. CASE FixUnreadMemory
    <2>1. GoTo("lock pages") /\ Failing /\ UNCHANGED <<runs, before>>
      BY <1>6 DEF FixUnreadMemory
    <2>2. "lock pages" \in Places
      BY DEF Places
    <2>3. QED
      BY <1>1, <2>1, <2>2, GoToType, TypeStep
  <1>7. CASE CheckLockPages
    <2>1. /\ GoTo("defender") \/ GoTo("grant")
          /\ Smooth \/ Failing \/ Skipped
          /\ Same
      BY <1>7, AnswerCounts DEF CheckLockPages
    <2>2. "defender" \in Places /\ "grant" \in Places
      BY DEF Places
    <2>3. QED
      BY <1>1, <2>1, <2>2, GoToType, TypeStep DEF Same
  <1>8. CASE GrantLockPages
    <2>1. /\ GoTo("restart") \/ GoTo("defender")
          /\ Smooth \/ Failing \/ Skipped
          /\ Same
      BY <1>8 DEF GrantLockPages
    <2>2. "defender" \in Places /\ "restart" \in Places
      BY DEF Places
    <2>3. QED
      BY <1>1, <2>1, <2>2, GoToType, TypeStep DEF Same
  <1>9. CASE RestartService
    <2>1. GoTo("defender") /\ (Smooth \/ Failing \/ Skipped) /\ UNCHANGED <<runs, before>>
      BY <1>9 DEF RestartService
    <2>2. "defender" \in Places
      BY DEF Places
    <2>3. QED
      BY <1>1, <2>1, <2>2, GoToType, TypeStep
  <1>10. CASE ReadExclusions
    <2> DEFINE found(paths) == [fix EXCEPT !.at = IF fix.whatIf THEN "indexing" ELSE "exclude",
                                           !.todo = paths]
               place == IF fix.whatIf THEN "indexing" ELSE "exclude"
    <2>1. /\ \/ GoTo("indexing")
             \/ fix' = found({})
             \/ fix' = found(SqlFolders(host) \ host.exclusions)
          /\ Smooth \/ Failing \/ Skipped
          /\ Same
      BY <1>10, AnswerCounts DEF ReadExclusions
    <2>2. "indexing" \in Places /\ place \in Places /\ place # "disable"
      BY TypeParts DEF Places
    <2>3. CASE GoTo("indexing")
      BY <1>1, <2>1, <2>2, <2>3, GoToType, TypeStep DEF Same
    <2>4. CASE \E paths \in SUBSET SqlFolders(host) :
                  fix' = [fix EXCEPT !.at = place, !.todo = paths]
      <3>1. fix' \in Fixes /\ fix'.at = place
        BY <2>2, <2>4, TodoType
      <3>2. QED
        BY <1>1, <2>1, <2>2, <3>1, TypeStep DEF Same
    <2>5. QED
      BY <2>1, <2>3, <2>4
  <1>11. CASE AddExclusion
    <2>1. /\ At("exclude") /\ Same
          /\ Smooth \/ Failing
          /\ \E todo \in SUBSET (SqlFolders(host) \union SqlVolumes(host)) :
                fix' = [fix EXCEPT !.todo = todo]
      BY <1>2, <1>11 DEF AddExclusion
    <2>2. fix' \in Fixes /\ fix'.at = "exclude"
      BY <2>1, TodoOnly DEF At
    <2>3. QED
      BY <1>1, <2>1, <2>2, TypeStep DEF Same
  <1>12. CASE ExcludeExe
    <2>1. GoTo("indexing") /\ (Smooth \/ Failing) /\ Same
      BY <1>12 DEF ExcludeExe
    <2>2. "indexing" \in Places
      BY DEF Places
    <2>3. QED
      BY <1>1, <2>1, <2>2, GoToType, TypeStep DEF Same
  <1>13. CASE ReadVolumes
    <2>1. /\ \/ GoTo("summary")
             \/ fix' = [fix EXCEPT !.at = "summary"]
             \/ fix' = [fix EXCEPT !.at = "disable", !.todo = Indexed(host)]
          /\ Smooth \/ Failing \/ Skipped
          /\ Same
      BY <1>13, AnswerCounts DEF ReadVolumes
    <2>2. "summary" \in Places /\ "disable" \in Places
      BY DEF Places
    <2>3. CASE GoTo("summary") \/ fix' = [fix EXCEPT !.at = "summary"]
      <3>1. fix' \in Fixes /\ fix'.at = "summary"
        BY <2>2, <2>3, GoToType, PlaceOnly
      <3>2. QED
        BY <1>1, <2>1, <3>1, TypeStep DEF Same
    <2>4. CASE fix' = [fix EXCEPT !.at = "disable", !.todo = Indexed(host)]
      <3>1. Indexed(host) \subseteq SqlVolumes(host)
        BY DEF Indexed
      <3>2. fix' \in Fixes /\ fix'.todo = Indexed(host)
        BY <2>2, <2>4, <3>1, TodoType
      <3>3. QED
        BY <1>1, <2>1, <3>1, <3>2, TypeStep DEF Same
    <2>5. QED
      BY <2>1, <2>3, <2>4
  <1>14. CASE DisableIndexing
    <2>1. fix.todo \subseteq SqlVolumes(host)
      BY <1>14 DEF TypeOK, DisableIndexing
    <2>2. /\ Smooth \/ Failing
          /\ Same
          /\ \E todo \in SUBSET SqlVolumes(host) : fix' = [fix EXCEPT !.todo = todo]
      BY <1>14, <2>1 DEF DisableIndexing
    <2>3. fix' \in Fixes /\ fix'.todo \subseteq SqlVolumes(host)
      BY <2>2, TodoOnly
    <2>4. QED
      BY <1>1, <2>2, <2>3, TypeStep DEF Same
  <1>15. CASE Summary
    BY <1>15, SummaryType
  <1>16. QED
    BY <1>3, <1>4, <1>5, <1>6, <1>7, <1>8, <1>9, <1>10, <1>11, <1>12, <1>13, <1>14, <1>15
       DEF Next, Ended

\* The host stays one the scripts can meet, the script is at one of its places, and
\* the work list of Fix 4 names volumes of SQL Server files.
THEOREM TypeCorrect == Spec => []TypeOK
  BY TypeInit, TypeNext, PTL DEF Spec

-----------------------------------------------------------------------------
(* A clean run has done what it has come past.                             *)

\* A step that leaves the run clean is smooth.
LEMMA CleanIsSmooth ==
    ASSUME Smooth \/ Failing \/ Skipped, clean'
    PROVE  Smooth /\ clean
  BY DEF Smooth, Failing, Skipped

\* What the parts of CleanInv that no place is named in come to.
LEMMA CleanBase ==
    ASSUME TypeOK, HostStep, CleanInv, clean,
           fix'.want = fix.want, fix'.whatIf = fix.whatIf, fix'.at \notin {"end", "summary"},
           host.running \subseteq host'.running
    PROVE  /\ fix'.at # "end" /\ fix'.at # "summary" /\ ~ fix'.whatIf
           /\ fix'.want = Recommended(host'.ram)
           /\ host'.target \in host'.running
           /\ SqlFolders(host') = SqlFolders(host) /\ SqlVolumes(host') = SqlVolumes(host)
           /\ host'.target = host.target /\ host'.services = host.services
           /\ host'.defender = host.defender
  <1>1. Kept(host, host')
    BY DEF HostStep
  <1>2. /\ SqlFolders(host') = SqlFolders(host) /\ SqlVolumes(host') = SqlVolumes(host)
        /\ host'.target = host.target /\ host'.services = host.services
        /\ host'.ram = host.ram /\ host'.defender = host.defender
    BY <1>1, KeptPlaces
  <1>3. ~ fix.whatIf /\ fix.want = Recommended(host.ram) /\ host.target \in host.running
    BY DEF CleanInv
  <1>4. QED
    BY <1>2, <1>3

\* What a clean run has at a place.
CleanAt(place, h, todo, want) ==
    /\ place = "memory" \/ h.maxMem = want
    /\ h.services[1] = h.target =>
          /\ place = "restart" => h.target \in h.granted
          /\ place \in {"defender", "exclude", "indexing", "disable"} =>
                h.model[h.target] = "LOCK_PAGES"
    /\ place = "exclude" => SqlFolders(h) \subseteq h.exclusions \union todo
    /\ place \in {"indexing", "disable"} => Excluded(h)
    /\ place = "disable" => Indexed(h) \subseteq todo

LEMMA CleanHere ==
    ASSUME CleanInv, clean
    PROVE  CleanAt(fix.at, host, fix.todo, fix.want) /\ ~ fix.whatIf /\ pending = 0
  BY DEF CleanInv, CleanAt, At

LEMMA CleanThere ==
    ASSUME TypeOK, HostStep, CleanInv, clean,
           fix'.want = fix.want, fix'.whatIf = fix.whatIf, fix'.at \notin {"end", "summary"},
           host.running \subseteq host'.running, pending' = 0,
           CleanAt(fix'.at, host', fix'.todo, fix'.want)
    PROVE  CleanInv'
  BY CleanBase DEF CleanInv, CleanAt, At

LEMMA CleanStart ==
    ASSUME TypeOK, NEW whatIf \in BOOLEAN, NEW arg \in MemoryArgs, Start(whatIf, arg), clean'
    PROVE  CleanInv'
  <1>1. clean' = (~ whatIf /\ arg = 0 /\ pending = 0)
    BY DEF Start
  <1>2. ~ whatIf /\ arg = 0 /\ pending = 0
    BY <1>1
  <1>3. /\ UNCHANGED <<host, pending>> /\ host.target \in host.running
        /\ fix' = [at |-> "memory", whatIf |-> whatIf, todo |-> {},
                   want |-> Recommended(host.ram)]
    BY <1>2 DEF Start
  <1> DEFINE want == Recommended(host.ram)
  <1> HIDE DEF want
  <1>4. fix' = [at |-> "memory", whatIf |-> whatIf, todo |-> {}, want |-> want]
    BY <1>3 DEF want
  <1>5. fix'.at = "memory" /\ fix'.whatIf = whatIf /\ fix'.want = want
    BY <1>4
  <1>6. fix'.want = Recommended(host'.ram)
    BY <1>3, <1>5 DEF want
  <1>7. QED
    BY <1>2, <1>3, <1>5, <1>6 DEF CleanInv, At

LEMMA CleanMemory ==
    ASSUME TypeOK, HostStep, CleanInv, FixMemory, clean'
    PROVE  CleanInv'
  <1>1. GoTo("lock pages") /\ (Smooth \/ Failing \/ Skipped)
    BY DEF FixMemory
  <1>2. Smooth /\ clean
    BY <1>1, CleanIsSmooth
  <1>3. ~ fix.whatIf /\ CleanAt(fix.at, host, fix.todo, fix.want) /\ pending = 0
    BY <1>2, CleanHere
  <1>4. \/ At("memory") /\ Allowed /\ SetMemory
        \/ host.maxMem = fix.want /\ UNCHANGED <<host, pending>>
    BY <1>2, <1>3 DEF FixMemory, Failing, Skipped
  <1>5. host'.maxMem = fix.want /\ host'.running = host.running /\ pending' = 0
    BY <1>3, <1>4, SetMemoryStep DEF SetMemory
  <1>6. "lock pages" \in Places
    BY DEF Places
  <1>7. fix'.at = "lock pages" /\ fix'.want = fix.want /\ fix'.whatIf = fix.whatIf
    BY <1>1, <1>6, GoToType
  <1>8. CleanAt(fix'.at, host', fix'.todo, fix'.want)
    BY <1>5, <1>7 DEF CleanAt
  <1>9. QED
    BY <1>2, <1>5, <1>7, <1>8, CleanThere

LEMMA CleanLockPages ==
    ASSUME TypeOK, HostStep, CleanInv, CheckLockPages, clean'
    PROVE  CleanInv'
  <1>1. Smooth /\ clean
    BY AnswerCounts, CleanIsSmooth DEF CheckLockPages
  <1>2. ~ fix.whatIf /\ CleanAt(fix.at, host, fix.todo, fix.want)
    BY <1>1, CleanHere
  <1>3. ~ Unanswered
    BY <1>1 DEF Unanswered, Failing, Skipped
  <1>4. /\ At("lock pages") /\ UNCHANGED host
        /\ GoTo(IF host.model[host.target] = "LOCK_PAGES" THEN "defender" ELSE "grant")
    BY <1>2, <1>3 DEF CheckLockPages
  <1>5. "defender" \in Places /\ "grant" \in Places
    BY DEF Places
  <1>6. /\ fix'.at = IF host.model[host.target] = "LOCK_PAGES" THEN "defender" ELSE "grant"
        /\ fix'.want = fix.want /\ fix'.whatIf = fix.whatIf
    BY <1>4, <1>5, GoToType
  <1>7. CleanAt(fix'.at, host', fix'.todo, fix'.want)
    BY <1>2, <1>4, <1>6 DEF CleanAt, At
  <1>8. pending' = 0
    BY <1>1, CleanHere DEF CheckLockPages, Same
  <1>9. QED
    BY <1>1, <1>4, <1>6, <1>7, <1>8, CleanThere

LEMMA CleanGrant ==
    ASSUME TypeOK, HostStep, CleanInv, GrantLockPages, clean'
    PROVE  CleanInv'
  <1>1. Smooth /\ clean
    BY CleanIsSmooth DEF GrantLockPages
  <1>2. CleanAt(fix.at, host, fix.todo, fix.want)
    BY <1>1, CleanHere
  <1>3. /\ At("grant") /\ GoTo("restart")
        /\ host' = [host EXCEPT !.granted = @ \union {SqlService(host)}]
    BY <1>1 DEF GrantLockPages, Failing
  <1>4. "restart" \in Places
    BY DEF Places
  <1>5. fix'.at = "restart" /\ fix'.want = fix.want /\ fix'.whatIf = fix.whatIf
    BY <1>3, <1>4, GoToType
  <1>6. Settings(host, host', host.maxMem, host.granted \union {SqlService(host)},
                 host.running, host.model, host.exclusions, host.volumes)
    BY <1>3, GrantStep
  <1>7. CleanAt(fix'.at, host', fix'.todo, fix'.want)
    BY <1>2, <1>3, <1>5, <1>6 DEF CleanAt, Settings, Rest, SqlService, At
  <1>8. host.running \subseteq host'.running
    BY <1>6 DEF Settings
  <1>9. pending' = 0
    BY <1>1, CleanHere DEF GrantLockPages, Same
  <1>10. QED
    BY <1>1, <1>5, <1>7, <1>8, <1>9, CleanThere

LEMMA CleanRestart ==
    ASSUME TypeOK, HostStep, CleanInv, RestartService, clean'
    PROVE  CleanInv'
  <1> DEFINE s == SqlService(host)
  <1>1. GoTo("defender") /\ At("restart") /\ (Smooth \/ Failing \/ Skipped)
    BY DEF RestartService
  <1>2. Smooth /\ clean
    BY <1>1, CleanIsSmooth
  <1>3. CleanAt(fix.at, host, fix.todo, fix.want) /\ pending = 0
    BY <1>2, CleanHere
  <1>4. /\ host' = [host EXCEPT !.model[s] = MemoryModel(host, s), !.running = @ \union {s}]
        /\ pending' = 0 /\ (IF s = host.target THEN InUse ELSE host) = host
        /\ ~ At("end")
    BY <1>1, <1>2, <1>3 DEF RestartService, Failing, Skipped, InUse, At
  <1>5. "defender" \in Places
    BY DEF Places
  <1>6. fix'.at = "defender" /\ fix'.want = fix.want /\ fix'.whatIf = fix.whatIf
    BY <1>1, <1>5, GoToType
  <1> DEFINE model == [host.model EXCEPT ![s] = MemoryModel(host, s)]
  <1>7. Settings(host, host', host.maxMem, host.granted, host.running \union {s}, model,
                 host.exclusions, host.volumes)
    BY <1>4, RestartStep
  <1>8. host.services[1] = host.target => model[host.target] = "LOCK_PAGES"
    <2>1. host.services[1] = host.target => host.target \in host.granted
      BY <1>1, <1>3 DEF CleanAt, At
    <2>2. host.model \in [Instances -> MemoryModels] /\ host.target \in Instances
      BY TypeParts, HostTypes
    <2>3. QED
      BY <2>1, <2>2 DEF MemoryModel, SqlService
  <1> HIDE DEF model, s
  <1>9. CleanAt(fix'.at, host', fix'.todo, fix'.want)
    BY <1>1, <1>3, <1>6, <1>7, <1>8 DEF CleanAt, Settings, Rest, At
  <1>10. host.running \subseteq host'.running
    BY <1>7 DEF Settings
  <1>11. QED
    BY <1>2, <1>4, <1>6, <1>9, <1>10, CleanThere

LEMMA CleanReadExclusions ==
    ASSUME TypeOK, HostStep, CleanInv, ReadExclusions, clean'
    PROVE  CleanInv'
  <1> DEFINE missing == SqlFolders(host) \ host.exclusions
  <1>1. Smooth /\ clean /\ UNCHANGED host /\ At("defender")
    BY AnswerCounts, CleanIsSmooth DEF ReadExclusions
  <1>2. ~ fix.whatIf /\ CleanAt(fix.at, host, fix.todo, fix.want)
    BY <1>1, CleanHere
  <1>3. ~ Unanswered
    BY <1>1 DEF Unanswered, Failing, Skipped
  <1>4. \/ ~ host.defender /\ GoTo("indexing")
        \/ fix' = [fix EXCEPT !.at = "exclude", !.todo = missing]
    BY <1>2, <1>3 DEF ReadExclusions
  <1>5. "indexing" \in Places /\ "exclude" \in Places
        /\ missing \in SUBSET (SqlFolders(host) \union SqlVolumes(host))
    BY DEF Places
  <1>6. \/ ~ host.defender /\ fix'.at = "indexing"
        \/ fix'.at = "exclude" /\ fix'.todo = missing
    BY <1>4, <1>5, GoToType, TodoType
  <1>7. fix'.want = fix.want /\ fix'.whatIf = fix.whatIf
    BY <1>4, <1>5, GoToType, TodoType
  <1>8. CleanAt(fix'.at, host', fix'.todo, fix'.want)
    BY <1>1, <1>2, <1>6, <1>7 DEF CleanAt, At, Excluded
  <1>9. pending' = 0
    BY <1>1, CleanHere DEF ReadExclusions, Same
  <1>10. QED
    BY <1>1, <1>6, <1>7, <1>8, <1>9, CleanThere

LEMMA CleanAddExclusion ==
    ASSUME TypeOK, HostStep, CleanInv, AddExclusion, clean'
    PROVE  CleanInv'
  <1>1. Smooth /\ clean /\ At("exclude")
    BY CleanIsSmooth DEF AddExclusion
  <1>2. CleanAt(fix.at, host, fix.todo, fix.want)
    BY <1>1, CleanHere
  <1>3. PICK path \in fix.todo :
            /\ host' = [host EXCEPT !.exclusions = @ \union {path}]
            /\ fix' = [fix EXCEPT !.todo = @ \ {path}]
    BY <1>1 DEF AddExclusion, Failing
  <1>4. fix.todo \ {path} \in SUBSET (SqlFolders(host) \union SqlVolumes(host))
    BY TypeParts
  <1>5. /\ fix'.at = fix.at /\ fix'.todo = fix.todo \ {path}
        /\ fix'.want = fix.want /\ fix'.whatIf = fix.whatIf
    BY <1>3, <1>4, TodoOnly
  <1>6. Settings(host, host', host.maxMem, host.granted, host.running, host.model,
                 host.exclusions \union {path}, host.volumes)
    BY <1>3, ExcludeStep
  <1>7. SqlFolders(host') = SqlFolders(host)
    BY KeptPlaces DEF HostStep
  <1>8. CleanAt(fix'.at, host', fix'.todo, fix'.want)
    BY <1>1, <1>2, <1>5, <1>6, <1>7 DEF CleanAt, Settings, Rest, At
  <1>9. host.running \subseteq host'.running /\ fix'.at \notin {"end", "summary"}
    BY <1>1, <1>5, <1>6 DEF Settings, At
  <1>10. pending' = 0
    BY <1>1, CleanHere DEF AddExclusion, Same
  <1>11. QED
    BY <1>1, <1>5, <1>8, <1>9, <1>10, CleanThere

LEMMA CleanExcludeExe ==
    ASSUME TypeOK, HostStep, CleanInv, ExcludeExe, clean'
    PROVE  CleanInv'
  <1>1. Smooth /\ clean /\ At("exclude") /\ fix.todo = {} /\ GoTo("indexing")
    BY CleanIsSmooth DEF ExcludeExe
  <1>2. CleanAt(fix.at, host, fix.todo, fix.want)
    BY <1>1, CleanHere
  <1>3. UNCHANGED host \/ host' = [host EXCEPT !.exclusions = @ \union {Exe}]
    BY DEF ExcludeExe
  <1>4. /\ host'.maxMem = host.maxMem /\ host'.running = host.running
        /\ host'.model = host.model /\ host'.services = host.services
        /\ host'.target = host.target /\ host.exclusions \subseteq host'.exclusions
    <2>1. CASE UNCHANGED host
      BY <2>1
    <2>2. CASE host' = [host EXCEPT !.exclusions = @ \union {Exe}]
      <3>1. Settings(host, host', host.maxMem, host.granted, host.running, host.model,
                     host.exclusions \union {Exe}, host.volumes)
        BY <2>2, ExcludeStep
      <3>2. QED
        BY <3>1 DEF Settings, Rest
    <2>3. QED
      BY <1>3, <2>1, <2>2
  <1>5. "indexing" \in Places
    BY DEF Places
  <1>6. fix'.at = "indexing" /\ fix'.want = fix.want /\ fix'.whatIf = fix.whatIf
    BY <1>1, <1>5, GoToType
  <1>7. SqlFolders(host') = SqlFolders(host)
    BY KeptPlaces DEF HostStep
  <1>8. CleanAt(fix'.at, host', fix'.todo, fix'.want)
    BY <1>1, <1>2, <1>4, <1>6, <1>7 DEF CleanAt, At, Excluded
  <1>9. pending' = 0
    BY <1>1, CleanHere DEF ExcludeExe, Same
  <1>10. QED
    BY <1>1, <1>4, <1>6, <1>8, <1>9, CleanThere

LEMMA CleanReadVolumes ==
    ASSUME TypeOK, HostStep, CleanInv, ReadVolumes, clean'
    PROVE  CleanInv'
  <1>1. Smooth /\ clean /\ At("indexing") /\ UNCHANGED host
    BY AnswerCounts, CleanIsSmooth DEF ReadVolumes
  <1>2. ~ fix.whatIf /\ CleanAt(fix.at, host, fix.todo, fix.want)
    BY <1>1, CleanHere
  <1>3. fix' = [fix EXCEPT !.at = "disable", !.todo = Indexed(host)]
    BY <1>1, <1>2 DEF ReadVolumes, Unanswered, Failing, Skipped
  <1>4. "disable" \in Places
        /\ Indexed(host) \in SUBSET (SqlFolders(host) \union SqlVolumes(host))
    BY DEF Places, Indexed
  <1>5. /\ fix'.at = "disable" /\ fix'.todo = Indexed(host)
        /\ fix'.want = fix.want /\ fix'.whatIf = fix.whatIf
    BY <1>3, <1>4, TodoType
  <1>6. CleanAt(fix'.at, host', fix'.todo, fix'.want)
    BY <1>1, <1>2, <1>5 DEF CleanAt, At
  <1>7. pending' = 0
    BY <1>1, CleanHere DEF ReadVolumes, Same
  <1>8. QED
    BY <1>1, <1>5, <1>6, <1>7, CleanThere

LEMMA CleanDisable ==
    ASSUME TypeOK, HostStep, CleanInv, DisableIndexing, clean'
    PROVE  CleanInv'
  <1>1. Smooth /\ clean /\ At("disable")
    BY CleanIsSmooth DEF DisableIndexing
  <1>2. CleanAt(fix.at, host, fix.todo, fix.want)
    BY <1>1, CleanHere
  <1>3. PICK v \in fix.todo :
            /\ host' = [host EXCEPT !.volumes[v].indexing = FALSE]
            /\ fix' = [fix EXCEPT !.todo = @ \ {v}]
    BY <1>1 DEF DisableIndexing, Failing
  <1>4. v \in SqlVolumes(host) /\ v \in DOMAIN host.volumes
    BY <1>1 DEF TypeOK, SqlVolumes
  <1>5. fix.todo \ {v} \in SUBSET (SqlFolders(host) \union SqlVolumes(host))
    BY TypeParts
  <1>6. /\ fix'.at = fix.at /\ fix'.todo = fix.todo \ {v}
        /\ fix'.want = fix.want /\ fix'.whatIf = fix.whatIf
    BY <1>3, <1>5, TodoOnly
  <1>7. Settings(host, host', host.maxMem, host.granted, host.running, host.model,
                 host.exclusions, NotIndexed(host.volumes, v))
    BY <1>3, <1>4, IndexStep
  <1>8. SqlFolders(host') = SqlFolders(host) /\ SqlVolumes(host') = SqlVolumes(host)
    BY KeptPlaces DEF HostStep
  <1>9. Indexed(host') \subseteq fix.todo \ {v}
    <2>1. Indexed(host) \subseteq fix.todo
      BY <1>1, <1>2 DEF CleanAt, At
    <2>2. SqlVolumes(host) \subseteq DOMAIN host.volumes
      BY DEF SqlVolumes
    <2>3. ~ host'.volumes[v].indexing
      <3>1. host'.volumes = NotIndexed(host.volumes, v)
        BY <1>7 DEF Settings
      <3>2. host.volumes[v] \in [unit : Nat, compressed : BOOLEAN, indexing : BOOLEAN]
        BY <1>4, TypeParts, HostTypes
      <3>3. NotIndexed(host.volumes, v)[v] = [host.volumes[v] EXCEPT !.indexing = FALSE]
        BY <1>4 DEF NotIndexed
      <3>4. QED
        BY <3>1, <3>2, <3>3
    <2>4. \A w \in DOMAIN host.volumes : host'.volumes[w].indexing => host.volumes[w].indexing
      BY DEF HostStep, Kept
    <2>5. QED
      BY <1>8, <2>1, <2>2, <2>3, <2>4 DEF Indexed
  <1>10. CleanAt(fix'.at, host', fix'.todo, fix'.want)
    BY <1>1, <1>2, <1>6, <1>7, <1>8, <1>9 DEF CleanAt, Settings, Rest, Excluded, At
  <1>11. host.running \subseteq host'.running /\ fix'.at \notin {"end", "summary"}
    BY <1>1, <1>6, <1>7 DEF Settings, At
  <1>12. pending' = 0
    BY <1>1, CleanHere DEF DisableIndexing, Same
  <1>13. QED
    BY <1>1, <1>6, <1>10, <1>11, <1>12, CleanThere

LEMMA CleanInit == Init => CleanInv
  BY DEF Init, CleanInv

LEMMA CleanNext == TypeOK /\ CleanInv /\ [Next]_vars => CleanInv'
  <1> SUFFICES ASSUME TypeOK, CleanInv, [Next]_vars PROVE CleanInv'
    OBVIOUS
  <1>1. HostStep
    BY StepOfHost
  <1>2. CASE ~ clean'
    BY <1>2 DEF CleanInv
  <1>3. CASE clean'
    <2>1. CASE UNCHANGED vars
      BY <2>1 DEF vars, CleanInv, At
    <2>2. ASSUME NEW whatIf \in BOOLEAN, NEW arg \in MemoryArgs, Start(whatIf, arg)
          PROVE  CleanInv'
      BY <1>3, <2>2, CleanStart
    <2>3. ~ FixUnreadMemory /\ ~ Summary
      BY <1>3 DEF FixUnreadMemory, Failing, Summary
    <2>4. QED
      BY <1>1, <1>3, <2>1, <2>2, <2>3, CleanMemory, CleanLockPages, CleanGrant,
         CleanRestart, CleanReadExclusions, CleanAddExclusion, CleanExcludeExe,
         CleanReadVolumes, CleanDisable
         DEF Next, Ended
  <1>4. QED
    BY <1>2, <1>3

-----------------------------------------------------------------------------
(* What a clean run did stays done.                                        *)

LEMMA TunedKept ==
    ASSUME NEW h, NEW g, Tuned(h), Kept(h, g), g.maxMem = h.maxMem
    PROVE  Tuned(g)
  <1>1. /\ SqlFolders(g) = SqlFolders(h) /\ SqlVolumes(g) = SqlVolumes(h)
        /\ g.target = h.target /\ g.ram = h.ram /\ g.defender = h.defender
    BY KeptPlaces
  <1>2. Indexed(g) \subseteq Indexed(h)
    BY <1>1 DEF Indexed, Kept, SqlVolumes
  <1>3. Excluded(g)
    BY <1>1 DEF Excluded, Tuned, Kept
  <1>4. QED
    BY <1>1, <1>2, <1>3 DEF Tuned, Kept

\* What SettledInv says of a host and a script.
SettledAt(h, f) ==
    h.services[1] = h.target =>
        /\ Tuned(h)
        /\ f.at # "grant" /\ f.at # "restart"
        /\ f.todo = {}
        /\ f.at = "memory" => f.want = Recommended(h.ram)

LEMMA SettledMeans ==
    SettledInv <=>
        (settled => host.target \in host.running /\ pending = 0 /\ SettledAt(host, fix))
  BY DEF SettledInv, SettledAt, At

LEMMA SettledBefore ==
    ASSUME SettledInv, Smooth \/ Failing \/ Skipped, settled'
    PROVE  /\ settled /\ host.target \in host.running /\ SettledAt(host, fix)
           /\ pending = 0
           /\ Smooth \/ Skipped
  BY SettledMeans DEF Smooth, Failing, Skipped

\* A step that leaves memory, place and work list in order.
LEMMA SettledThere ==
    ASSUME TypeOK, HostStep, SettledAt(host, fix), host.target \in host'.running,
           pending' = 0,
           host.services[1] = host.target =>
               /\ host'.maxMem = host.maxMem
               /\ fix'.at \notin {"grant", "restart", "memory"}
               /\ fix'.todo = {}
    PROVE  SettledInv'
  <1>1. /\ Kept(host, host') /\ host'.target = host.target /\ host'.services = host.services
    BY KeptPlaces DEF HostStep
  <1>2. SettledAt(host', fix')
    BY <1>1, TunedKept DEF SettledAt
  <1>3. QED
    BY <1>1, <1>2 DEF SettledInv, SettledAt, At

LEMMA SettledStart ==
    ASSUME TypeOK, SettledInv, NEW whatIf \in BOOLEAN, NEW arg \in MemoryArgs,
           Start(whatIf, arg), settled'
    PROVE  SettledInv'
  <1>1. settled' = (settled /\ arg = 0)
    BY DEF Start
  <1>2. settled /\ arg = 0
    BY <1>1
  <1> DEFINE want == Recommended(host.ram)
  <1>3. /\ UNCHANGED <<host, pending>>
        /\ fix' = [at |-> "memory", whatIf |-> whatIf, todo |-> {}, want |-> want]
    BY <1>2 DEF Start
  <1> HIDE DEF want
  <1>4. fix'.at = "memory" /\ fix'.todo = {} /\ fix'.want = want
    BY <1>3
  <1>5. host.target \in host.running /\ pending = 0 /\ SettledAt(host, fix)
    BY <1>2, SettledMeans
  <1>6. SettledAt(host', fix')
    BY <1>3, <1>4, <1>5 DEF SettledAt, want
  <1>7. QED
    BY <1>3, <1>5, <1>6 DEF SettledInv, SettledAt, At

LEMMA SettledMemory ==
    ASSUME TypeOK, HostStep, SettledInv, FixMemory, settled'
    PROVE  SettledInv'
  <1>1. At("memory") /\ GoTo("lock pages") /\ (Smooth \/ Failing \/ Skipped)
    BY DEF FixMemory
  <1>2. /\ host.target \in host.running /\ SettledAt(host, fix)
        /\ pending = 0 /\ (Smooth \/ Skipped) /\ settled
    BY <1>1, SettledBefore
  <1>3. ~ Failing
    BY <1>1, <1>2 DEF Failing
  <1>4. UNCHANGED <<host, pending>> \/ (Allowed /\ SetMemory)
    BY <1>2, <1>3 DEF FixMemory, InUse
  <1>5. /\ host'.running = host.running /\ pending' = 0
        /\ host.services[1] = host.target => host'.maxMem = host.maxMem
    <2>1. CASE UNCHANGED <<host, pending>>
      BY <1>2, <2>1
    <2>2. CASE Allowed /\ SetMemory
      BY <1>1, <1>2, <2>2, SetMemoryStep DEF SetMemory, SettledAt, Tuned, At
    <2>3. QED
      BY <1>4, <2>1, <2>2
  <1>6. "lock pages" \in Places
    BY DEF Places
  <1>7. fix'.at = "lock pages" /\ fix'.todo = fix.todo
    BY <1>1, <1>6, GoToType
  <1>8. QED
    BY <1>2, <1>5, <1>7, SettledThere DEF SettledAt

LEMMA SettledLockPages ==
    ASSUME TypeOK, HostStep, SettledInv, CheckLockPages, settled'
    PROVE  SettledInv'
  <1>1. Smooth \/ Failing \/ Skipped
    BY AnswerCounts DEF CheckLockPages
  <1>2. host.target \in host.running /\ SettledAt(host, fix) /\ (Smooth \/ Skipped) /\ settled
    BY <1>1, SettledBefore
  <1>3. ~ Unanswered
    BY <1>2 DEF Unanswered, Failing
  <1>4. UNCHANGED host /\ GoTo(IF host.model[host.target] = "LOCK_PAGES" \/ fix.whatIf
                               THEN "defender" ELSE "grant")
    BY <1>3 DEF CheckLockPages
  <1>5. "defender" \in Places /\ "grant" \in Places
    BY DEF Places
  <1>6. /\ fix'.at = IF host.model[host.target] = "LOCK_PAGES" \/ fix.whatIf
                     THEN "defender" ELSE "grant"
        /\ fix'.todo = fix.todo
    BY <1>4, <1>5, GoToType
  <1>7. pending' = 0
    BY <1>1, SettledBefore DEF CheckLockPages, Same
  <1>8. QED
    BY <1>2, <1>4, <1>6, <1>7, SettledThere DEF SettledAt, Tuned

LEMMA SettledGrant ==
    ASSUME TypeOK, HostStep, SettledInv, GrantLockPages, settled'
    PROVE  SettledInv'
  <1>1. At("grant") /\ Smooth
    BY DEF GrantLockPages, Failing
  <1>2. host.target \in host.running /\ SettledAt(host, fix)
    BY <1>1, SettledBefore
  <1>3. host' = [host EXCEPT !.granted = @ \union {SqlService(host)}]
    BY <1>1 DEF GrantLockPages, Failing
  <1>4. host'.running = host.running
    BY <1>3, GrantStep DEF Settings
  <1>5. pending' = 0
    BY <1>1, SettledBefore DEF GrantLockPages, Same
  <1>6. QED
    BY <1>1, <1>2, <1>4, <1>5, SettledThere DEF SettledAt, At

LEMMA SettledRestart ==
    ASSUME TypeOK, HostStep, SettledInv, RestartService, settled'
    PROVE  SettledInv'
  <1> DEFINE s == SqlService(host)
  <1>1. At("restart") /\ (Smooth \/ Failing \/ Skipped)
    BY DEF RestartService
  <1>2. /\ host.target \in host.running /\ SettledAt(host, fix) /\ (Smooth \/ Skipped)
        /\ settled /\ pending = 0
    BY <1>1, SettledBefore
  <1>3. /\ (IF s = host.target THEN InUse ELSE host) = host /\ ~ At("end")
        /\ \/ UNCHANGED host
           \/ host' = [host EXCEPT !.model[s] = MemoryModel(host, s),
                                   !.running = @ \union {s}]
        /\ pending' = 0
    BY <1>1, <1>2 DEF RestartService, Failing, InUse, At
  <1>4. host.running \subseteq host'.running
    <2>1. CASE UNCHANGED host
      BY <2>1
    <2>2. CASE host' = [host EXCEPT !.model[s] = MemoryModel(host, s),
                                    !.running = @ \union {s}]
      BY <1>3, <2>2, RestartStep DEF Settings
    <2>3. QED
      BY <1>3, <2>1, <2>2
  <1>5. QED
    BY <1>1, <1>2, <1>3, <1>4, SettledThere DEF SettledAt, At

LEMMA SettledReadExclusions ==
    ASSUME TypeOK, HostStep, SettledInv, ReadExclusions, settled'
    PROVE  SettledInv'
  <1> DEFINE missing == SqlFolders(host) \ host.exclusions
             place == IF fix.whatIf THEN "indexing" ELSE "exclude"
  <1>1. UNCHANGED host /\ At("defender") /\ (Smooth \/ Failing \/ Skipped)
    BY AnswerCounts DEF ReadExclusions
  <1>2. host.target \in host.running /\ SettledAt(host, fix)
    BY <1>1, SettledBefore
  <1>3. \/ GoTo("indexing")
        \/ fix' = [fix EXCEPT !.at = place, !.todo = {}]
        \/ host.defender /\ fix' = [fix EXCEPT !.at = place, !.todo = missing]
    BY DEF ReadExclusions
  <1>4. "indexing" \in Places /\ place \in Places
        /\ missing \in SUBSET (SqlFolders(host) \union SqlVolumes(host))
        /\ {} \in SUBSET (SqlFolders(host) \union SqlVolumes(host))
    BY DEF Places
  <1>5. place \in {"indexing", "exclude"}
    OBVIOUS
  <1> HIDE DEF place
  <1>6. /\ fix'.at \in {"indexing", "exclude"}
        /\ fix'.todo = fix.todo \/ fix'.todo = {} \/ (host.defender /\ fix'.todo = missing)
    BY <1>3, <1>4, <1>5, GoToType, TodoType
  <1>7. host.services[1] = host.target => fix'.todo = {}
    BY <1>2, <1>6 DEF SettledAt, Tuned, Excluded
  <1>8. pending' = 0
    BY <1>1, SettledBefore DEF ReadExclusions, Same
  <1>9. QED
    BY <1>1, <1>2, <1>6, <1>7, <1>8, SettledThere

LEMMA SettledExclude ==
    ASSUME TypeOK, HostStep, SettledInv, AddExclusion \/ ExcludeExe, settled'
    PROVE  SettledInv'
  <1>1. At("exclude") /\ (Smooth \/ Failing \/ Skipped)
    BY DEF AddExclusion, ExcludeExe
  <1>2. host.target \in host.running /\ SettledAt(host, fix)
    BY <1>1, SettledBefore
  <1>3. UNCHANGED host \/ \E path : host' = [host EXCEPT !.exclusions = @ \union {path}]
    BY DEF AddExclusion, ExcludeExe
  <1>4. host'.running = host.running /\ host'.maxMem = host.maxMem
    BY <1>3, ExcludeStep DEF Settings
  <1>5. host.services[1] = host.target =>
            fix'.at \notin {"grant", "restart", "memory"} /\ fix'.todo = {}
    <2>1. CASE AddExclusion
      BY <1>2, <2>1 DEF AddExclusion, SettledAt
    <2>2. CASE ExcludeExe
      <3>1. "indexing" \in Places
        BY DEF Places
      <3>2. fix'.at = "indexing" /\ fix'.todo = fix.todo
        BY <2>2, <3>1, GoToType DEF ExcludeExe
      <3>3. QED
        BY <2>2, <3>2 DEF ExcludeExe
    <2>3. QED
      BY <2>1, <2>2
  <1>6. pending' = 0
    BY <1>1, SettledBefore DEF AddExclusion, ExcludeExe, Same
  <1>7. QED
    BY <1>2, <1>4, <1>5, <1>6, SettledThere

LEMMA SettledReadVolumes ==
    ASSUME TypeOK, HostStep, SettledInv, ReadVolumes, settled'
    PROVE  SettledInv'
  <1>1. UNCHANGED host /\ (Smooth \/ Failing \/ Skipped)
    BY AnswerCounts DEF ReadVolumes
  <1>2. host.target \in host.running /\ SettledAt(host, fix)
    BY <1>1, SettledBefore
  <1>3. \/ GoTo("summary")
        \/ fix' = [fix EXCEPT !.at = "summary"]
        \/ fix' = [fix EXCEPT !.at = "disable", !.todo = Indexed(host)]
    BY DEF ReadVolumes
  <1>4. "summary" \in Places /\ "disable" \in Places
        /\ Indexed(host) \in SUBSET (SqlFolders(host) \union SqlVolumes(host))
    BY DEF Places, Indexed
  <1>5. /\ fix'.at \in {"summary", "disable"}
        /\ fix'.todo = fix.todo \/ fix'.todo = Indexed(host)
    BY <1>3, <1>4, GoToType, TodoType, PlaceOnly
  <1>6. host.services[1] = host.target => fix'.todo = {}
    BY <1>2, <1>5 DEF SettledAt, Tuned
  <1>7. pending' = 0
    BY <1>1, SettledBefore DEF ReadVolumes, Same
  <1>8. QED
    BY <1>1, <1>2, <1>5, <1>6, <1>7, SettledThere

LEMMA SettledDisable ==
    ASSUME TypeOK, HostStep, SettledInv, DisableIndexing, settled'
    PROVE  SettledInv'
  <1>1. Smooth \/ Failing \/ Skipped
    BY DEF DisableIndexing
  <1>2. host.target \in host.running /\ SettledAt(host, fix)
    BY <1>1, SettledBefore
  <1>3. fix.todo \subseteq SqlVolumes(host)
    BY DEF TypeOK, DisableIndexing
  <1>4. UNCHANGED host
        \/ \E v \in fix.todo : host' = [host EXCEPT !.volumes[v].indexing = FALSE]
    BY DEF DisableIndexing
  <1>5. host'.running = host.running
    BY <1>3, <1>4, IndexStep DEF Settings
  <1>6. host.services[1] # host.target
    BY <1>2 DEF DisableIndexing, SettledAt
  <1>7. pending' = 0
    BY <1>1, SettledBefore DEF DisableIndexing, Same
  <1>8. QED
    BY <1>2, <1>5, <1>6, <1>7, SettledThere

LEMMA SettledSummary ==
    ASSUME TypeOK, HostStep, CleanInv, SettledInv, Summary, settled'
    PROVE  SettledInv'
  <1>1. UNCHANGED <<host, pending>> /\ fix'.at = "end" /\ fix'.todo = {}
    BY DEF Summary, Same, NotRunning
  <1>2. CASE fix.whatIf
    <2>1. settled
      BY <1>2 DEF Summary
    <2>2. host.target \in host.running /\ pending = 0 /\ SettledAt(host, fix)
      BY <2>1, SettledMeans
    <2>3. QED
      BY <1>1, <2>2, SettledThere
  <1>3. CASE ~ fix.whatIf
    <2>1. clean
      BY <1>3 DEF Summary
    <2>2. At("disable") /\ fix.todo = {}
      BY <2>1 DEF Summary, CleanInv
    <2>3. /\ host.target \in host.running /\ pending = 0 /\ fix.want = Recommended(host.ram)
          /\ CleanAt("disable", host, {}, fix.want)
      BY <2>1, <2>2, CleanHere DEF CleanInv, At
    <2>4. host.services[1] = host.target => Tuned(host)
      BY <2>3 DEF CleanAt, Tuned
    <2>5. SettledAt(host', fix') /\ host'.target \in host'.running /\ pending' = 0
      BY <1>1, <2>3, <2>4 DEF SettledAt
    <2>6. QED
      BY <2>5 DEF SettledInv, SettledAt, At
  <1>4. QED
    BY <1>2, <1>3

LEMMA SettledInit == Init => SettledInv
  BY DEF Init, SettledInv

LEMMA SettledNext == TypeOK /\ CleanInv /\ SettledInv /\ [Next]_vars => SettledInv'
  <1> SUFFICES ASSUME TypeOK, CleanInv, SettledInv, [Next]_vars PROVE SettledInv'
    OBVIOUS
  <1>1. HostStep
    BY StepOfHost
  <1>2. CASE ~ settled'
    BY <1>2 DEF SettledInv
  <1>3. CASE settled'
    <2>1. CASE UNCHANGED vars
      BY <2>1 DEF vars, SettledInv, At
    <2>2. ASSUME NEW whatIf \in BOOLEAN, NEW arg \in MemoryArgs, Start(whatIf, arg)
          PROVE  SettledInv'
      BY <1>3, <2>2, SettledStart
    <2>3. ~ FixUnreadMemory
      BY <1>3 DEF FixUnreadMemory, Failing
    <2>4. QED
      BY <1>1, <1>3, <2>1, <2>2, <2>3, SettledMemory, SettledLockPages, SettledGrant,
         SettledRestart, SettledReadExclusions, SettledExclude, SettledReadVolumes,
         SettledDisable, SettledSummary
         DEF Next, Ended
  <1>4. QED
    BY <1>2, <1>3

\* Run again after a clean run, the script finds nothing to do.
THEOREM SettledHasNothingToDo == Spec => []SettledRerun
  <1>1. SettledInv => SettledRerun
    BY DEF SettledInv, SettledRerun, Tuned
  <1>2. QED
    BY <1>1, TypeInit, TypeNext, CleanInit, CleanNext, SettledInit, SettledNext, PTL DEF Spec

-----------------------------------------------------------------------------
(* No check is lost.                                                       *)

\* What no fix changes is checked as before.
LEMMA SameChecks ==
    ASSUME NEW h, NEW g, Rest(h, g)
    PROVE  /\ WriteCache(g) = WriteCache(h)
           /\ SectorSize(g) = SectorSize(h)
           /\ TempdbLocation(g) = TempdbLocation(h)
           /\ TempdbFileCount(g) = TempdbFileCount(h)
           /\ TempdbFileSizes(g) = TempdbFileSizes(h)
           /\ LogSeparation(g) = LogSeparation(h)
           /\ Autogrowth(g) = Autogrowth(h)
           /\ InstantFileInitialization(g) = InstantFileInitialization(h)
           /\ VirtualLogFiles(g) = VirtualLogFiles(h)
           /\ PowerPlan(g) = PowerPlan(h)
           /\ PageFile(g) = PageFile(h)
  <1>1. WriteCache(g) = WriteCache(h)
    BY DEF Rest, WriteCache, Ssds
  <1>2. SectorSize(g) = SectorSize(h)
    BY DEF Rest, SectorSize, Ssds
  <1>3. TempdbLocation(g) = TempdbLocation(h)
    BY DEF Rest, TempdbLocation, TempdbFiles
  <1>4. TempdbFileCount(g) = TempdbFileCount(h)
    BY DEF Rest, TempdbFileCount, FilesOf
  <1>5. TempdbFileSizes(g) = TempdbFileSizes(h)
    BY DEF Rest, TempdbFileSizes, FilesOf
  <1>6. LogSeparation(g) = LogSeparation(h)
    BY DEF Rest, LogSeparation, UserDatabases, Databases, DriveSet, FilesOf
  <1>7. Autogrowth(g) = Autogrowth(h)
    BY DEF Rest, Autogrowth, UserDatabases, Databases
  <1>8. InstantFileInitialization(g) = InstantFileInitialization(h)
    BY DEF Rest, InstantFileInitialization
  <1>9. VirtualLogFiles(g) = VirtualLogFiles(h)
    BY DEF Rest, VirtualLogFiles, UserDatabases, Databases
  <1>10. PowerPlan(g) = PowerPlan(h)
    BY DEF Rest, PowerPlan
  <1>11. PageFile(g) = PageFile(h)
    BY DEF Rest, PageFile
  <1>12. QED
    BY <1>1, <1>2, <1>3, <1>4, <1>5, <1>6, <1>7, <1>8, <1>9, <1>10, <1>11

LEMMA Reported ==
    ASSUME NEW check, NEW on
    PROVE  /\ Pass(check, on).check = check /\ Pass(check, on).result = "pass"
           /\ Warn(check, on).check = check /\ Warn(check, on).result = "warn"
           /\ Fail(check, on).check = check /\ Fail(check, on).result = "fail"
  BY DEF Pass, Warn, Fail

\* A volume that was good is good: then so is what the check says.
LEMMA VolumesKept ==
    ASSUME NEW h, NEW g, Kept(h, g), NEW check, NEW good, NEW better,
           good \subseteq better,
           NEW r \in VolumeCheck(h, check, good), r.result = "pass"
    PROVE  r \in VolumeCheck(g, check, better)
  <1>1. SqlVolumes(g) = SqlVolumes(h)
    BY KeptPlaces
  <1>2. SqlVolumes(h) # {}
    BY Reported DEF VolumeCheck
  <1>3. PICK v \in SqlVolumes(h) : r = Require(check, v, v \in good)
    BY <1>2 DEF VolumeCheck
  <1>4. v \in good
    BY <1>3, Reported DEF Require
  <1>5. r = Require(check, v, v \in better)
    BY <1>3, <1>4 DEF Require
  <1>6. QED
    BY <1>1, <1>2, <1>5 DEF VolumeCheck

LEMMA StorageKept ==
    ASSUME NEW h, NEW g, Kept(h, g), NEW r, r.result = "pass"
    PROVE  /\ r \in AllocationUnitSize(h) => r \in AllocationUnitSize(g)
           /\ r \in Compression(h) => r \in Compression(g)
           /\ r \in Indexing(h) => r \in Indexing(g)
  <1>1. SqlVolumes(g) = SqlVolumes(h) /\ SqlVolumes(h) \subseteq DOMAIN h.volumes
    BY KeptPlaces DEF SqlVolumes
  <1>2. {v \in SqlVolumes(h) : h.volumes[v].unit = 65536}
          \subseteq {v \in SqlVolumes(g) : g.volumes[v].unit = 65536}
    BY <1>1 DEF Kept
  <1>3. {v \in SqlVolumes(h) : ~ h.volumes[v].compressed}
          \subseteq {v \in SqlVolumes(g) : ~ g.volumes[v].compressed}
    BY <1>1 DEF Kept
  <1>4. {v \in SqlVolumes(h) : ~ h.volumes[v].indexing}
          \subseteq {v \in SqlVolumes(g) : ~ g.volumes[v].indexing}
    BY <1>1 DEF Kept
  <1>5. QED
    BY <1>2, <1>3, <1>4, VolumesKept DEF AllocationUnitSize, Compression, Indexing

LEMMA LockPagesKept ==
    ASSUME NEW h, NEW g, Kept(h, g), NEW r \in LockPages(h), r.result = "pass"
    PROVE  r \in LockPages(g)
  <1>1. h.model[h.target] = "LOCK_PAGES"
    BY Reported DEF LockPages, Require
  <1>2. g.model[g.target] = "LOCK_PAGES"
    BY <1>1 DEF Kept
  <1>3. QED
    BY <1>1, <1>2 DEF LockPages, Require

LEMMA ExclusionsKept ==
    ASSUME NEW h, NEW g, Kept(h, g), NEW r \in DefenderExclusions(h, FALSE), r.result = "pass"
    PROVE  r \in DefenderExclusions(g, FALSE)
  <1> DEFINE missing(x) == {FolderPath(f) : f \in x.files} \ x.exclusions
  <1>1. h.defender /\ g.defender = h.defender /\ g.files = h.files
    BY DEF DefenderExclusions, Kept, Rest
  <1>2. r = Require("7.1", "paths", missing(h) = {})
    BY <1>1 DEF DefenderExclusions
  <1>3. missing(h) = {}
    BY <1>2, Reported DEF Require
  <1>4. missing(g) = {}
    BY <1>1, <1>3 DEF Kept
  <1>5. r = Require("7.1", "paths", missing(g) = {})
    BY <1>2, <1>3, <1>4 DEF Require
  <1>6. QED
    BY <1>1, <1>5 DEF DefenderExclusions

\* Check 4.1 says one thing of a host.
MemoryPasses(h) ==
    h.maxMem # Unlimited /\ MaxMemGB(h) \in RecommendedMax(h) - 400 .. RecommendedMax(h)

LEMMA MemoryResult ==
    ASSUME NEW h
    PROVE  /\ MemoryPasses(h) => MaxServerMemory(h) = {Pass("4.1", "memory")}
           /\ \A r \in MaxServerMemory(h) :
                 /\ r.check = "4.1"
                 /\ r.result = "pass" => MemoryPasses(h) /\ r = Pass("4.1", "memory")
  BY Reported DEF MaxServerMemory, MemoryPasses

LEMMA MemoryKept ==
    ASSUME NEW h, NEW g, Kept(h, g), NEW r \in MaxServerMemory(h), r.result = "pass",
           g.maxMem = h.maxMem \/ MemoryPasses(g)
    PROVE  r \in MaxServerMemory(g)
  <1>1. MemoryPasses(h) /\ r = Pass("4.1", "memory")
    BY MemoryResult
  <1>2. MemoryPasses(g)
    BY <1>1 DEF MemoryPasses, MaxMemGB, RecommendedMax, Kept, Rest
  <1>3. QED
    BY <1>1, <1>2, MemoryResult

\* The results, by check.
LEMMA InResults ==
    ASSUME NEW h, NEW r
    PROVE  r \in Results(h, FALSE) <=>
              \/ r \in AllocationUnitSize(h) \/ r \in Compression(h) \/ r \in Indexing(h)
              \/ r \in WriteCache(h) \/ r \in SectorSize(h) \/ r \in TempdbLocation(h)
              \/ r \in TempdbFileCount(h) \/ r \in TempdbFileSizes(h)
              \/ r \in LogSeparation(h) \/ r \in Autogrowth(h) \/ r \in MaxServerMemory(h)
              \/ r \in LockPages(h) \/ r \in InstantFileInitialization(h)
              \/ r \in VirtualLogFiles(h) \/ r \in PowerPlan(h) \/ r \in PageFile(h)
              \/ r \in DefenderExclusions(h, FALSE)
  BY DEF Results

LEMMA PassesKept ==
    ASSUME NEW h, NEW g, Kept(h, g), NEW r \in PassedChecks(h),
           \/ g.maxMem = h.maxMem \/ MemoryPasses(g) \/ r.check # "4.1"
    PROVE  r \in PassedChecks(g)
  <1>1. r \in Results(h, FALSE) /\ r.result = "pass"
    BY DEF PassedChecks
  <1>2. r \in Results(g, FALSE)
    <2>1. Rest(h, g)
      BY DEF Kept
    <2>2. CASE r \in AllocationUnitSize(h) \/ r \in Compression(h) \/ r \in Indexing(h)
      BY <1>1, <2>2, StorageKept, InResults
    <2>3. CASE r \in LockPages(h)
      BY <1>1, <2>3, LockPagesKept, InResults
    <2>4. CASE r \in DefenderExclusions(h, FALSE)
      BY <1>1, <2>4, ExclusionsKept, InResults
    <2>5. CASE r \in MaxServerMemory(h)
      <3>1. g.maxMem = h.maxMem \/ MemoryPasses(g)
        BY <2>5, MemoryResult
      <3>2. r \in MaxServerMemory(g)
        BY <1>1, <2>5, <3>1, MemoryKept
      <3>3. QED
        BY <3>2, InResults
    <2>6. CASE r \in WriteCache(h) \/ r \in SectorSize(h) \/ r \in TempdbLocation(h)
               \/ r \in TempdbFileCount(h) \/ r \in TempdbFileSizes(h)
      BY <2>1, <2>6, SameChecks, InResults
    <2>7. CASE r \in LogSeparation(h) \/ r \in Autogrowth(h)
               \/ r \in InstantFileInitialization(h) \/ r \in VirtualLogFiles(h)
               \/ r \in PowerPlan(h) \/ r \in PageFile(h)
      BY <2>1, <2>7, SameChecks, InResults
    <2>8. QED
      BY <1>1, <2>2, <2>3, <2>4, <2>5, <2>6, <2>7, InResults
  <1>3. QED
    BY <1>1, <1>2 DEF PassedChecks

\* Where the two scripts reserve the same, the value of Fix 1 passes check 4.1.
LEMMA RecommendedPasses ==
    ASSUME NEW h, IsHost(h), ReserveAgrees(h), h.maxMem = Recommended(h.ram)
    PROVE  MemoryPasses(h)
  <1> DEFINE n == h.ram
             m == h.maxMem
  <1>1. n \in Nat /\ m \in Nat /\ (n <= 40 \/ n % 10 = 0)
    BY DEF IsHost, ReserveAgrees
  <1>2. m = n * 1024 - Larger(4096, CeilDiv(n * 1024, 10))
    BY DEF Recommended
  <1> SUFFICES /\ m # 2147483647
               /\ (200 * m + 1024) \div 2048 = 100 * (n - Larger(4, CeilDiv(n, 10)))
    BY <1>1 DEF MemoryPasses, MaxMemGB, RecommendedMax, Unlimited, Larger, CeilDiv
  <1> HIDE DEF n, m
  <1>3. CASE n <= 40
    <2>1. Larger(4096, CeilDiv(n * 1024, 10)) = 4096
      BY <1>1, <1>3 DEF Larger, CeilDiv
    <2>2. Larger(4, CeilDiv(n, 10)) = 4
      BY <1>1, <1>3 DEF Larger, CeilDiv
    <2>3. m = 1024 * (n - 4)
      BY <1>1, <1>2, <2>1
    <2>4. QED
      BY <1>1, <1>3, <2>2, <2>3
  <1>4. CASE n > 40 /\ n % 10 = 0
    <2> DEFINE k == n \div 10
    <2>1. k \in Nat /\ n = 10 * k /\ k > 4
      BY <1>1, <1>4
    <2> HIDE DEF k
    <2>2. CeilDiv(n * 1024, 10) = 1024 * k /\ CeilDiv(n, 10) = k
      BY <2>1 DEF CeilDiv
    <2>3. Larger(4096, 1024 * k) = 1024 * k /\ Larger(4, k) = k
      BY <2>1 DEF Larger
    <2>4. m = 9216 * k
      BY <1>2, <2>1, <2>2, <2>3
    <2>5. (200 * m + 1024) \div 2048 = 900 * k
      BY <2>1, <2>4
    <2>6. QED
      BY <2>1, <2>2, <2>3, <2>4, <2>5
  <1>5. QED
    BY <1>1, <1>3, <1>4

\* The value of Fix 1 is chosen when the run starts.
LEMMA WantKept ==
    ASSUME TypeOK, [Next]_vars
    PROVE  \/ UNCHANGED vars
           \/ \E whatIf \in BOOLEAN, arg \in MemoryArgs : Start(whatIf, arg)
           \/ /\ UNCHANGED before
              /\ ~ At("end")
              /\ fix'.want = fix.want \/ fix'.at = "end"
  <1>1. fix = [at |-> fix.at, whatIf |-> fix.whatIf, want |-> fix.want, todo |-> fix.todo]
    BY TypeParts
  <1>2. ASSUME NEW place, NEW todo,
               \/ fix' = [fix EXCEPT !.at = place]
               \/ fix' = [fix EXCEPT !.todo = todo]
               \/ fix' = [fix EXCEPT !.at = place, !.todo = todo]
        PROVE  fix'.want = fix.want
    BY <1>1, <1>2
  <1>3. ASSUME NEW place, GoTo(place) PROVE fix'.want = fix.want
    BY <1>2, <1>3 DEF GoTo
  <1>4. CASE FixMemory
    BY <1>3, <1>4 DEF FixMemory, At, Same
  <1>5. CASE FixUnreadMemory
    BY <1>3, <1>5 DEF FixUnreadMemory, At, Same
  <1>6. CASE CheckLockPages
    BY <1>3, <1>6 DEF CheckLockPages, At, Same
  <1>7. CASE GrantLockPages
    BY <1>3, <1>7 DEF GrantLockPages, At, Same
  <1>8. CASE RestartService
    BY <1>3, <1>8 DEF RestartService, At, Same
  <1>9. CASE ReadExclusions
    <2>1. \/ GoTo("indexing")
          \/ \E place, todo : fix' = [fix EXCEPT !.at = place, !.todo = todo]
      BY <1>9 DEF ReadExclusions
    <2>2. UNCHANGED before /\ fix.at = "defender"
      BY <1>9 DEF ReadExclusions, At, Same
    <2>3. fix'.want = fix.want
      BY <1>2, <1>3, <2>1
    <2>4. QED
      BY <2>2, <2>3 DEF At
  <1>10. CASE AddExclusion
    <2>1. \E todo : fix' = [fix EXCEPT !.todo = todo]
      BY <1>10 DEF AddExclusion
    <2>2. QED
      BY <1>2, <1>10, <2>1 DEF AddExclusion, At, Same
  <1>11. CASE ExcludeExe
    BY <1>3, <1>11 DEF ExcludeExe, At, Same
  <1>12. CASE ReadVolumes
    <2>1. \/ GoTo("summary")
          \/ fix' = [fix EXCEPT !.at = "summary"]
          \/ fix' = [fix EXCEPT !.at = "disable", !.todo = Indexed(host)]
      BY <1>12 DEF ReadVolumes
    <2>2. UNCHANGED before /\ fix.at = "indexing"
      BY <1>12 DEF ReadVolumes, At, Same
    <2>3. fix'.want = fix.want
      BY <1>2, <1>3, <2>1
    <2>4. QED
      BY <2>2, <2>3 DEF At
  <1>13. CASE DisableIndexing
    <2>1. \E todo : fix' = [fix EXCEPT !.todo = todo]
      BY <1>13 DEF DisableIndexing
    <2>2. QED
      BY <1>2, <1>13, <2>1 DEF DisableIndexing, At, Same
  <1>14. CASE Summary
    BY <1>14 DEF Summary, At, Same, NotRunning
  <1>15. QED
    BY <1>4, <1>5, <1>6, <1>7, <1>8, <1>9, <1>10, <1>11, <1>12, <1>13, <1>14
       DEF Next, Ended

LEMMA BeforeStart ==
    ASSUME TypeOK, NEW whatIf \in BOOLEAN, NEW arg \in MemoryArgs, Start(whatIf, arg)
    PROVE  BeforeInv'
  <1>1. UNCHANGED <<host, pending>>
    BY DEF Start
  <1>2. before' = {r \in PassedChecks(host) : (arg = 0 /\ pending = 0) \/ r.check # "4.1"}
    BY DEF Start
  <1> DEFINE recommended == Recommended(host.ram)
             want == IF arg = 0 THEN recommended ELSE arg
  <1>3. fix' = [at |-> "memory", whatIf |-> whatIf, todo |-> {}, want |-> want]
    BY DEF Start
  <1>4. arg = 0 => want = recommended
    OBVIOUS
  <1> HIDE DEF want
  <1>5. arg = 0 => fix'.want = recommended
    BY <1>3, <1>4
  <1>6. ASSUME NEW r \in before'
        PROVE  /\ r \in PassedChecks(host')
               /\ r.check = "4.1" => fix'.want = Recommended(host'.ram) /\ pending' = 0
    BY <1>1, <1>2, <1>5, <1>6
  <1>7. QED
    BY <1>6 DEF BeforeInv

LEMMA BeforeStep ==
    ASSUME TypeOK, HostStep, PendingStep, BeforeInv, UNCHANGED before, ~ At("end"),
           fix'.want = fix.want \/ fix'.at = "end"
    PROVE  BeforeInv'
  <1>1. IsHost(host') /\ Kept(host, host') /\ host'.ram = host.ram
    BY KeptPlaces DEF HostStep
  <1>2. ReserveAgrees(host') <=> ReserveAgrees(host)
    BY <1>1 DEF ReserveAgrees
  <1>3. ASSUME NEW r \in before
        PROVE  /\ r \in PassedChecks(host') \/ (r.check = "4.1" /\ ~ ReserveAgrees(host'))
               /\ r.check = "4.1" /\ fix'.at # "end" =>
                     fix'.want = Recommended(host'.ram) /\ pending' \in {0, fix'.want}
    <2>1. r \in PassedChecks(host) \/ (r.check = "4.1" /\ ~ ReserveAgrees(host))
      BY DEF BeforeInv
    <2>2. r.check = "4.1" => fix.want = Recommended(host.ram) /\ pending \in {0, fix.want}
      BY DEF BeforeInv
    <2>3. ASSUME r \in PassedChecks(host), ~ (r.check = "4.1" /\ ~ ReserveAgrees(host))
          PROVE  r \in PassedChecks(host')
      <3>1. \/ host'.maxMem = host.maxMem \/ r.check # "4.1"
            \/ host'.maxMem = Recommended(host'.ram) /\ ReserveAgrees(host')
        BY <1>1, <1>2, <2>2, <2>3 DEF HostStep
      <3>2. \/ host'.maxMem = host.maxMem \/ MemoryPasses(host') \/ r.check # "4.1"
        BY <1>1, <3>1, RecommendedPasses
      <3>3. QED
        BY <1>1, <2>3, <3>2, PassesKept
    <2>4. QED
      BY <1>1, <1>2, <2>1, <2>2, <2>3 DEF PendingStep
  <1>4. QED
    BY <1>3 DEF BeforeInv, At

LEMMA BeforeNext == TypeOK /\ BeforeInv /\ [Next]_vars => BeforeInv'
  <1> SUFFICES ASSUME TypeOK, BeforeInv, [Next]_vars PROVE BeforeInv'
    OBVIOUS
  <1>1. HostStep /\ PendingStep
    BY StepOfHost, StepOfPending
  <1>2. CASE UNCHANGED vars
    BY <1>2 DEF vars, BeforeInv, At
  <1>3. QED
    BY <1>1, <1>2, WantKept, BeforeStart, BeforeStep

LEMMA BeforeInit == Init => BeforeInv
  BY DEF Init, BeforeInv

\* A run never takes away a check that passed when it began, whatever fails and
\* whatever the operator answers.
THEOREM RunsTakeNothingAway == Spec => []NeverWorse
  <1>1. BeforeInv => NeverWorse
    BY DEF BeforeInv, NeverWorse
  <1>2. QED
    BY <1>1, TypeInit, TypeNext, BeforeInit, BeforeNext, PTL DEF Spec

-----------------------------------------------------------------------------
(* What a clean run did is what the validation looks for.                  *)

LEMMA OtherChecks ==
    ASSUME NEW h, NEW r,
           \/ r \in AllocationUnitSize(h) \/ r \in Compression(h)
           \/ r \in WriteCache(h) \/ r \in SectorSize(h) \/ r \in TempdbLocation(h)
           \/ r \in TempdbFileCount(h) \/ r \in TempdbFileSizes(h)
           \/ r \in LogSeparation(h) \/ r \in Autogrowth(h)
           \/ r \in InstantFileInitialization(h)
           \/ r \in VirtualLogFiles(h) \/ r \in PowerPlan(h) \/ r \in PageFile(h)
    PROVE  r.check \notin Fixed
  <1>1. CASE r \in AllocationUnitSize(h) \/ r \in Compression(h)
    <2>1. r.check = "1.1" \/ r.check = "1.2"
      BY <1>1, Reported DEF AllocationUnitSize, Compression, VolumeCheck, Require
    <2>2. QED
      BY <2>1 DEF Fixed
  <1>2. CASE r \in WriteCache(h) \/ r \in SectorSize(h)
    <2>1. r.check = "1.4" \/ r.check = "1.5"
      BY <1>2, Reported DEF WriteCache, SectorSize
    <2>2. QED
      BY <2>1 DEF Fixed
  <1>3. CASE r \in TempdbLocation(h) \/ r \in TempdbFileCount(h) \/ r \in TempdbFileSizes(h)
    <2>1. r.check = "2.1" \/ r.check = "2.2" \/ r.check = "2.3"
      BY <1>3, Reported DEF TempdbLocation, TempdbFileCount, TempdbFileSizes, Require
    <2>2. QED
      BY <2>1 DEF Fixed
  <1>4. CASE r \in LogSeparation(h) \/ r \in Autogrowth(h)
    <2>1. r.check = "3.1" \/ r.check = "3.2"
      BY <1>4, Reported DEF LogSeparation, Autogrowth, Require
    <2>2. QED
      BY <2>1 DEF Fixed
  <1>5. CASE r \in InstantFileInitialization(h) \/ r \in VirtualLogFiles(h)
    <2>1. r.check = "4.3" \/ r.check = "5.1"
      BY <1>5, Reported DEF InstantFileInitialization, VirtualLogFiles, Require
    <2>2. QED
      BY <2>1 DEF Fixed
  <1>6. CASE r \in PowerPlan(h) \/ r \in PageFile(h)
    <2>1. r.check = "6.1" \/ r.check = "6.2"
      BY <1>6, Reported DEF PowerPlan, PageFile, Require
    <2>2. QED
      BY <2>1 DEF Fixed
  <1>7. QED
    BY <1>1, <1>2, <1>3, <1>4, <1>5, <1>6

LEMMA TunedPasses ==
    ASSUME NEW h, IsHost(h), Tuned(h), Standard(h)
    PROVE  Passes(h, Fixed)
  <1> SUFFICES ASSUME NEW r \in Results(h, FALSE), r.check \in Fixed
               PROVE  r.result = "pass"
    BY DEF Passes
  <1>1. CASE r \in Indexing(h)
    <2>1. \A v \in SqlVolumes(h) : v \in {w \in SqlVolumes(h) : ~ h.volumes[w].indexing}
      BY DEF Tuned, Indexed
    <2>2. PICK v \in SqlVolumes(h) :
              r = Require("1.3", v, v \in {w \in SqlVolumes(h) : ~ h.volumes[w].indexing})
      BY <1>1 DEF Indexing, VolumeCheck, Standard
    <2>3. QED
      BY <2>1, <2>2, Reported DEF Require
  <1>2. CASE r \in MaxServerMemory(h)
    <2>1. MemoryPasses(h)
      BY RecommendedPasses DEF Tuned, Standard
    <2>2. QED
      BY <1>2, <2>1, MemoryResult, Reported
  <1>3. CASE r \in LockPages(h)
    BY <1>3, Reported DEF LockPages, Require, Tuned
  <1>4. CASE r \in DefenderExclusions(h, FALSE)
    <2>1. \A f \in h.files : FolderPath(f) = f.folder
      <3> SUFFICES ASSUME NEW f \in h.files PROVE FolderPath(f) = f.folder
        OBVIOUS
      <3>1. f.folder \in Seq(STRING) /\ Len(f.folder) = 2
        BY DEF IsHost, Standard
      <3>2. QED
        BY <3>1 DEF FolderPath
    <2> DEFINE missing == {FolderPath(f) : f \in h.files} \ h.exclusions
    <2>2. h.defender
      BY <1>4 DEF DefenderExclusions
    <2>3. missing = {}
      BY <2>1, <2>2 DEF Tuned, Excluded, SqlFolders
    <2>4. r = Require("7.1", "paths", missing = {})
      BY <1>4, <2>2 DEF DefenderExclusions
    <2>5. QED
      BY <2>3, <2>4, Reported DEF Require
  <1>5. QED
    BY <1>1, <1>2, <1>3, <1>4, InResults, OtherChecks

\* After a clean run the validation passes what the script is about, on a standard
\* host.
THEOREM FixesPass == Spec => []AppliedFixesPass
  <1>1. TypeOK /\ SettledInv => AppliedFixesPass
    <2> SUFFICES ASSUME TypeOK, SettledInv, settled, Standard(host)
                 PROVE  Passes(host, Fixed)
      BY DEF AppliedFixesPass
    <2>1. IsHost(host)
      BY TypeParts
    <2>2. Tuned(host)
      BY DEF SettledInv, Standard
    <2>3. QED
      BY <2>1, <2>2, TunedPasses
  <1>2. QED
    BY <1>1, TypeInit, TypeNext, CleanInit, CleanNext, SettledInit, SettledNext, PTL DEF Spec

-----------------------------------------------------------------------------
(* What the verdict means.                                                 *)

LEMMA ExcellentResults ==
    ASSUME NEW h, NEW results, Verdict(results) = "excellent", NEW r \in results
    PROVE  r.result # "fail" /\ r.result # "warn"
  BY DEF Verdict

\* But for check 4.3 no check fails.
LEMMA NothingFails ==
    ASSUME VerdictBut43 = "excellent", NEW check, NEW on, check # "4.3"
    PROVE  /\ Fail(check, on) \notin Results(host, FALSE)
           /\ Warn(check, on) \notin Results(host, FALSE)
  <1> DEFINE but43 == {q \in Results(host, FALSE) : q.check # "4.3"}
  <1>1. Verdict(but43) = "excellent"
    BY DEF VerdictBut43
  <1> HIDE DEF but43
  <1>2. \A r \in but43 : r.result # "fail" /\ r.result # "warn"
    BY <1>1, ExcellentResults
  <1>3. Fail(check, on) \notin but43 /\ Warn(check, on) \notin but43
    BY <1>2, Reported
  <1>4. Fail(check, on).check = check /\ Warn(check, on).check = check
    BY Reported
  <1> DEFINE failed == Fail(check, on)
             warned == Warn(check, on)
  <1>5. failed \notin but43 /\ warned \notin but43
        /\ failed.check # "4.3" /\ warned.check # "4.3"
    BY <1>3, <1>4
  <1> HIDE DEF failed, warned
  <1>6. failed \notin Results(host, FALSE) /\ warned \notin Results(host, FALSE)
    BY <1>5 DEF but43
  <1>7. QED
    BY <1>6 DEF failed, warned

LEMMA MemoryLeft ==
    ASSUME NEW h, IsHost(h), MemoryPasses(h)
    PROVE  h.ram * 1024 - h.maxMem >= Larger(4096, CeilDiv(h.ram * 1024, 10)) - 6
  <1> DEFINE n == h.ram
             m == h.maxMem
             c == Larger(4, CeilDiv(n, 10))
  <1>1. n \in Nat /\ m \in Nat
    BY DEF IsHost
  <1>2. (200 * m + 1024) \div 2048 <= 100 * (n - c) /\ c \in Int
    BY <1>1 DEF MemoryPasses, MaxMemGB, RecommendedMax, Larger, CeilDiv
  <1>3. c >= 4 /\ 10 * c >= n
    BY <1>1 DEF Larger, CeilDiv
  <1> SUFFICES n * 1024 - m >= Larger(4096, CeilDiv(n * 1024, 10)) - 6
    OBVIOUS
  <1> HIDE DEF n, m, c
  <1>4. m <= 1024 * (n - c) + 6
    BY <1>1, <1>2
  <1>5. Larger(4096, CeilDiv(n * 1024, 10)) <= 1024 * c
    BY <1>1, <1>2, <1>3 DEF Larger, CeilDiv
  <1>6. Larger(4096, CeilDiv(n * 1024, 10)) \in Int
    BY <1>1 DEF Larger, CeilDiv
  <1>7. QED
    BY <1>1, <1>2, <1>4, <1>5, <1>6

LEMMA LongerThanOne ==
    ASSUME NEW S, NEW s \in Seq(S), Len(s) >= 1, Len(s) # 1
    PROVE  2 <= Len(s)
  <1> DEFINE n == Len(s)
  <1>1. n \in Nat /\ n >= 1 /\ n # 1
    BY LenProperties
  <1> HIDE DEF n
  <1>2. 2 <= n
    BY <1>1
  <1>3. QED
    BY <1>2 DEF n

LEMMA ExclusionCovers ==
    ASSUME NEW h, IsHost(h), NEW f \in h.files
    PROVE  Under(FolderPath(f), f.folder)
  <1>1. f.folder \in Seq(STRING) /\ Len(f.folder) >= 1
    BY DEF IsHost
  <1>2. ASSUME NEW k, k = 0 \/ k = 2, k <= Len(f.folder),
               FolderPath(f) = SubSeq(f.folder, 1, k)
        PROVE  Under(FolderPath(f), f.folder)
    <2>1. Len(FolderPath(f)) = k
      BY <1>1, <1>2
    <2>2. QED
      BY <1>2, <2>1 DEF Under
  <1>3. CASE Len(f.folder) = 1
    <2>1. FolderPath(f) = SubSeq(f.folder, 1, 0)
      BY <1>3 DEF FolderPath
    <2>2. 0 <= Len(f.folder)
      BY <1>3
    <2>3. QED
      BY <1>2, <2>1, <2>2
  <1>4. CASE Len(f.folder) # 1
    <2>1. FolderPath(f) = SubSeq(f.folder, 1, 2)
      BY <1>4 DEF FolderPath
    <2>2. 2 <= Len(f.folder)
      BY <1>1, <1>4, LongerThanOne
    <2>3. QED
      BY <1>2, <2>1, <2>2
  <1>5. QED
    BY <1>3, <1>4

LEMMA ExcellentHost ==
    ASSUME TypeOK
    PROVE  ExcellentMeansTuned
  <1> SUFFICES ASSUME VerdictBut43 = "excellent"
               PROVE  /\ host.ram * 1024 - host.maxMem
                           >= Larger(4096, CeilDiv(host.ram * 1024, 10)) - 6
                      /\ host.defender =>
                            \A f \in host.files : \E e \in host.exclusions : Under(e, f.folder)
                      /\ \A db \in UserDatabases(host) :
                            Cardinality(DriveSet(host, db, "ROWS")) = 1
                            /\ Cardinality(DriveSet(host, db, "LOG")) = 1
                              => DriveSet(host, db, "ROWS") # DriveSet(host, db, "LOG")
    BY DEF ExcellentMeansTuned
  <1>1. IsHost(host)
    BY TypeParts
  <1>2. MemoryPasses(host)
    <2>1. /\ Fail("4.1", "memory") \notin Results(host, FALSE)
          /\ Warn("4.1", "memory") \notin Results(host, FALSE)
      BY NothingFails
    <2>2. /\ Fail("4.1", "memory") \notin MaxServerMemory(host)
          /\ Warn("4.1", "memory") \notin MaxServerMemory(host)
      BY <2>1, InResults
    <2>3. QED
      BY <2>2 DEF MaxServerMemory, MemoryPasses
  <1>3. ASSUME host.defender, NEW f \in host.files
        PROVE  \E e \in host.exclusions : Under(e, f.folder)
    <2> DEFINE missing == {FolderPath(g) : g \in host.files} \ host.exclusions
    <2>1. missing # {} => Fail("7.1", "paths") \in DefenderExclusions(host, FALSE)
      BY <1>3 DEF DefenderExclusions, Require
    <2>2. Fail("7.1", "paths") \notin DefenderExclusions(host, FALSE)
      BY NothingFails, InResults
    <2>3. FolderPath(f) \in host.exclusions
      BY <2>1, <2>2
    <2>4. QED
      BY <1>1, <2>3, ExclusionCovers
  <1>4. ASSUME NEW db \in UserDatabases(host)
        PROVE  NotEqual(DriveSet(host, db, "ROWS"), DriveSet(host, db, "LOG"))
    <2>1. ~ NotEqual(DriveSet(host, db, "ROWS"), DriveSet(host, db, "LOG"))
            => Fail("3.1", db) \in LogSeparation(host)
      BY DEF LogSeparation, Require
    <2>2. Fail("3.1", db) \notin LogSeparation(host)
      BY NothingFails, InResults
    <2>3. QED
      BY <2>1, <2>2
  <1>5. QED
    BY <1>1, <1>2, <1>3, <1>4, MemoryLeft DEF NotEqual

\* The verdict "excellent" is given only to a host that is.
THEOREM ExcellentIsTuned == Spec => []ExcellentMeansTuned
  BY ExcellentHost, TypeInit, TypeNext, PTL DEF Spec

-----------------------------------------------------------------------------
(* The validation of a virtual machine with Ultra Disks. It shares nothing *)
(* with the scripts above but their directory.                             *)

\* What az answers for a machine, in the terms of the loops.
LEMMA MachineShape ==
    ASSUME NEW m, IsMachine(m)
    PROVE  /\ Len(m.disks) \in Nat /\ DOMAIN m.disks = 1 .. Len(m.disks)
           /\ Len(m.nics) \in Nat /\ DOMAIN m.nics = 1 .. Len(m.nics)
           /\ \A k \in DOMAIN m.disks : m.disks[k].lun \in Nat
  BY DEF IsMachine, IsSequence

LEMMA VmTypeInit == VmInit => VmTypeOK
  <1> SUFFICES ASSUME VmInit PROVE VmTypeOK
    OBVIOUS
  <1>1. MaxAzFailures \in Nat /\ IsMachine(vm)
    BY ValidationAssumption DEF VmInit
  <1>2. azFailures \in 0 .. MaxAzFailures /\ fail \in Nat /\ warn \in Nat /\ nth \in Nat \ {0}
    BY <1>1 DEF VmInit
  <1>3. pc \in VmPlaces /\ ultra \subseteq Disks
    BY DEF VmInit, VmPlaces
  <1>4. accelerated \in BOOLEAN /\ osKnown \in BOOLEAN
    BY DEF VmInit
  <1>5. QED
    BY <1>1, <1>2, <1>3, <1>4 DEF VmTypeOK

LEMMA VmTypeNext == VmTypeOK /\ [VmNext]_vmVars => VmTypeOK'
  <1> SUFFICES ASSUME VmTypeOK, [VmNext]_vmVars
               PROVE  VmTypeOK'
    OBVIOUS
  <1>1. MaxAzFailures \in Nat
    BY ValidationAssumption
  <1>2. AzAnswers \/ AzFails \/ UNCHANGED azFailures => azFailures' \in 0 .. MaxAzFailures
    BY <1>1 DEF AzAnswers, AzFails, VmTypeOK
  <1>3. Len(vm.disks) \in Nat /\ Len(vm.nics) \in Nat
    BY MachineShape DEF VmTypeOK
  <1>4. CASE UNCHANGED vmVars
    BY <1>4 DEF vmVars, VmTypeOK, Disks
  <1>5. CASE SetAccount
    BY <1>2, <1>5 DEF SetAccount, Abort, Goto, VmTypeOK, VmPlaces, Disks
  <1>6. CASE ShowMachine
    BY <1>2, <1>6 DEF ShowMachine, Abort, Goto, VmTypeOK, VmPlaces, Disks
  <1>7. CASE CheckSizeAndZone
    BY <1>2, <1>7
       DEF CheckSizeAndZone, Goto, Score, Count, VmTypeOK, VmPlaces,
           Disks
  <1>8. CASE CheckNic
    <2>1. accelerated' \in BOOLEAN
      <3>1. vm.nics[nth] \in BOOLEAN
        BY <1>8 DEF CheckNic, VmTypeOK, IsMachine
      <3>2. accelerated' = vm.nics[nth] \/ accelerated' = FALSE
        BY <1>8 DEF CheckNic
      <3>3. QED
        BY <3>1, <3>2
    <2>2. warn' \in Nat
      BY <1>8 DEF CheckNic, VmTypeOK
    <2>3. nth' \in Nat \ {0}
      <3>1. nth' = nth + 1 \/ nth' = Len(vm.nics) + 1
        BY <1>8 DEF CheckNic
      <3>2. nth \in Nat
        BY DEF VmTypeOK
      <3>3. QED
        BY <1>3, <3>1, <3>2
    <2>4. azFailures' \in 0 .. MaxAzFailures
      BY <1>2, <1>8 DEF CheckNic
    <2>5. UNCHANGED <<vm, pc, fail, ultra, osKnown>>
      BY <1>8 DEF CheckNic
    <2>6. QED
      BY <2>1, <2>2, <2>3, <2>4, <2>5 DEF VmTypeOK, Disks
  <1>9. CASE CheckAcceleratedNetworking
    BY <1>2, <1>9
       DEF CheckAcceleratedNetworking, Goto, Score, Count, VmTypeOK,
           VmPlaces, Disks
  <1>10. CASE CollectDisk
    <2>1. nth \in Disks /\ ultra \subseteq Disks
          /\ (ultra' = ultra \union {nth} \/ ultra' = ultra)
      BY <1>10 DEF CollectDisk, VmTypeOK
    <2>2. ultra' \subseteq Disks
      BY <2>1
    <2>3. warn' \in Nat /\ nth' \in Nat \ {0}
      BY <1>10 DEF CollectDisk, VmTypeOK
    <2>4. azFailures' \in 0 .. MaxAzFailures
      BY <1>2, <1>10 DEF CollectDisk
    <2>5. UNCHANGED <<vm, pc, fail, accelerated, osKnown>>
      BY <1>10 DEF CollectDisk
    <2>6. QED
      BY <2>2, <2>3, <2>4, <2>5 DEF VmTypeOK, Disks
  <1>11. CASE CountNoDisks
    BY <1>2, <1>11 DEF CountNoDisks, Abort, Goto, VmTypeOK, VmPlaces, Disks
  <1>12. CASE CheckUltraAttached
    BY <1>2, <1>12
       DEF CheckUltraAttached, Goto, Score, Count, VmTypeOK, VmPlaces,
           Disks
  <1>13. CASE CheckUltraDisk
    BY <1>2, <1>13 DEF CheckUltraDisk, Score, Count, VmTypeOK, Disks
  <1>14. CASE CheckCaching
    BY <1>2, <1>14 DEF CheckCaching, Score, Count, VmTypeOK, Disks
  <1>15. CASE NextCheck("ultra", "caching") \/ NextCheck("caching", "os")
    BY <1>2, <1>15 DEF NextCheck, Goto, VmTypeOK, VmPlaces, Disks
  <1>16. CASE CheckOsDisk
    <2>1. fail' \in Nat /\ warn' \in Nat
      BY <1>16 DEF CheckOsDisk, Score, Count, VmTypeOK
    <2>2. pc' \in VmPlaces /\ nth' \in Nat \ {0}
      BY <1>16 DEF CheckOsDisk, Goto, VmPlaces
    <2>3. osKnown' \in BOOLEAN /\ azFailures' \in 0 .. MaxAzFailures
      BY <1>2, <1>16 DEF CheckOsDisk
    <2>4. UNCHANGED <<vm, ultra, accelerated>>
      BY <1>16 DEF CheckOsDisk
    <2>5. QED
      BY <2>1, <2>2, <2>3, <2>4 DEF VmTypeOK, Disks
  <1>17. CASE CheckOsZone
    BY <1>2, <1>17
       DEF CheckOsZone, Goto, Score, Count, VmTypeOK, VmPlaces, Disks
  <1>18. CASE CheckDiskZone
    BY <1>2, <1>18 DEF CheckDiskZone, Score, Count, VmTypeOK, Disks
  <1>19. CASE CheckZoneAlignment
    BY <1>2, <1>19 DEF CheckZoneAlignment, Goto, VmTypeOK, VmPlaces, Disks
  <1>20. CASE CheckLayout
    <2>1. fail' \in Nat /\ warn' \in Nat
      BY <1>20 DEF CheckLayout, Score, Count, VmTypeOK
    <2>2. pc' \in VmPlaces /\ nth' \in Nat \ {0}
      BY <1>20 DEF CheckLayout, Goto, VmPlaces
    <2>3. UNCHANGED <<vm, ultra, accelerated, osKnown, azFailures>>
      BY <1>20 DEF CheckLayout
    <2>4. QED
      BY <2>1, <2>2, <2>3 DEF VmTypeOK, Disks
  <1>21. QED
    BY <1>4, <1>5, <1>6, <1>7, <1>8, <1>9, <1>10, <1>11, <1>12, <1>13, <1>14, <1>15,
       <1>16, <1>17, <1>18, <1>19, <1>20
       DEF VmNext, VmEnded

\* The units of the disks are 0, 1, 2, ... when no two disks share one and none lies
\* beyond.
LEMMA Units ==
    ASSUME VmTypeOK
    PROVE  LunsSequential <=>
              /\ \A k \in Disks : vm.disks[k].lun < Len(vm.disks)
              /\ \A j, k \in Disks : vm.disks[j].lun = vm.disks[k].lun => j = k
  <1> DEFINE n == Len(vm.disks)
             T == 0 .. n - 1
             lun == [k \in Disks |-> vm.disks[k].lun]
  <1>1. n \in Nat /\ Disks = 1 .. n /\ \A k \in Disks : lun[k] \in Nat
    BY MachineShape DEF VmTypeOK, Disks
  <1>2. /\ IsFiniteSet(Disks) /\ Cardinality(Disks) = n
        /\ IsFiniteSet(T) /\ Cardinality(T) = n
    <2>1. IsFiniteSet(1 .. n) /\ Cardinality(1 .. n) = n
      BY <1>1, FS_Interval
    <2>2. IsFiniteSet(0 .. n - 1) /\ Cardinality(0 .. n - 1) = n
      <3> DEFINE last == n - 1
      <3>1. last \in Int /\ 0 \in Int /\ n = IF 0 > last THEN 0 ELSE last - 0 + 1
        BY <1>1
      <3> HIDE DEF last, n
      <3>2. IsFiniteSet(0 .. last) /\ Cardinality(0 .. last) = n
        <4>1. IsFiniteSet(0 .. last)
          BY <3>1, FS_Interval
        <4>2. Cardinality(0 .. last) = IF 0 > last THEN 0 ELSE last - 0 + 1
          BY <3>1, FS_Interval
        <4>3. QED
          BY <3>1, <4>1, <4>2
      <3>3. QED
        BY <3>2 DEF last
    <2>3. QED
      BY <1>1, <2>1, <2>2
  <1>3. LunsSequential <=> {lun[k] : k \in Disks} = T
    <2>1. {lun[k] : k \in Disks} = {vm.disks[k].lun : k \in Disks}
      OBVIOUS
    <2>2. LunsSequential <=> {vm.disks[k].lun : k \in Disks} = 0 .. n - 1
      BY DEF LunsSequential
    <2>3. QED
      BY <2>1, <2>2
  <1>4. \A k \in Disks : lun[k] = vm.disks[k].lun /\ (lun[k] < n <=> lun[k] \in T)
    BY <1>1
  <1>5. lun = [k \in Disks |-> lun[k]]
    OBVIOUS
  <1> HIDE DEF lun, T
  <1>6. ASSUME {lun[k] : k \in Disks} = T
        PROVE  /\ \A k \in Disks : lun[k] \in T
               /\ \A j, k \in Disks : lun[j] = lun[k] => j = k
    <2>1. lun \in Surjection(Disks, T)
      <3>1. \A k \in Disks : lun[k] \in T
        BY <1>6
      <3>2. \A t \in T : \E k \in Disks : lun[k] = t
        BY <1>6
      <3>3. lun \in [Disks -> T]
        BY <1>5, <3>1
      <3>4. QED
        BY <3>2, <3>3 DEF Surjection
    <2>2. lun \in Injection(Disks, T)
      BY <1>2, <2>1, FS_Surjection
    <2>3. QED
      BY <2>1, <2>2 DEF Injection, IsInjective, Surjection
  <1>7. ASSUME \A k \in Disks : lun[k] \in T,
               \A j, k \in Disks : lun[j] = lun[k] => j = k
        PROVE  {lun[k] : k \in Disks} = T
    <2>1. lun \in Injection(Disks, T)
      <3>1. lun \in [Disks -> T]
        BY <1>5, <1>7
      <3>2. QED
        BY <1>7, <3>1 DEF Injection, IsInjective
    <2>2. lun \in Surjection(Disks, T)
      BY <1>2, <2>1, FS_Injection
    <2>3. QED
      BY <1>7, <2>2 DEF Surjection
  <1>8. QED
    BY <1>3, <1>4, <1>6, <1>7

\* Where a place is in the order of the checks.
LEMMA Order ==
    ASSUME NEW p
    PROVE  /\ p \in {"account", "show", "size"} =>
                  p \notin AfterSize /\ p \notin AfterNics /\ p \notin AfterCollect
                  /\ p \notin AfterUltra /\ p \notin AfterCaching /\ p \notin AfterOs
                  /\ p \notin AfterOsZone /\ p \notin AfterZones /\ p \notin AfterCount
           /\ p = "nics" =>
                  p \in AfterSize /\ p \notin AfterNics /\ p \notin AfterCollect
                  /\ p \notin AfterUltra /\ p \notin AfterCaching /\ p \notin AfterOs
                  /\ p \notin AfterOsZone /\ p \notin AfterZones /\ p \notin AfterCount
           /\ p = "collect" =>
                  p \in AfterSize /\ p \in AfterNics /\ p \notin AfterCollect
                  /\ p \notin AfterUltra /\ p \notin AfterCaching /\ p \notin AfterOs
                  /\ p \notin AfterOsZone /\ p \notin AfterZones /\ p \notin AfterCount
           /\ p = "ultra" =>
                  p \in AfterSize /\ p \in AfterNics /\ p \in AfterCollect
                  /\ p \notin AfterUltra /\ p \notin AfterCaching /\ p \notin AfterOs
                  /\ p \notin AfterOsZone /\ p \notin AfterZones /\ p \notin AfterCount
           /\ p = "caching" =>
                  p \in AfterSize /\ p \in AfterNics /\ p \in AfterCollect
                  /\ p \in AfterUltra /\ p \notin AfterCaching /\ p \notin AfterOs
                  /\ p \notin AfterOsZone /\ p \notin AfterZones /\ p \notin AfterCount
           /\ p = "os" =>
                  p \in AfterSize /\ p \in AfterNics /\ p \in AfterCollect
                  /\ p \in AfterUltra /\ p \in AfterCaching /\ p \notin AfterOs
                  /\ p \notin AfterOsZone /\ p \notin AfterZones /\ p \notin AfterCount
           /\ p = "osZone" =>
                  p \in AfterSize /\ p \in AfterNics /\ p \in AfterCollect
                  /\ p \in AfterUltra /\ p \in AfterCaching /\ p \in AfterOs
                  /\ p \notin AfterOsZone /\ p \notin AfterZones /\ p \notin AfterCount
           /\ p = "zones" =>
                  p \in AfterSize /\ p \in AfterNics /\ p \in AfterCollect
                  /\ p \in AfterUltra /\ p \in AfterCaching /\ p \in AfterOs
                  /\ p \in AfterOsZone /\ p \notin AfterZones /\ p \notin AfterCount
           /\ p = "count" =>
                  p \in AfterSize /\ p \in AfterNics /\ p \in AfterCollect
                  /\ p \in AfterUltra /\ p \in AfterCaching /\ p \in AfterOs
                  /\ p \in AfterOsZone /\ p \in AfterZones /\ p \notin AfterCount
           /\ p = "summary" =>
                  p \in AfterSize /\ p \in AfterNics /\ p \in AfterCollect
                  /\ p \in AfterUltra /\ p \in AfterCaching /\ p \in AfterOs
                  /\ p \in AfterOsZone /\ p \in AfterZones /\ p \in AfterCount
  BY DEF AfterSize, AfterNics, AfterCollect, AfterUltra, AfterCaching,
         AfterOs, AfterOsZone, AfterZones, AfterCount

LEMMA FoundInit == VmInit => FoundInv
  BY Order DEF VmInit, FoundInv, Past

\* What the machine is does not change.
LEMMA SameMachine ==
    ASSUME UNCHANGED vm
    PROVE  /\ Disks' = Disks /\ UltraDisks' = UltraDisks
           /\ (LunsSequential' <=> LunsSequential)
           /\ (GoodOs' <=> GoodOs)
  BY DEF Disks, UltraDisks, LunsSequential, GoodOs

LEMMA FoundNic ==
    ASSUME VmTypeOK, FoundInv, CheckNic, fail' = 0, warn' = 0
    PROVE  FoundInv'
  <1>1. warn = 0 /\ fail = 0 /\ AzAnswers /\ accelerated' = vm.nics[nth]
    BY DEF CheckNic, VmTypeOK
  <1>2. pc = "nics" /\ pc' = "nics" /\ UNCHANGED <<vm, azFailures, ultra>>
    BY <1>1 DEF CheckNic, AzAnswers
  <1>3. /\ azFailures = 0 /\ vm.sizeSupported /\ vm.zone # NoZone
        /\ \A k \in Disks : k \notin ultra
    BY <1>1, <1>2, Order DEF FoundInv, Past
  <1>4. accelerated => \A k \in DOMAIN vm.nics : k < nth => vm.nics[k]
    BY <1>1, <1>2, Order DEF FoundInv, Past
  <1>5. nth \in DOMAIN vm.nics /\ nth' = IF accelerated' THEN nth + 1 ELSE Len(vm.nics) + 1
    BY DEF CheckNic
  <1>6. accelerated
    BY <1>1, <1>2, <1>5 DEF FoundInv
  <1>7. nth \in Nat /\ DOMAIN vm.nics = 1 .. Len(vm.nics) /\ Len(vm.nics) \in Nat
    BY MachineShape DEF VmTypeOK
  <1>8. accelerated' => \A k \in DOMAIN vm.nics : k < nth' => vm.nics[k]
    <2> SUFFICES ASSUME accelerated' PROVE \A k \in DOMAIN vm.nics : k < nth' => vm.nics[k]
      OBVIOUS
    <2>1. nth' = nth + 1 /\ vm.nics[nth]
      BY <1>1, <1>5
    <2>2. \A k \in DOMAIN vm.nics : k < nth' => k < nth \/ k = nth
      BY <1>7, <2>1
    <2>3. QED
      BY <1>4, <1>6, <2>1, <2>2
  <1>9. ~ accelerated' => nth' \notin DOMAIN vm.nics
    BY <1>5, <1>7
  <1>10. QED
    BY <1>2, <1>3, <1>8, <1>9, Order, SameMachine DEF FoundInv, Past

\* No element is left when the loop is over.
LEMMA LoopOver ==
    ASSUME VmTypeOK, nth \notin Disks
    PROVE  \A k \in Disks : k < nth
  <1>1. nth \in Nat \ {0} /\ Disks = 1 .. Len(vm.disks) /\ Len(vm.disks) \in Nat
    BY MachineShape DEF VmTypeOK, Disks
  <1>2. QED
    BY <1>1

LEMMA LoopNext ==
    ASSUME VmTypeOK, nth' = nth + 1
    PROVE  \A k \in Disks : k < nth' => k < nth \/ k = nth
  <1>1. nth \in Nat /\ Disks = 1 .. Len(vm.disks) /\ Len(vm.disks) \in Nat
    BY MachineShape DEF VmTypeOK, Disks
  <1>2. QED
    BY <1>1

LEMMA NicsOver ==
    ASSUME VmTypeOK, nth \notin DOMAIN vm.nics
    PROVE  \A k \in DOMAIN vm.nics : k < nth
  <1>1. /\ nth \in Nat \ {0} /\ DOMAIN vm.nics = 1 .. Len(vm.nics)
        /\ Len(vm.nics) \in Nat
    BY MachineShape DEF VmTypeOK
  <1>2. QED
    BY <1>1

\* The steps of the first section.
LEMMA FoundFirst ==
    ASSUME VmTypeOK, FoundInv,
           SetAccount \/ ShowMachine \/ CheckSizeAndZone \/ CheckAcceleratedNetworking,
           fail' = 0, warn' = 0, pc' # "aborted"
    PROVE  FoundInv'
  <1>1. CASE SetAccount \/ ShowMachine
    <2>1. /\ fail = 0 /\ warn = 0 /\ azFailures' = azFailures /\ pc # "aborted"
          /\ pc' \in {"show", "size"} /\ pc \in {"account", "show"}
          /\ UNCHANGED <<vm, ultra, accelerated>>
      BY <1>1 DEF SetAccount, ShowMachine, AzAnswers, Abort, Goto
    <2>2. azFailures = 0 /\ accelerated /\ \A k \in Disks : k \notin ultra
      BY <2>1, Order DEF FoundInv, Past
    <2>3. QED
      BY <2>1, <2>2, Order, SameMachine DEF FoundInv, Past
  <1>2. CASE CheckSizeAndZone
    <2>1. /\ fail = 0 /\ warn = 0 /\ vm.sizeSupported /\ vm.zone # NoZone
      <3>1. /\ fail = 0 /\ warn = 0
            /\ Count(~ vm.sizeSupported) = 0 /\ Count(vm.zone = NoZone) = 0
        BY <1>2 DEF CheckSizeAndZone, Score, Count, VmTypeOK
      <3>2. QED
        BY <3>1 DEF Count
    <2>2. /\ UNCHANGED <<vm, azFailures, accelerated, ultra>>
          /\ pc = "size" /\ pc' = "nics" /\ nth' = 1
      BY <1>2 DEF CheckSizeAndZone, Goto
    <2>3. azFailures = 0 /\ accelerated /\ \A k \in Disks : k \notin ultra
      BY <2>1, <2>2, Order DEF FoundInv, Past
    <2>4. \A k \in DOMAIN vm.nics : ~ (k < nth')
      BY <2>2, MachineShape DEF VmTypeOK
    <2>5. QED
      BY <2>1, <2>2, <2>3, <2>4, Order, SameMachine DEF FoundInv, Past
  <1>3. CASE CheckAcceleratedNetworking
    <2>1. /\ fail = 0 /\ warn = 0 /\ accelerated /\ pc = "nics" /\ pc' = "collect"
          /\ nth' = 1 /\ nth \notin DOMAIN vm.nics
          /\ UNCHANGED <<vm, azFailures, accelerated, ultra>>
      BY <1>3 DEF CheckAcceleratedNetworking, Score, Count, Goto, VmTypeOK
    <2>2. /\ azFailures = 0 /\ vm.sizeSupported /\ vm.zone # NoZone
          /\ \A k \in DOMAIN vm.nics : k < nth => vm.nics[k]
          /\ \A k \in Disks : k \notin ultra
      BY <2>1, Order DEF FoundInv, Past
    <2>3. \A k \in DOMAIN vm.nics : vm.nics[k]
      BY <2>1, <2>2, NicsOver
    <2>4. \A k \in Disks : ~ (k < nth')
      BY <2>1, MachineShape DEF VmTypeOK, Disks
    <2>5. QED
      BY <2>1, <2>2, <2>3, <2>4, Order, SameMachine DEF FoundInv, Past
  <1>4. QED
    BY <1>1, <1>2, <1>3

\* What each part of the script leaves behind.
Section1 ==
    /\ azFailures = 0 /\ vm.sizeSupported /\ vm.zone # NoZone /\ accelerated
    /\ \A k \in DOMAIN vm.nics : vm.nics[k]
UltraKnown == ultra # {} /\ \A k \in Disks : k \in ultra <=> k \in UltraDisks
AllPerform == \A k \in UltraDisks : Performs(vm.disks[k])
AllCached == \A k \in Disks : CachedWell(vm.disks[k])
OsChecked == GoodOs /\ osKnown
AllZoned == \A k \in Disks : vm.disks[k].zone = vm.zone

Fine == fail = 0 /\ warn = 0 /\ pc # "aborted"

LEMMA FoundBehind ==
    ASSUME FoundInv, Fine
    PROVE  /\ azFailures = 0
           /\ pc \in AfterNics => Section1
           /\ pc \in AfterCollect => UltraKnown
           /\ pc \in AfterUltra => AllPerform
           /\ pc \in AfterCaching => AllCached
           /\ pc \in AfterOs => OsChecked
           /\ pc \in AfterOsZone => vm.os.zone = vm.zone
           /\ pc \in AfterZones => AllZoned
  BY
     DEF Fine, FoundInv, Past, Section1, UltraKnown, AllPerform, AllCached,
         OsChecked,
         AllZoned, AfterSize, AfterNics, AfterCollect,
         AfterUltra, AfterCaching, AfterOs,
         AfterOsZone, AfterZones, AfterCount, UltraDisks

LEMMA FoundCollect ==
    ASSUME VmTypeOK, FoundInv, CollectDisk, Fine'
    PROVE  FoundInv'
  <1>1. /\ Fine /\ pc = "collect" /\ pc' = "collect" /\ nth \in Disks /\ nth' = nth + 1
        /\ ultra' = IF vm.disks[nth].sku = "Ultra" THEN ultra \union {nth} ELSE ultra
        /\ UNCHANGED <<vm, azFailures, accelerated>>
    BY DEF CollectDisk, AzAnswers, Fine, VmTypeOK
  <1>2. Section1 /\ azFailures = 0
    BY <1>1, Order, FoundBehind
  <1>3. \A k \in Disks : k \in ultra <=> k \in UltraDisks /\ k < nth
    BY <1>1, Order DEF FoundInv, Past, Fine
  <1>4. \A k \in Disks : k \in ultra' <=> k \in UltraDisks /\ k < nth'
    <2>1. nth \in Nat /\ Disks \subseteq Nat
      BY MachineShape DEF VmTypeOK, Disks
    <2>2. \A k \in Disks : k < nth' <=> k < nth \/ k = nth
      BY <1>1, <2>1
    <2>3. ~ (nth < nth)
      BY <2>1
    <2>4. QED
      BY <1>1, <1>3, <2>2, <2>3 DEF UltraDisks
  <1>5. QED
    BY <1>1, <1>2, <1>4, Order, SameMachine DEF FoundInv, Past, Section1

\* No element is before the first one.
LEMMA LoopStarts ==
    ASSUME VmTypeOK, nth' = 1
    PROVE  \A k \in Disks : ~ (k < nth')
  BY MachineShape DEF VmTypeOK, Disks

LEMMA FoundAttached ==
    ASSUME VmTypeOK, FoundInv, CheckUltraAttached, Fine'
    PROVE  FoundInv'
  <1>1. /\ Fine /\ pc = "collect" /\ pc' = "ultra" /\ nth' = 1 /\ nth \notin Disks
        /\ ultra # {} /\ UNCHANGED <<vm, azFailures, accelerated, ultra>>
    BY DEF CheckUltraAttached, Fine, Score, Count, Goto, VmTypeOK
  <1>2. Section1 /\ azFailures = 0
    BY <1>1, Order, FoundBehind
  <1>3. \A k \in Disks : k \in ultra <=> k \in UltraDisks
    BY <1>1, Order, LoopOver DEF FoundInv, Past, Fine
  <1>4. \A k \in Disks : ~ (k < nth')
    BY <1>1, LoopStarts
  <1>5. UltraDisks \subseteq Disks
    BY DEF UltraDisks
  <1>6. QED
    BY <1>1, <1>2, <1>3, <1>4, <1>5, Order, SameMachine DEF FoundInv, Past, Section1

LEMMA FoundUltra ==
    ASSUME VmTypeOK, FoundInv, CheckUltraDisk, Fine'
    PROVE  FoundInv'
  <1>1. /\ pc = "ultra" /\ pc' = "ultra" /\ nth \in Disks /\ nth' = nth + 1
        /\ UNCHANGED <<vm, accelerated, ultra>>
    BY DEF CheckUltraDisk
  <1>2. /\ Fine /\ azFailures' = azFailures
        /\ nth \in ultra => Performs(vm.disks[nth])
    <2>1. CASE nth \in ultra
      <3>1. /\ AzAnswers
            /\ Score(0, Count(~ vm.disks[nth].iops)
                          + Count(~ vm.disks[nth].throughput)
                          + Count(~ vm.disks[nth].size))
        BY <2>1 DEF CheckUltraDisk, Score, Fine, VmTypeOK
      <3>2. QED
        BY <1>1, <3>1 DEF AzAnswers, Score, Count, Fine, VmTypeOK, Performs
    <2>2. CASE nth \notin ultra
      BY <1>1, <2>2 DEF CheckUltraDisk, AzAnswers, Score, Fine, VmTypeOK
    <2>3. QED
      BY <2>1, <2>2
  <1>3. Section1 /\ azFailures = 0 /\ UltraKnown
    BY <1>1, <1>2, Order, FoundBehind
  <1>4. \A k \in UltraDisks : k < nth => Performs(vm.disks[k])
    BY <1>1, <1>2, Order DEF FoundInv, Past, Fine
  <1>5. \A k \in UltraDisks : k < nth' => Performs(vm.disks[k])
    <2>1. UltraDisks \subseteq Disks
      BY DEF UltraDisks
    <2>2. \A k \in Disks : k < nth' => k < nth \/ k = nth
      BY <1>1, LoopNext
    <2>3. QED
      BY <1>1, <1>2, <1>3, <1>4, <2>1, <2>2 DEF UltraKnown
  <1>6. QED
    BY <1>1, <1>2, <1>3, <1>5, Order, SameMachine
       DEF FoundInv, Past, Section1, UltraKnown

LEMMA FoundUltraOver ==
    ASSUME VmTypeOK, FoundInv, NextCheck("ultra", "caching"), Fine'
    PROVE  FoundInv'
  <1>1. /\ Fine /\ pc = "ultra" /\ pc' = "caching" /\ nth' = 1 /\ nth \notin Disks
        /\ UNCHANGED <<vm, azFailures, accelerated, ultra>>
    BY DEF NextCheck, Fine, Goto
  <1>2. Section1 /\ azFailures = 0 /\ UltraKnown
    BY <1>1, Order, FoundBehind
  <1>3. AllPerform
    <2>1. \A k \in UltraDisks : k < nth => Performs(vm.disks[k])
      BY <1>1, Order DEF FoundInv, Past, Fine
    <2>2. \A k \in UltraDisks : k < nth
      BY <1>1, LoopOver DEF UltraDisks
    <2>3. QED
      BY <2>1, <2>2 DEF AllPerform
  <1>4. \A k \in Disks : ~ (k < nth')
    BY <1>1, LoopStarts
  <1>5. QED
    BY <1>1, <1>2, <1>3, <1>4, Order, SameMachine
       DEF FoundInv, Past, Section1, UltraKnown, AllPerform

LEMMA FoundCaching ==
    ASSUME VmTypeOK, FoundInv, CheckCaching, Fine'
    PROVE  FoundInv'
  <1>1. /\ pc = "caching" /\ pc' = "caching" /\ nth \in Disks /\ nth' = nth + 1
        /\ UNCHANGED <<vm, accelerated, ultra>>
    BY DEF CheckCaching
  <1>2. /\ Fine /\ azFailures' = azFailures /\ CachedWell(vm.disks[nth])
    <2>1. ~ (AzFails /\ Score(0, 1))
      BY DEF Score, Fine, VmTypeOK
    <2>2. /\ AzAnswers
          /\ IF vm.disks[nth].sku = "Ultra"
             THEN Score(Count(vm.disks[nth].caching # "None"), 0)
             ELSE Score(0, Count(vm.disks[nth].caching # "ReadOnly"))
      BY <2>1 DEF CheckCaching
    <2>3. QED
      BY <1>1, <2>2 DEF AzAnswers, Score, Count, Fine, VmTypeOK, CachedWell
  <1>3. Section1 /\ azFailures = 0 /\ UltraKnown /\ AllPerform
    BY <1>1, <1>2, Order, FoundBehind
  <1>4. \A k \in Disks : k < nth => CachedWell(vm.disks[k])
    BY <1>1, <1>2, Order DEF FoundInv, Past, Fine
  <1>5. \A k \in Disks : k < nth' => CachedWell(vm.disks[k])
    BY <1>1, <1>2, <1>4, LoopNext
  <1>6. QED
    BY <1>1, <1>2, <1>3, <1>5, Order, SameMachine
       DEF FoundInv, Past, Section1, UltraKnown, AllPerform

LEMMA FoundCachingOver ==
    ASSUME VmTypeOK, FoundInv, NextCheck("caching", "os"), Fine'
    PROVE  FoundInv'
  <1>1. /\ Fine /\ pc = "caching" /\ pc' = "os" /\ nth \notin Disks
        /\ UNCHANGED <<vm, azFailures, accelerated, ultra>>
    BY DEF NextCheck, Fine, Goto
  <1>2. Section1 /\ azFailures = 0 /\ UltraKnown /\ AllPerform
    BY <1>1, Order, FoundBehind
  <1>3. AllCached
    <2>1. \A k \in Disks : k < nth => CachedWell(vm.disks[k])
      BY <1>1, Order DEF FoundInv, Past, Fine
    <2>2. QED
      BY <1>1, <2>1, LoopOver DEF AllCached
  <1>4. QED
    BY <1>1, <1>2, <1>3, Order, SameMachine
       DEF FoundInv, Past, Section1, UltraKnown, AllPerform, AllCached

LEMMA FoundOs ==
    ASSUME VmTypeOK, FoundInv, CheckOsDisk, Fine'
    PROVE  FoundInv'
  <1>1. /\ pc = "os" /\ UNCHANGED <<vm, accelerated, ultra>>
        /\ pc' = IF vm.zone = NoZone THEN "count" ELSE "osZone"
    BY DEF CheckOsDisk, Goto
  <1>2. /\ Fine /\ azFailures' = azFailures /\ osKnown' = TRUE /\ GoodOs
    <2>1. ~ (AzFails /\ osKnown' = FALSE /\ Score(0, 1))
      BY DEF Score, Fine, VmTypeOK
    <2>2. /\ AzAnswers /\ osKnown' = TRUE
          /\ Score(Count(vm.os.sku = "Standard"), Count(vm.os.caching # "ReadWrite"))
      BY <2>1 DEF CheckOsDisk
    <2>3. QED
      BY <1>1, <2>2 DEF AzAnswers, Score, Count, Fine, VmTypeOK, GoodOs
  <1>3. Section1 /\ azFailures = 0 /\ UltraKnown /\ AllPerform /\ AllCached
    BY <1>1, <1>2, Order, FoundBehind
  <1>4. pc' = "osZone"
    BY <1>1, <1>3 DEF Section1
  <1>5. QED
    BY <1>1, <1>2, <1>3, <1>4, Order, SameMachine
       DEF FoundInv, Past, Section1, UltraKnown, AllPerform, AllCached

LEMMA FoundOsZone ==
    ASSUME VmTypeOK, FoundInv, CheckOsZone, Fine'
    PROVE  FoundInv'
  <1>1. /\ pc = "osZone" /\ pc' = "zones" /\ nth' = 1
        /\ UNCHANGED <<vm, azFailures, accelerated, ultra, osKnown>>
    BY DEF CheckOsZone, Goto
  <1> DEFINE zone == IF osKnown THEN vm.os.zone ELSE NoZone
  <1>2. Fine /\ zone # NoZone /\ zone \in {NoZone, vm.zone}
    <2>1. Score(Count(zone \notin {NoZone, vm.zone}), Count(zone = NoZone))
      BY DEF CheckOsZone
    <2> HIDE DEF zone
    <2>2. QED
      BY <1>1, <2>1 DEF Score, Count, Fine, VmTypeOK
  <1>3. /\ Section1 /\ azFailures = 0 /\ UltraKnown /\ AllPerform /\ AllCached /\ OsChecked
    BY <1>1, <1>2, Order, FoundBehind
  <1>4. vm.os.zone = vm.zone
    BY <1>2, <1>3 DEF OsChecked
  <1>5. \A k \in Disks : ~ (k < nth')
    BY <1>1, LoopStarts
  <1>6. QED
    BY <1>1, <1>2, <1>3, <1>4, <1>5, Order, SameMachine
       DEF FoundInv, Past, Section1, UltraKnown, AllPerform, AllCached, OsChecked

LEMMA FoundZone ==
    ASSUME VmTypeOK, FoundInv, CheckDiskZone, Fine'
    PROVE  FoundInv'
  <1> DEFINE zone == vm.disks[nth].zone
  <1>1. /\ pc = "zones" /\ pc' = "zones" /\ nth \in Disks /\ nth' = nth + 1
        /\ UNCHANGED <<vm, accelerated, ultra, osKnown>>
    BY DEF CheckDiskZone
  <1>2. /\ Fine /\ azFailures' = azFailures /\ vm.disks[nth].zone = vm.zone
    <2>1. ~ (AzFails /\ Score(0, 1))
      BY DEF Score, Fine, VmTypeOK
    <2>2. AzAnswers /\ Score(Count(zone \notin {NoZone, vm.zone}), Count(zone = NoZone))
      BY <2>1 DEF CheckDiskZone
    <2>3. QED
      BY <1>1, <2>2 DEF AzAnswers, Score, Count, Fine, VmTypeOK
  <1>3. /\ Section1 /\ azFailures = 0 /\ UltraKnown /\ AllPerform /\ AllCached /\ OsChecked
        /\ vm.os.zone = vm.zone
    BY <1>1, <1>2, Order, FoundBehind
  <1>4. \A k \in Disks : k < nth => vm.disks[k].zone = vm.zone
    BY <1>1, <1>2, Order DEF FoundInv, Past, Fine
  <1>5. \A k \in Disks : k < nth' => vm.disks[k].zone = vm.zone
    BY <1>1, <1>2, <1>4, LoopNext
  <1>6. QED
    BY <1>1, <1>2, <1>3, <1>5, Order, SameMachine
       DEF FoundInv, Past, Section1, UltraKnown, AllPerform, AllCached, OsChecked

LEMMA FoundZonesOver ==
    ASSUME VmTypeOK, FoundInv, CheckZoneAlignment, Fine'
    PROVE  FoundInv'
  <1>1. /\ Fine /\ pc = "zones" /\ pc' = "count" /\ nth \notin Disks
        /\ UNCHANGED <<vm, azFailures, accelerated, ultra, osKnown>>
    BY DEF CheckZoneAlignment, Fine, Goto
  <1>2. /\ Section1 /\ azFailures = 0 /\ UltraKnown /\ AllPerform /\ AllCached /\ OsChecked
        /\ vm.os.zone = vm.zone
    BY <1>1, Order, FoundBehind
  <1>3. AllZoned
    <2>1. \A k \in Disks : k < nth => vm.disks[k].zone = vm.zone
      BY <1>1, Order DEF FoundInv, Past, Fine
    <2>2. QED
      BY <1>1, <2>1, LoopOver DEF AllZoned
  <1>4. QED
    BY <1>1, <1>2, <1>3, Order, SameMachine
       DEF FoundInv, Past, Section1, UltraKnown, AllPerform, AllCached, OsChecked,
           AllZoned

LEMMA FoundLayout ==
    ASSUME VmTypeOK, FoundInv, CheckLayout, Fine'
    PROVE  FoundInv'
  <1>1. /\ pc = "count" /\ pc' = "summary"
        /\ UNCHANGED <<vm, azFailures, accelerated, ultra, osKnown>>
    BY DEF CheckLayout, Goto
  <1>2. Fine /\ ~ (Len(vm.disks) < 2) /\ LunsSequential
    BY <1>1 DEF CheckLayout, Score, Count, Fine, VmTypeOK
  <1>3. Len(vm.disks) >= 2
    BY <1>2, MachineShape DEF VmTypeOK
  <1>4. /\ Section1 /\ azFailures = 0 /\ UltraKnown /\ AllPerform /\ AllCached /\ OsChecked
        /\ vm.os.zone = vm.zone /\ AllZoned
    BY <1>1, <1>2, Order, FoundBehind
  <1>5. QED
    BY <1>1, <1>2, <1>3, <1>4, Order, SameMachine
       DEF FoundInv, Past, Section1, UltraKnown, AllPerform, AllCached, OsChecked,
           AllZoned

LEMMA FoundNext == VmTypeOK /\ FoundInv /\ [VmNext]_vmVars => FoundInv'
  <1> SUFFICES ASSUME VmTypeOK, FoundInv, [VmNext]_vmVars PROVE FoundInv'
    OBVIOUS
  <1>1. CASE ~ Fine'
    BY <1>1 DEF Fine, FoundInv
  <1>2. CASE Fine'
    <2>1. CASE UNCHANGED vmVars
      BY <2>1, SameMachine DEF vmVars, FoundInv, Past
    <2>2. fail' = 0 /\ warn' = 0 /\ pc' # "aborted"
      BY <1>2 DEF Fine
    <2>3. ~ CountNoDisks
      BY <2>2 DEF CountNoDisks, Abort, Goto
    <2>4. QED
      BY <1>2, <2>1, <2>2, <2>3, FoundFirst, FoundNic, FoundCollect, FoundAttached,
         FoundUltra, FoundUltraOver, FoundCaching, FoundCachingOver, FoundOs, FoundOsZone,
         FoundZone, FoundZonesOver, FoundLayout
         DEF VmNext, VmEnded
  <1>3. QED
    BY <1>1, <1>2

LEMMA FoundIsBest ==
    ASSUME VmTypeOK, FoundInv
    PROVE  PassedIsChecked
  <1> SUFFICES ASSUME pc = "summary", fail = 0, warn = 0
               PROVE  BestPractice /\ azFailures = 0
    BY DEF PassedIsChecked, AllPassed
  <1>1. Fine
    BY DEF Fine
  <1>2. /\ Section1 /\ azFailures = 0 /\ UltraKnown /\ AllPerform /\ AllCached /\ OsChecked
        /\ vm.os.zone = vm.zone /\ AllZoned
    BY <1>1, Order, FoundBehind
  <1>3. Len(vm.disks) >= 2 /\ LunsSequential
    BY <1>1, Order DEF FoundInv, Fine
  <1>4. /\ \A k \in Disks : vm.disks[k].lun < Len(vm.disks)
        /\ \A j, k \in Disks : vm.disks[j].lun = vm.disks[k].lun => j = k
    BY <1>3, Units
  <1>5. \E k \in Disks : vm.disks[k].sku = "Ultra"
    <2>1. \E k \in Disks : k \in ultra
      BY <1>2 DEF UltraKnown, VmTypeOK
    <2>2. QED
      BY <1>2, <2>1 DEF UltraKnown, UltraDisks
  <1>6. ASSUME NEW k \in Disks
        PROVE  LET d == vm.disks[k] IN
               /\ d.zone = vm.zone
               /\ IF d.sku = "Ultra"
                  THEN d.iops /\ d.throughput /\ d.size /\ d.caching = "None"
                  ELSE d.caching = "ReadOnly"
    BY <1>2 DEF AllZoned, AllCached, AllPerform, CachedWell, Performs, UltraDisks
  <1>7. vm.os.sku \in {"Premium", "StandardSSD"} /\ vm.os.caching = "ReadWrite"
    BY <1>2 DEF OsChecked, GoodOs, VmTypeOK, IsMachine
  <1>8. QED
    BY <1>2, <1>3, <1>4, <1>5, <1>6, <1>7 DEF BestPractice, Section1

\* The premise of AnsweredInv: no call has failed, and there is nothing to find.
Calm == azFailures = 0 /\ BestPractice /\ pc # "aborted"

LEMMA AnsweredInit == VmInit => AnsweredInv
  BY Order DEF VmInit, AnsweredInv, Past

LEMMA SameAdvice ==
    ASSUME UNCHANGED vm
    PROVE  /\ Disks' = Disks /\ UltraDisks' = UltraDisks
           /\ BestPractice' <=> BestPractice
  BY DEF Disks, UltraDisks, BestPractice

\* What the advice asks of one disk.
LEMMA GoodDisk ==
    ASSUME BestPractice, NEW k \in Disks
    PROVE  /\ vm.disks[k].zone = vm.zone
           /\ vm.disks[k].sku = "Ultra" =>
                 /\ vm.disks[k].iops /\ vm.disks[k].throughput /\ vm.disks[k].size
                 /\ vm.disks[k].caching = "None"
           /\ vm.disks[k].sku # "Ultra" => vm.disks[k].caching = "ReadOnly"
  BY DEF BestPractice

\* A step after which no call has failed was answered, and met the same machine.
LEMMA CalmBefore ==
    ASSUME VmTypeOK, VmNext, Calm'
    PROVE  Calm /\ AzAnswers /\ ~ AzFails /\ UNCHANGED vm
  <1>1. UNCHANGED vm
    BY
       DEF VmNext, SetAccount, ShowMachine, Abort, CheckSizeAndZone,
           CheckNic,
           CheckAcceleratedNetworking, CollectDisk,
           CountNoDisks, CheckUltraAttached,
           CheckUltraDisk, NextCheck, CheckCaching, CheckOsDisk, CheckOsZone,
           CheckDiskZone, CheckZoneAlignment, CheckLayout, VmEnded, vmVars
  <1>2. AzAnswers \/ AzFails
    BY
       DEF VmNext, SetAccount, ShowMachine, CheckSizeAndZone, CheckNic,
           AzAnswers,
           CheckAcceleratedNetworking, CollectDisk,
           CountNoDisks, CheckUltraAttached,
           CheckUltraDisk, NextCheck, CheckCaching, CheckOsDisk, CheckOsZone,
           CheckDiskZone, CheckZoneAlignment, CheckLayout, VmEnded, vmVars
  <1>3. azFailures \in Nat
    BY DEF VmTypeOK
  <1>4. azFailures' = 0
    BY DEF Calm
  <1>5. ~ AzFails /\ azFailures = 0
    BY <1>2, <1>3, <1>4 DEF AzAnswers, AzFails
  <1>6. pc # "aborted"
    BY DEF Calm, VmNext, SetAccount, ShowMachine, CheckSizeAndZone, CheckNic,
           CheckAcceleratedNetworking, CollectDisk,
           CountNoDisks, CheckUltraAttached,
           CheckUltraDisk, NextCheck, CheckCaching, CheckOsDisk, CheckOsZone,
           CheckDiskZone, CheckZoneAlignment, CheckLayout, VmEnded, vmVars
  <1>7. QED
    BY <1>1, <1>2, <1>5, <1>6, SameAdvice DEF Calm

\* A step that finds nothing, and leaves the interfaces, the disks found and the
\* operating system disk as they are.
LEMMA AnsweredQuiet ==
    ASSUME AnsweredInv, Calm, UNCHANGED <<vm, ultra, accelerated, osKnown>>, Score(0, 0),
           \A k \in Disks :
               Past("collect", AfterCollect, k)' <=> Past("collect", AfterCollect, k),
           pc' \in AfterOs => pc \in AfterOs
    PROVE  AnsweredInv'
  BY SameAdvice DEF AnsweredInv, Calm, Score

LEMMA AnsweredNext == VmTypeOK /\ AnsweredInv /\ [VmNext]_vmVars => AnsweredInv'
  <1> SUFFICES ASSUME VmTypeOK, AnsweredInv, [VmNext]_vmVars, Calm'
               PROVE  AnsweredInv'
    BY DEF Calm, AnsweredInv
  <1>1. CASE UNCHANGED vmVars
    BY <1>1, SameAdvice DEF vmVars, AnsweredInv, Past
  <1>2. CASE VmNext
    <2>1. Calm /\ AzAnswers /\ ~ AzFails /\ UNCHANGED vm
      BY <1>2, CalmBefore
    <2>2. /\ fail = 0 /\ warn = 0 /\ accelerated
          /\ \A k \in Disks :
                k \in ultra <=> k \in UltraDisks /\ Past("collect", AfterCollect, k)
          /\ pc \in AfterOs => osKnown
      BY <2>1 DEF AnsweredInv, Calm
    <2>3. BestPractice /\ pc' # "aborted"
      BY <2>1 DEF Calm
    <2>4. CASE SetAccount \/ ShowMachine
      <3>1. /\ pc \in {"account", "show"} /\ pc' \in {"show", "size"}
            /\ UNCHANGED <<fail, warn, ultra, accelerated, osKnown>>
        BY <2>1, <2>4 DEF SetAccount, ShowMachine, Goto
      <3>2. Score(0, 0)
        BY <2>2, <3>1 DEF Score
      <3>3. QED
        BY <2>1, <3>1, <3>2, Order, AnsweredQuiet DEF Past
    <2>5. CASE CheckSizeAndZone
      <3>1. /\ pc = "size" /\ pc' = "nics"
            /\ Score(0, 0) /\ UNCHANGED <<ultra, accelerated, osKnown>>
        BY <2>3, <2>5 DEF CheckSizeAndZone, Goto, Count, BestPractice
      <3>2. QED
        BY <2>1, <3>1, Order, AnsweredQuiet DEF Past
    <2>6. CASE CheckNic
      <3>1. /\ pc = "nics" /\ pc' = "nics" /\ Score(0, 0)
            /\ accelerated' = vm.nics[nth] /\ vm.nics[nth] /\ UNCHANGED <<ultra, osKnown>>
        BY <2>1, <2>2, <2>3, <2>6 DEF CheckNic, Score, BestPractice
      <3>2. accelerated' /\ fail' = 0 /\ warn' = 0
        BY <2>2, <3>1 DEF Score
      <3>3. QED
        BY <2>1, <2>2, <3>1, <3>2, Order, SameAdvice DEF AnsweredInv, Past
    <2>7. CASE CheckAcceleratedNetworking
      <3>1. /\ pc = "nics" /\ pc' = "collect" /\ nth' = 1
            /\ Score(0, 0) /\ UNCHANGED <<ultra, accelerated, osKnown>>
        BY <2>2, <2>7 DEF CheckAcceleratedNetworking, Goto, Count
      <3>2. \A k \in Disks : ~ (k < nth')
        BY <3>1, LoopStarts
      <3>3. QED
        BY <2>1, <3>1, <3>2, Order, AnsweredQuiet DEF Past
    <2>8. CASE CollectDisk
      <3>1. /\ pc = "collect" /\ pc' = "collect" /\ nth \in Disks /\ nth' = nth + 1
            /\ ultra' = IF vm.disks[nth].sku = "Ultra" THEN ultra \union {nth} ELSE ultra
            /\ fail' = 0 /\ warn' = 0 /\ UNCHANGED <<accelerated, osKnown>>
        BY <2>1, <2>2, <2>8 DEF CollectDisk
      <3>2. \A k \in Disks : k \in ultra <=> k \in UltraDisks /\ k < nth
        BY <2>2, <3>1, Order DEF Past
      <3>3. \A k \in Disks : k \in ultra' <=> k \in UltraDisks /\ k < nth'
        <4>1. nth \in Nat /\ Disks \subseteq Nat
          BY MachineShape DEF VmTypeOK, Disks
        <4>2. \A k \in Disks : k < nth' <=> k < nth \/ k = nth
          BY <3>1, <4>1
        <4>3. ~ (nth < nth)
          BY <4>1
        <4>4. QED
          BY <3>1, <3>2, <4>2, <4>3 DEF UltraDisks
      <3>4. QED
        BY <2>1, <2>2, <3>1, <3>3, Order, SameAdvice DEF AnsweredInv, Past
    <2>9. CASE CountNoDisks
      BY <2>3, <2>9 DEF CountNoDisks, Abort, Goto
    <2>10. CASE CheckUltraAttached
      <3>1. /\ pc = "collect" /\ pc' = "ultra" /\ nth \notin Disks
            /\ Score(Count(ultra = {}), 0) /\ UNCHANGED <<ultra, accelerated, osKnown>>
        BY <2>10 DEF CheckUltraAttached, Goto
      <3>2. \A k \in Disks : Past("collect", AfterCollect, k)
        BY <3>1, LoopOver DEF Past
      <3>3. ultra # {}
        BY <2>2, <2>3, <3>2 DEF BestPractice, UltraDisks
      <3>4. Score(0, 0)
        BY <3>1, <3>3 DEF Count
      <3>5. QED
        BY <2>1, <3>1, <3>2, <3>4, Order, AnsweredQuiet DEF Past
    <2>11. CASE CheckUltraDisk
      <3>1. /\ pc = "ultra" /\ pc' = "ultra" /\ nth \in Disks
            /\ UNCHANGED <<ultra, accelerated, osKnown>>
        BY <2>11 DEF CheckUltraDisk
      <3>2. nth \in ultra => vm.disks[nth].iops /\ vm.disks[nth].throughput /\ vm.disks[nth].size
        BY <2>2, <2>3, <3>1, GoodDisk DEF UltraDisks
      <3>3. Score(0, 0)
        BY <2>1, <2>11, <3>2 DEF CheckUltraDisk, Count
      <3>4. QED
        BY <2>1, <3>1, <3>3, Order, AnsweredQuiet DEF Past
    <2>12. CASE NextCheck("ultra", "caching") \/ NextCheck("caching", "os")
      <3>1. /\ pc \in {"ultra", "caching"} /\ pc' \in {"caching", "os"}
            /\ UNCHANGED <<fail, warn, ultra, accelerated, osKnown>>
        BY <2>12 DEF NextCheck, Goto
      <3>2. Score(0, 0)
        BY <2>2, <3>1 DEF Score
      <3>3. QED
        BY <2>1, <3>1, <3>2, Order, AnsweredQuiet DEF Past
    <2>13. CASE CheckCaching
      <3>1. /\ pc = "caching" /\ pc' = "caching" /\ nth \in Disks
            /\ UNCHANGED <<ultra, accelerated, osKnown>>
        BY <2>13 DEF CheckCaching
      <3>2. Score(0, 0)
        BY <2>1, <2>3, <2>13, <3>1, GoodDisk DEF CheckCaching, Count
      <3>3. QED
        BY <2>1, <3>1, <3>2, Order, AnsweredQuiet DEF Past
    <2>14. CASE CheckOsDisk
      <3>1. /\ pc = "os" /\ pc' \in {"count", "osZone"} /\ osKnown' = TRUE
            /\ UNCHANGED <<ultra, accelerated>>
        BY <2>1, <2>14 DEF CheckOsDisk, Goto
      <3>2. Score(0, 0)
        BY <2>1, <2>3, <2>14 DEF CheckOsDisk, Count, BestPractice
      <3>3. QED
        BY <2>1, <2>2, <3>1, <3>2, Order, SameAdvice DEF AnsweredInv, Past, Score
    <2>15. CASE CheckOsZone
      <3>1. /\ pc = "osZone" /\ pc' = "zones" /\ UNCHANGED <<ultra, accelerated, osKnown>>
        BY <2>15 DEF CheckOsZone, Goto
      <3>2. osKnown /\ vm.os.zone = vm.zone /\ vm.zone # NoZone
        BY <2>2, <2>3, <3>1, Order DEF BestPractice
      <3>3. Score(0, 0)
        BY <2>15, <3>2 DEF CheckOsZone, Count
      <3>4. QED
        BY <2>1, <3>1, <3>3, Order, AnsweredQuiet DEF Past
    <2>16. CASE CheckDiskZone
      <3>1. /\ pc = "zones" /\ pc' = "zones" /\ nth \in Disks
            /\ UNCHANGED <<ultra, accelerated, osKnown>>
        BY <2>16 DEF CheckDiskZone
      <3>2. vm.disks[nth].zone = vm.zone /\ vm.zone # NoZone
        BY <2>3, <3>1, GoodDisk DEF BestPractice
      <3>3. Score(0, 0)
        BY <2>1, <2>16, <3>2 DEF CheckDiskZone, Count
      <3>4. QED
        BY <2>1, <3>1, <3>3, Order, AnsweredQuiet DEF Past
    <2>17. CASE CheckZoneAlignment
      <3>1. /\ pc = "zones" /\ pc' = "count"
            /\ Score(0, 0) /\ UNCHANGED <<ultra, accelerated, osKnown>>
        BY <2>2, <2>17 DEF CheckZoneAlignment, Goto, Score
      <3>2. QED
        BY <2>1, <3>1, Order, AnsweredQuiet DEF Past
    <2>18. CASE CheckLayout
      <3>1. /\ pc = "count" /\ pc' = "summary" /\ UNCHANGED <<ultra, accelerated, osKnown>>
            /\ Score(0, Count(Len(vm.disks) < 2) + Count(~ LunsSequential))
        BY <2>18 DEF CheckLayout, Goto
      <3>2. ~ (Len(vm.disks) < 2)
        BY <2>3, MachineShape DEF BestPractice, VmTypeOK
      <3>3. LunsSequential
        BY <2>3, Units DEF BestPractice
      <3>4. Score(0, 0)
        BY <3>1, <3>2, <3>3 DEF Count
      <3>5. QED
        BY <2>1, <3>1, <3>4, Order, AnsweredQuiet DEF Past
    <2>19. CASE VmEnded
      BY <1>1, <2>19 DEF VmEnded
    <2>20. QED
      BY <1>2, <2>4, <2>5, <2>6, <2>7, <2>8, <2>9, <2>10, <2>11, <2>12, <2>13, <2>14,
         <2>15, <2>16, <2>17, <2>18, <2>19 DEF VmNext
  <1>3. QED
    BY <1>1, <1>2

LEMMA AnsweredIsGood ==
    ASSUME AnsweredInv
    PROVE  GoodPasses
  BY DEF AnsweredInv, GoodPasses, AllPassed

-----------------------------------------------------------------------------
(* The verdicts of the virtual machine script.                             *)

\* The machine keeps its shape, the script is at one of its places, and the disks
\* counted as Ultra are disks of the machine.
THEOREM VmTypeCorrect == VmSpec => []VmTypeOK
  <1>1. VmInit => VmTypeOK
    BY VmTypeInit
  <1>2. VmTypeOK /\ [VmNext]_vmVars => VmTypeOK'
    BY VmTypeNext
  <1>3. QED
    BY <1>1, <1>2, PTL DEF VmSpec

\* "All checks passed" is printed only of a machine that follows every best practice,
\* and only when every call was answered: wherever a call fails, the script does not
\* pass what it could not read.
THEOREM PassedMachinesFollowAdvice == VmSpec => []PassedIsChecked
  <1>1. VmInit => VmTypeOK /\ FoundInv
    BY VmTypeInit, FoundInit
  <1>2. VmTypeOK /\ FoundInv /\ [VmNext]_vmVars => VmTypeOK' /\ FoundInv'
    BY VmTypeNext, FoundNext
  <1>3. VmTypeOK /\ FoundInv => PassedIsChecked
    BY FoundIsBest
  <1>4. QED
    BY <1>1, <1>2, <1>3, PTL DEF VmSpec

\* A machine that follows every best practice is told so whenever the calls are
\* answered: the checks agree with the advice, in both directions.
THEOREM GoodMachinesPass == VmSpec => []GoodPasses
  <1>1. VmInit => VmTypeOK /\ AnsweredInv
    BY VmTypeInit, AnsweredInit
  <1>2. VmTypeOK /\ AnsweredInv /\ [VmNext]_vmVars
        => VmTypeOK' /\ AnsweredInv'
    BY VmTypeNext, AnsweredNext
  <1>3. AnsweredInv => GoodPasses
    BY AnsweredIsGood
  <1>4. QED
    BY <1>1, <1>2, <1>3, PTL DEF VmSpec
=============================================================================
