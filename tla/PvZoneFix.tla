------------------------------ MODULE PvZoneFix ------------------------------
(***************************************************************************)
(* aks_nap_admission_webhook: the mutating webhook that merges the node    *)
(* selector terms of zone redundant (ZRS) Azure disks, with the API server *)
(* that calls it on every CREATE and UPDATE of a persistent volume and     *)
(* ignores it when it does not answer (failurePolicy: Ignore).             *)
(*                                                                         *)
(* A term is the sequence of its match expressions; an absent node         *)
(* affinity and one without terms are both <<>>. The zones that every node *)
(* of the cluster may have are Zones; NoZone is the empty string.          *)
(***************************************************************************)
EXTENDS Naturals, Sequences, Functions

CONSTANTS
    Volumes,            \* names of persistent volumes
    Zones,              \* zone names
    NoZone,             \* "": the zone of a node outside every zone
    Objects,            \* persistent volumes that clients ask for
    SortStrings,        \* Go's sort.Strings, of a set of distinct zones
    Absent              \* no such volume

topologyZoneKey == "topology.disk.csi.azure.com/zone"

Expressions ==
    [key : {topologyZoneKey, "other"}, operator : {"In", "NotIn"},
     values : Seq(Zones \union {NoZone})]

PersistentVolumes ==
    [driver : {"disk.csi.azure.com", "other"}, sku : {"ZRS", "LRS"},
     terms : Seq(Seq(Expressions))]

ASSUME WebhookAssumption ==
    /\ NoZone \notin Zones
    /\ Absent \notin PersistentVolumes

\* Objects is in PersistentVolumes, element by element: TLC cannot enumerate Seq.
ASSUME ObjectsAssumption == \A p \in Objects : p \in PersistentVolumes

\* sort.Strings returns its elements in an order that depends on them only.
ASSUME SortAssumption ==
    \A S \in SUBSET Zones :
        SortStrings[S] \in Seq(Zones) /\ Range(SortStrings[S]) = S

VARIABLES
    pv,        \* the stored volumes
    webhook,   \* the one replica: "down", "serving" or "dryRun"
    asked,     \* history: the terms the last client to choose them asked for
    bypassed,  \* history: those terms were stored without the webhook's patch
    refused,   \* history: an update that kept the affinity was refused
    affinityImmutable   \* TRUE: this API server refuses to change an affinity

vars == <<pv, webhook, asked, bypassed, refused, affinityImmutable>>

Init ==
    /\ pv = [v \in Volumes |-> Absent]
    /\ webhook \in {"down", "serving", "dryRun"}
    /\ asked = [v \in Volumes |-> <<>>]
    /\ bypassed = [v \in Volumes |-> FALSE]
    /\ refused = [v \in Volumes |-> FALSE]
    /\ affinityImmutable \in BOOLEAN

-----------------------------------------------------------------------------
(* HandleMutate.                                                           *)

IsZRS(p) == p.sku = "ZRS"

\* The zones of every expression on the zone key, whatever its operator.
ZonesOf(terms) ==
    {z \in Zones : \E i \in DOMAIN terms : \E j \in DOMAIN terms[i] :
        terms[i][j].key = topologyZoneKey /\ z \in Range(terms[i][j].values)}

\* Mutant: the order of the map's keys, which differs from call to call.
KeyOrder(zones) ==
    {s \in [1 .. Len(SortStrings[zones]) -> zones] : Range(s) = zones}

\* The zones collected in the map, sorted.
MergedValues(zones) == {SortStrings[zones]}

\* Mutant: the merged expression only asks that a zone exists.
AnyZoneTerm(values) ==
    <<[key |-> topologyZoneKey, operator |-> "Exists", values |-> <<>>]>>

ZoneTerm(values) ==
    <<[key |-> topologyZoneKey, operator |-> "In", values |-> values]>>

\* Mutant: only the zones of the first term are merged.
MergeFirstTerm(terms) ==
    {<<ZoneTerm(values)>> : values \in MergedValues(ZonesOf(<<terms[1]>>))}

\* Mutant: the merged term is added after the terms it was merged from.
AppendMerged(terms) ==
    {Append(terms, ZoneTerm(values)) : values \in MergedValues(ZonesOf(terms))}

MergedTerms(terms) ==
    {<<ZoneTerm(values)>> : values \in MergedValues(ZonesOf(terms))}

\* The objects the API server may get back from the webhook.
HandleMutate(p) ==
    IF ~ IsZRS(p) \/ ZonesOf(p.terms) = {} \/ webhook = "dryRun"
    THEN {p}
    ELSE {[p EXCEPT !.terms = terms] : terms \in MergedTerms(p.terms)}

-----------------------------------------------------------------------------
(* The API server and its clients.                                         *)

\* Admission: a webhook that is down, times out or answers 400 is ignored.
Admitted(p) == IF webhook = "down" THEN {p} ELSE HandleMutate(p)

Create(v, p) ==
    /\ pv[v] = Absent
    /\ \E q \in Admitted(p) : pv' = [pv EXCEPT ![v] = q]
    /\ asked' = [asked EXCEPT ![v] = p.terms]
    /\ bypassed' = [bypassed EXCEPT ![v] = webhook # "serving"]
    /\ refused' = [refused EXCEPT ![v] = FALSE]
    /\ UNCHANGED <<webhook, affinityImmutable>>

\* Validation: the affinity of a stored volume may be set but not changed.
Acceptable(old, new) ==
    affinityImmutable => old.terms \in {<<>>, new.terms}

\* A controller binds, labels or annotates a volume and sends its affinity back
\* as it read it.
Update(v) ==
    /\ pv[v] # Absent
    /\ \E q \in Admitted(pv[v]) :
          IF Acceptable(pv[v], q)
          THEN /\ pv' = [pv EXCEPT ![v] = q]
               /\ bypassed' = [bypassed EXCEPT ![v] = @ /\ webhook # "serving"]
               /\ UNCHANGED refused
          ELSE /\ refused' = [refused EXCEPT ![v] = TRUE]
               /\ UNCHANGED <<pv, bypassed>>
    /\ UNCHANGED <<webhook, asked, affinityImmutable>>

\* A user edits the affinity of a volume.
Edit(v, terms) ==
    /\ pv[v] # Absent
    /\ terms # pv[v].terms
    /\ \E q \in Admitted([pv[v] EXCEPT !.terms = terms]) :
          /\ Acceptable(pv[v], q)
          /\ pv' = [pv EXCEPT ![v] = q]
    /\ asked' = [asked EXCEPT ![v] = terms]
    /\ bypassed' = [bypassed EXCEPT ![v] = webhook # "serving"]
    /\ UNCHANGED <<webhook, refused, affinityImmutable>>

\* DELETE is not among the webhook's operations.
Delete(v) ==
    /\ pv[v] # Absent
    /\ pv' = [pv EXCEPT ![v] = Absent]
    /\ asked' = [asked EXCEPT ![v] = <<>>]
    /\ UNCHANGED <<webhook, bypassed, refused, affinityImmutable>>

\* The replica is lost, restarted, or rolled out with another DRY_RUN.
Rollout(mode) ==
    /\ webhook # mode
    /\ webhook' = mode
    /\ UNCHANGED <<pv, asked, bypassed, refused, affinityImmutable>>

Next ==
    \/ \E v \in Volumes :
          \/ \E p \in Objects : Create(v, p)
          \/ Update(v)
          \/ \E p \in Objects : Edit(v, p.terms)
          \/ Delete(v)
    \/ \E mode \in {"down", "serving", "dryRun"} : Rollout(mode)

Spec == Init /\ [][Next]_vars

-----------------------------------------------------------------------------
(* Properties.                                                             *)

\* The stored volumes are volumes, the rest is bookkeeping.
TypeOK ==
    /\ pv \in [Volumes -> PersistentVolumes \union {Absent}]
    /\ webhook \in {"down", "serving", "dryRun"}
    /\ asked \in [Volumes -> Seq(Seq(Expressions))]
    /\ bypassed \in [Volumes -> BOOLEAN]
    /\ refused \in [Volumes -> BOOLEAN]
    /\ affinityImmutable \in BOOLEAN

\* A node in zone z matches the term: every expression on the zone key holds.
Matches(term, z) ==
    \A j \in DOMAIN term :
        term[j].key = topologyZoneKey =>
            (term[j].operator = "In" <=> z \in Range(term[j].values))

\* The scheduler takes any term.
Allows(terms, z) == \E i \in DOMAIN terms : Matches(terms[i], z)

\* The node provisioner (Karpenter) looks at the first term only.
ProvisionerAllows(terms, z) == terms # <<>> /\ Matches(terms[1], z)

\* Terms as the Azure Disk CSI driver writes them: one zone, or none, each.
DriverTerms(terms) ==
    \A i \in DOMAIN terms :
        /\ Len(terms[i]) = 1
        /\ terms[i][1].key = topologyZoneKey
        /\ terms[i][1].operator = "In"

\* A pod pinned to any zone the driver gave a zone redundant disk gets a node in
\* that zone, after any number of updates, unless the webhook did not serve the
\* request that chose the zones nor any later one.
SchedulableAnywhere ==
    \A v \in Volumes :
        pv[v] # Absent /\ ~ bypassed[v] /\ IsZRS(pv[v]) =>
            \A z \in Zones :
                z \in ZonesOf(asked[v]) => ProvisionerAllows(pv[v].terms, z)

\* Merging, merging again and skipping, in whatever order, neither give nor take
\* away a zone the driver chose, whatever the kind of the disk; and terms that name
\* only the empty zone stay open to the nodes outside every zone.
ZonesPreserved ==
    \A v \in Volumes :
        pv[v] # Absent /\ DriverTerms(asked[v]) =>
            /\ \A z \in Zones : Allows(pv[v].terms, z) <=> Allows(asked[v], z)
            /\ ZonesOf(asked[v]) = {} =>
                 (Allows(pv[v].terms, NoZone) <=> Allows(asked[v], NoZone))

\* An API server that refuses to change an affinity refuses the update of a
\* controller only for a volume stored without the webhook's patch: the patch of
\* a patched volume changes nothing, to the order of the zones.
RefusedOnlyAfterBypass ==
    \A v \in Volumes : refused[v] /\ pv[v] # Absent => bypassed[v]

\* The inductive invariant behind RefusedOnlyAfterBypass: a volume is stored as
\* it was asked for or merged; a patched one is merged; one whose update was
\* refused is stored unmerged, for good.
Merged(terms) == <<ZoneTerm(SortStrings[ZonesOf(terms)])>>

Mergeable(v) == IsZRS(pv[v]) /\ ZonesOf(asked[v]) # {}

VolumeInv(v) ==
    pv[v] # Absent =>
        /\ \/ pv[v].terms = asked[v]
           \/ Mergeable(v) /\ pv[v].terms = Merged(asked[v])
        /\ ~ bypassed[v] /\ Mergeable(v) => pv[v].terms = Merged(asked[v])
        /\ refused[v] => /\ affinityImmutable
                         /\ bypassed[v]
                         /\ Mergeable(v)
                         /\ pv[v].terms = asked[v]
                         /\ pv[v].terms # Merged(asked[v])

=============================================================================
