-------------------------- MODULE PvZoneFixProofs --------------------------
(***************************************************************************)
(* Theorems about the zone webhook for every set of volumes and zones,     *)
(* every object a client may ask for, and an API server that does or does  *)
(* not let an affinity change.                                             *)
(***************************************************************************)
EXTENDS PvZoneFix, TLAPS

\* A merged term is well typed and has exactly the zones it was merged from.
LEMMA ZonesOfMerged ==
    ASSUME NEW S \in SUBSET Zones
    PROVE  /\ <<ZoneTerm(SortStrings[S])>> \in Seq(Seq(Expressions))
           /\ ZonesOf(<<ZoneTerm(SortStrings[S])>>) = S
  <1> DEFINE values == SortStrings[S]
             expr == [key |-> topologyZoneKey, operator |-> "In", values |-> values]
  <1>1. values \in Seq(Zones) /\ Range(values) = S
    BY SortAssumption
  <1>2. ZoneTerm(values) = <<expr>>
    BY DEF ZoneTerm
  <1>3. expr \in Expressions
    BY <1>1 DEF Expressions
  <1>4. <<<<expr>>>> \in Seq(Seq(Expressions))
    BY <1>3
  <1>5. ZonesOf(<<<<expr>>>>) = {z \in Zones : z \in Range(values)}
    BY DEF ZonesOf
  <1>6. QED
    BY <1>1, <1>2, <1>4, <1>5

\* Merging is idempotent: the patch of a patched volume is the volume itself.
LEMMA MergeIdempotent ==
    ASSUME NEW terms PROVE Merged(Merged(terms)) = Merged(terms)
  BY ZonesOfMerged DEF Merged, ZonesOf

\* What admission may make of an object: the object itself, or merged when the
\* webhook serves and the object is a zone redundant disk with zones.
LEMMA AdmittedIs ==
    ASSUME NEW p, NEW q \in Admitted(p)
    PROVE  /\ q = p \/ q = [p EXCEPT !.terms = Merged(p.terms)]
           /\ webhook = "serving" /\ IsZRS(p) /\ ZonesOf(p.terms) # {} =>
                q = [p EXCEPT !.terms = Merged(p.terms)]
           /\ webhook # "serving" /\ webhook \in {"down", "dryRun"} => q = p
           /\ ~ IsZRS(p) \/ ZonesOf(p.terms) = {} => q = p
  BY DEF Admitted, HandleMutate, MergedTerms, MergedValues, Merged

\* Admission yields a volume of the same kind with well typed terms.
LEMMA AdmittedTyped ==
    ASSUME NEW p \in PersistentVolumes, NEW q \in Admitted(p)
    PROVE  /\ q \in PersistentVolumes
           /\ q.sku = p.sku
           /\ \/ q.terms = p.terms
              \/ q.terms = Merged(p.terms)
  <1>1. q = p \/ q = [p EXCEPT !.terms = Merged(p.terms)]
    BY AdmittedIs
  <1>2. Merged(p.terms) \in Seq(Seq(Expressions))
    BY ZonesOfMerged DEF Merged, ZonesOf
  <1>3. QED
    BY <1>1, <1>2 DEF PersistentVolumes

WInv == TypeOK /\ \A v \in Volumes : VolumeInv(v)

\* The invariant holds before any volume exists.
LEMMA InitWInv == Init => WInv
  BY DEF Init, WInv, TypeOK, VolumeInv

\* Every step keeps the types.
LEMMA NextTypeOK == TypeOK /\ [Next]_vars => TypeOK'
  <1> SUFFICES ASSUME TypeOK, [Next]_vars PROVE TypeOK'
    OBVIOUS
  <1>1. ASSUME NEW v \in Volumes, NEW p \in Objects, Create(v, p) PROVE TypeOK'
    <2>1. PICK q \in Admitted(p) : pv' = [pv EXCEPT ![v] = q]
      BY <1>1 DEF Create
    <2>2. q \in PersistentVolumes /\ p.terms \in Seq(Seq(Expressions))
      BY AdmittedTyped, ObjectsAssumption DEF PersistentVolumes
    <2>3. QED
      BY <1>1, <2>1, <2>2 DEF Create, TypeOK
  <1>2. ASSUME NEW v \in Volumes, Update(v) PROVE TypeOK'
    <2>1. pv[v] \in PersistentVolumes
      BY <1>2 DEF Update, TypeOK
    <2>2. \A q \in Admitted(pv[v]) : q \in PersistentVolumes
      BY <2>1, AdmittedTyped
    <2>3. QED
      BY <1>2, <2>2, ZenonT(60) DEF Update, TypeOK
  <1>3. ASSUME NEW v \in Volumes, NEW p \in Objects, Edit(v, p.terms) PROVE TypeOK'
    <2> DEFINE e == [pv[v] EXCEPT !.terms = p.terms]
    <2>1. pv[v] \in PersistentVolumes /\ p \in PersistentVolumes
      BY <1>3, ObjectsAssumption DEF Edit, TypeOK
    <2>2. e \in PersistentVolumes /\ p.terms \in Seq(Seq(Expressions))
      BY <2>1 DEF PersistentVolumes
    <2>3. PICK q \in Admitted(e) : pv' = [pv EXCEPT ![v] = q]
      BY <1>3 DEF Edit
    <2>4. q \in PersistentVolumes
      BY <2>2, AdmittedTyped
    <2>5. QED
      BY <1>3, <2>2, <2>3, <2>4 DEF Edit, TypeOK
  <1>4. ASSUME NEW v \in Volumes, Delete(v) PROVE TypeOK'
    BY <1>4 DEF Delete, TypeOK
  <1>5. ASSUME NEW mode \in {"down", "serving", "dryRun"}, Rollout(mode)
        PROVE  TypeOK'
    BY <1>5 DEF Rollout, TypeOK
  <1>6. CASE UNCHANGED vars
    BY <1>6 DEF vars, TypeOK
  <1>7. QED
    BY <1>1, <1>2, <1>3, <1>4, <1>5, <1>6 DEF Next

\* A volume no step writes keeps its invariant.
LEMMA OtherVolume ==
    ASSUME NEW w, VolumeInv(w), pv'[w] = pv[w], asked'[w] = asked[w],
           bypassed'[w] = bypassed[w], refused'[w] = refused[w],
           affinityImmutable' = affinityImmutable
    PROVE  VolumeInv(w)'
  BY DEF VolumeInv, Mergeable

\* A volume stored as its client asked keeps the invariant, whoever answered.
LEMMA StoredKeeps ==
    ASSUME NEW v, NEW p \in PersistentVolumes, NEW q \in Admitted(p),
           webhook \in {"down", "serving", "dryRun"},
           pv'[v] = q, asked'[v] = p.terms, refused'[v] = FALSE,
           bypassed'[v] = (webhook # "serving")
    PROVE  VolumeInv(v)'
  <1>1. IsZRS(q) <=> IsZRS(p)
    BY AdmittedTyped DEF IsZRS
  <1>2. /\ q = p \/ q = [p EXCEPT !.terms = Merged(p.terms)]
        /\ webhook = "serving" /\ IsZRS(p) /\ ZonesOf(p.terms) # {} =>
             q = [p EXCEPT !.terms = Merged(p.terms)]
        /\ ~ IsZRS(p) \/ ZonesOf(p.terms) = {} => q = p
    BY AdmittedIs
  <1>3. [p EXCEPT !.terms = Merged(p.terms)].terms = Merged(p.terms)
    BY DEF PersistentVolumes
  <1>4. QED
    BY <1>1, <1>2, <1>3 DEF VolumeInv, Mergeable

\* Every step keeps the invariant of every volume.
LEMMA NextWInv == WInv /\ [Next]_vars => WInv'
  <1> SUFFICES ASSUME WInv, [Next]_vars, NEW w \in Volumes PROVE VolumeInv(w)'
    BY NextTypeOK DEF WInv
  <1> USE DEF WInv
  <1>1. ASSUME NEW v \in Volumes, NEW p \in Objects, Create(v, p)
        PROVE  VolumeInv(w)'
    <2>1. CASE w # v
      BY <1>1, <2>1, OtherVolume DEF Create, TypeOK
    <2>2. CASE w = v
      <3>1. PICK q \in Admitted(p) : pv' = [pv EXCEPT ![v] = q]
        BY <1>1 DEF Create
      <3>2. pv'[v] = q /\ asked'[v] = p.terms /\ refused'[v] = FALSE
              /\ bypassed'[v] = (webhook # "serving")
        BY <1>1, <3>1 DEF Create, TypeOK
      <3>3. p \in PersistentVolumes
        BY ObjectsAssumption
      <3>4. QED
        BY <2>2, <3>2, <3>3, StoredKeeps DEF TypeOK
    <2>3. QED
      BY <2>1, <2>2
  <1>2. ASSUME NEW v \in Volumes, Update(v) PROVE VolumeInv(w)'
    <2>1. CASE w # v
      BY <1>2, <2>1, OtherVolume, ZenonT(60) DEF Update, TypeOK
    <2>2. CASE w = v
      <3>1. PICK q \in Admitted(pv[v]) :
               IF Acceptable(pv[v], q)
               THEN /\ pv' = [pv EXCEPT ![v] = q]
                    /\ bypassed' = [bypassed EXCEPT ![v] = @ /\ webhook # "serving"]
                    /\ UNCHANGED refused
               ELSE /\ refused' = [refused EXCEPT ![v] = TRUE]
                    /\ UNCHANGED <<pv, bypassed>>
        BY <1>2 DEF Update
      <3>2. /\ asked' = asked /\ affinityImmutable' = affinityImmutable
            /\ pv[v] # Absent /\ pv[v] \in PersistentVolumes
            /\ VolumeInv(v)
        BY <1>2 DEF Update, TypeOK
      <3>3. /\ q.sku = pv[v].sku
            /\ q = pv[v] \/ q.terms = Merged(pv[v].terms)
            /\ webhook = "serving" /\ IsZRS(pv[v]) /\ ZonesOf(pv[v].terms) # {} =>
                 q.terms = Merged(pv[v].terms)
            /\ ~ IsZRS(pv[v]) \/ ZonesOf(pv[v].terms) = {} => q = pv[v]
            /\ webhook # "serving" => q = pv[v]
        <4>1. [pv[v] EXCEPT !.terms = Merged(pv[v].terms)].terms = Merged(pv[v].terms)
          BY <3>2 DEF PersistentVolumes
        <4>2. q.sku = pv[v].sku
          BY <3>2, AdmittedTyped
        <4>3. /\ q = pv[v] \/ q = [pv[v] EXCEPT !.terms = Merged(pv[v].terms)]
              /\ webhook = "serving" /\ IsZRS(pv[v]) /\ ZonesOf(pv[v].terms) # {} =>
                   q = [pv[v] EXCEPT !.terms = Merged(pv[v].terms)]
              /\ ~ IsZRS(pv[v]) \/ ZonesOf(pv[v].terms) = {} => q = pv[v]
              /\ webhook # "serving" => q = pv[v]
          BY AdmittedIs DEF TypeOK
        <4>4. QED
          BY <4>1, <4>2, <4>3
      <3>4. /\ ZonesOf(Merged(asked[v])) = ZonesOf(asked[v])
            /\ Merged(Merged(asked[v])) = Merged(asked[v])
        BY ZonesOfMerged, MergeIdempotent DEF Merged, ZonesOf
      <3>5. /\ Merged(pv[v].terms) = Merged(asked[v])
            /\ ZonesOf(pv[v].terms) = ZonesOf(asked[v])
        BY <3>2, <3>4 DEF VolumeInv
      <3>6. CASE Acceptable(pv[v], q)
        <4>1. /\ pv'[v] = q
              /\ bypassed'[v] = (bypassed[v] /\ webhook # "serving")
              /\ refused'[v] = refused[v]
          BY <3>1, <3>6 DEF TypeOK
        <4>2. IsZRS(q) <=> IsZRS(pv[v])
          BY <3>3 DEF IsZRS
        <4>3. q.terms = asked[v] \/ (Mergeable(v) /\ q.terms = Merged(asked[v]))
          BY <3>2, <3>3, <3>5 DEF VolumeInv, Mergeable
        <4>4. ASSUME ~ (bypassed[v] /\ webhook # "serving"), Mergeable(v)
              PROVE  q.terms = Merged(asked[v])
          BY <3>2, <3>3, <3>5, <4>4 DEF VolumeInv, Mergeable
        <4>5. ASSUME refused[v]
              PROVE  /\ webhook # "serving"
                     /\ q = pv[v]
          <5>1. /\ affinityImmutable /\ Mergeable(v)
                /\ pv[v].terms # Merged(asked[v])
            BY <3>2, <4>5 DEF VolumeInv
          <5>2. pv[v].terms # <<>>
            BY <5>1, <3>5 DEF Mergeable, ZonesOf
          <5>3. q.terms = pv[v].terms
            BY <3>6, <5>1, <5>2 DEF Acceptable
          <5>4. QED
            BY <3>3, <3>5, <5>1, <5>3 DEF Mergeable
        <4>6. QED
          BY <2>2, <3>2, <4>1, <4>2, <4>3, <4>4, <4>5 DEF VolumeInv, Mergeable
      <3>7. CASE ~ Acceptable(pv[v], q)
        <4>1. /\ pv'[v] = pv[v] /\ bypassed'[v] = bypassed[v]
              /\ refused'[v] = TRUE
          BY <3>1, <3>7 DEF TypeOK
        <4>2. affinityImmutable /\ q.terms # pv[v].terms
          BY <3>7 DEF Acceptable
        <4>3. /\ q.terms = Merged(asked[v])
              /\ Mergeable(v)
          BY <3>3, <3>5, <4>2 DEF Mergeable
        <4>4. pv[v].terms = asked[v] /\ bypassed[v]
          BY <3>2, <4>2, <4>3 DEF VolumeInv
        <4>5. QED
          BY <2>2, <3>2, <4>1, <4>2, <4>3, <4>4 DEF VolumeInv, Mergeable
      <3>8. QED
        BY <3>6, <3>7
    <2>3. QED
      BY <2>1, <2>2
  <1>3. ASSUME NEW v \in Volumes, NEW p \in Objects, Edit(v, p.terms)
        PROVE  VolumeInv(w)'
    <2>1. CASE w # v
      BY <1>3, <2>1, OtherVolume DEF Edit, TypeOK
    <2>2. CASE w = v
      <3> DEFINE e == [pv[v] EXCEPT !.terms = p.terms]
      <3>1. PICK q \in Admitted(e) : Acceptable(pv[v], q) /\ pv' = [pv EXCEPT ![v] = q]
        BY <1>3 DEF Edit
      <3>2. /\ pv[v] \in PersistentVolumes /\ pv[v] # Absent /\ VolumeInv(v)
            /\ p \in PersistentVolumes
        BY <1>3, ObjectsAssumption DEF Edit, TypeOK
      <3>3. /\ e \in PersistentVolumes
            /\ e.terms = p.terms
            /\ e.sku = pv[v].sku
        BY <3>2 DEF PersistentVolumes
      <3>4. /\ pv'[v] = q
            /\ asked'[v] = e.terms
            /\ bypassed'[v] = (webhook # "serving")
            /\ refused'[v] = refused[v]
        BY <1>3, <3>1, <3>3 DEF Edit, TypeOK
      <3>5. ASSUME refused[v] PROVE FALSE
        <4>1. /\ affinityImmutable /\ Mergeable(v)
              /\ pv[v].terms = asked[v]
              /\ pv[v].terms # Merged(pv[v].terms)
          BY <3>2, <3>5 DEF VolumeInv
        <4>2. pv[v].terms # <<>>
          BY <4>1 DEF Mergeable, ZonesOf
        <4>3. q.terms = pv[v].terms
          BY <3>1, <4>1, <4>2 DEF Acceptable
        <4>4. q.terms = p.terms \/ q.terms = Merged(p.terms)
          BY <3>3, AdmittedTyped
        <4>5. p.terms # pv[v].terms
          BY <1>3 DEF Edit
        <4>6. QED
          BY <4>1, <4>3, <4>4, <4>5, MergeIdempotent
      <3>6. refused'[v] = FALSE
        BY <3>4, <3>5 DEF TypeOK
      <3> HIDE DEF e
      <3>7. QED
        BY <2>2, <3>3, <3>4, <3>6, StoredKeeps DEF TypeOK
    <2>3. QED
      BY <2>1, <2>2
  <1>4. ASSUME NEW v \in Volumes, Delete(v) PROVE VolumeInv(w)'
    <2>1. CASE w # v
      BY <1>4, <2>1, OtherVolume DEF Delete, TypeOK
    <2>2. CASE w = v
      BY <1>4, <2>2 DEF Delete, TypeOK, VolumeInv
    <2>3. QED
      BY <2>1, <2>2
  <1>5. ASSUME NEW mode \in {"down", "serving", "dryRun"}, Rollout(mode)
        PROVE  VolumeInv(w)'
    BY <1>5, OtherVolume DEF Rollout
  <1>6. CASE UNCHANGED vars
    BY <1>6, OtherVolume DEF vars
  <1>7. QED
    BY <1>1, <1>2, <1>3, <1>4, <1>5, <1>6 DEF Next

\* The inductive invariant of the webhook and the API server.
THEOREM WebhookInvariance == Spec => []WInv
  BY InitWInv, NextWInv, PTL DEF Spec

\* Type correctness of the webhook.
THEOREM WebhookTypeCorrect == Spec => []TypeOK
  BY WebhookInvariance, PTL DEF WInv

\* Only a volume stored without the patch can have an update refused.
THEOREM UpdatesGoThrough == Spec => []RefusedOnlyAfterBypass
  <1>1. WInv => RefusedOnlyAfterBypass
    BY DEF WInv, RefusedOnlyAfterBypass, VolumeInv
  <1>2. QED
    BY <1>1, WebhookInvariance, PTL

\* A node in a zone matches the merged term exactly when the zone was merged.
LEMMA MergedMatches ==
    ASSUME NEW S \in SUBSET Zones, NEW z
    PROVE  Matches(ZoneTerm(SortStrings[S]), z) <=> z \in S
  BY SortAssumption DEF Matches, ZoneTerm

\* Every zone of a patched zone redundant disk is open to the node provisioner.
THEOREM EveryZoneSchedulable == Spec => []SchedulableAnywhere
  <1>1. WInv => SchedulableAnywhere
    <2> SUFFICES ASSUME WInv, NEW v \in Volumes, pv[v] # Absent, ~ bypassed[v],
                        IsZRS(pv[v]), NEW z \in Zones, z \in ZonesOf(asked[v])
                 PROVE  ProvisionerAllows(pv[v].terms, z)
      BY DEF SchedulableAnywhere
    <2>1. pv[v].terms = <<ZoneTerm(SortStrings[ZonesOf(asked[v])])>>
      BY DEF WInv, VolumeInv, Mergeable, Merged
    <2>2. Matches(ZoneTerm(SortStrings[ZonesOf(asked[v])]), z)
      BY MergedMatches DEF ZonesOf
    <2>3. QED
      BY <2>1, <2>2 DEF ProvisionerAllows
  <1>2. QED
    BY <1>1, WebhookInvariance, PTL

\* The scheduler sees the zones the driver chose, merged or not.
THEOREM ZonesKept == Spec => []ZonesPreserved
  <1>1. WInv => ZonesPreserved
    <2>0. ASSUME WInv, NEW v \in Volumes, pv[v] # Absent, ZonesOf(asked[v]) = {}
          PROVE  pv[v].terms = asked[v]
      BY <2>0 DEF WInv, VolumeInv, Mergeable
    <2> SUFFICES ASSUME WInv, NEW v \in Volumes, pv[v] # Absent,
                        DriverTerms(asked[v]), NEW z \in Zones
                 PROVE  Allows(pv[v].terms, z) <=> Allows(asked[v], z)
      BY <2>0 DEF ZonesPreserved
    <2>1. CASE pv[v].terms = asked[v]
      BY <2>1
    <2>2. CASE pv[v].terms = Merged(asked[v])
      <3>1. Allows(pv[v].terms, z) <=> z \in ZonesOf(asked[v])
        <4>1. Matches(ZoneTerm(SortStrings[ZonesOf(asked[v])]), z)
                <=> z \in ZonesOf(asked[v])
          BY MergedMatches DEF ZonesOf
        <4>2. DOMAIN pv[v].terms = {1}
                /\ pv[v].terms[1] = ZoneTerm(SortStrings[ZonesOf(asked[v])])
          BY <2>2 DEF Merged
        <4>3. QED
          BY <4>1, <4>2 DEF Allows
      <3>2. Allows(asked[v], z) <=> z \in ZonesOf(asked[v])
        <4>1. asked[v] \in Seq(Seq(Expressions))
          BY DEF WInv, TypeOK
        <4>2. \A i \in DOMAIN asked[v] :
                 /\ DOMAIN asked[v][i] = {1}
                 /\ asked[v][i][1].key = topologyZoneKey
                 /\ asked[v][i][1].operator = "In"
          BY <4>1 DEF DriverTerms
        <4>3. \A i \in DOMAIN asked[v] :
                 Matches(asked[v][i], z) <=> z \in Range(asked[v][i][1].values)
          BY <4>2 DEF Matches
        <4>4. QED
          BY <4>2, <4>3 DEF Allows, ZonesOf
      <3>3. QED
        BY <3>1, <3>2
    <2>3. QED
      BY <2>1, <2>2 DEF WInv, VolumeInv
  <1>2. QED
    BY <1>1, WebhookInvariance, PTL
=============================================================================
