---------------------------- MODULE MCPvZoneFix ----------------------------
(* Volumes of three zones, as the CSI driver and a user write them.        *)
EXTENDS PvZoneFix, SequencesExt

MCZones == 1 .. 3
MCNoZone == 0
MCSortStrings == [S \in SUBSET MCZones |-> SetToSortSeq(S, <)]

In(z) == [key |-> topologyZoneKey, operator |-> "In", values |-> <<z>>]
Hostname == [key |-> "other", operator |-> "In", values |-> <<>>]

Volume(driver, sku, terms) == [driver |-> driver, sku |-> sku, terms |-> terms]

MCObjects ==
    {Volume("disk.csi.azure.com", sku, terms) : sku \in {"ZRS", "LRS"},
        terms \in {<<>>,
                   <<<<In(0)>>>>,
                   <<<<In(2)>>>>,
                   <<<<In(2)>>, <<In(1)>>>>,
                   <<<<In(3)>>, <<In(0)>>, <<In(1)>>>>}}
      \union
    {Volume("other", "ZRS", <<<<In(3)>>, <<In(2)>>>>),
     Volume("disk.csi.azure.com", "ZRS", <<<<In(1), Hostname>>>>)}
=============================================================================
