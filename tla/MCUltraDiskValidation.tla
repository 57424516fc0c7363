----------------------- MODULE MCUltraDiskValidation -----------------------
(* Machines with up to two data disks, good in all but one or two respects. *)
EXTENDS UltraDiskValidation

Good(lun) ==
    [sku |-> "Ultra", iops |-> TRUE, throughput |-> TRUE, size |-> TRUE,
     caching |-> "None", zone |-> 1, lun |-> lun]

DiskSet(lun) ==
    {Good(lun),
     [Good(lun) EXCEPT !.iops = FALSE, !.size = FALSE],
     [Good(lun) EXCEPT !.caching = "ReadOnly"],
     [Good(lun) EXCEPT !.zone = 2],
     [Good(lun) EXCEPT !.zone = NoZone],
     [Good(lun) EXCEPT !.sku = "Premium", !.caching = "ReadOnly"],
     [Good(lun) EXCEPT !.sku = "Premium"]}

MCMachines ==
    [sizeSupported : BOOLEAN, zone : {1, NoZone},
     nics : {<<TRUE>>, <<FALSE, TRUE>>},
     os : {[sku |-> "Premium", caching |-> "ReadWrite", zone |-> 1],
           [sku |-> "Standard", caching |-> "None", zone |-> 2]},
     disks : {<<>>} \union {<<d>> : d \in DiskSet(0)}
              \union {<<d, e>> : d \in DiskSet(1), e \in DiskSet(0)}
              \union {<<d, e>> : d \in DiskSet(2), e \in {Good(0)}}]
=============================================================================
