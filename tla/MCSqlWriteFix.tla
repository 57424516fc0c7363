--------------------------- MODULE MCSqlWriteFix ---------------------------
(* A host of one processor with two instances, good in all but a few respects. *)
EXTENDS SqlWriteFix

File(db, kind, folder) ==
    [db |-> db, name |-> kind, kind |-> kind, folder |-> folder, size |-> 8,
     percentGrowth |-> FALSE]

Layout(system, data, log) ==
    {File("master", "ROWS", system), File("tempdb", "ROWS", <<"D", "T">>),
     File("app", "LOG", log)} \union {File("app", "ROWS", d) : d \in data}

Layouts ==
    {Layout(<<"C", "S">>, {<<"E", "S">>}, <<"F", "S">>),
     Layout(<<"C", "P", "S">>, {<<"E">>}, <<"E">>),
     Layout(<<"C", "S">>, {<<"E", "S">>, <<"F", "S">>}, <<"F", "S">>)}

Good == [unit |-> 65536, compressed |-> FALSE, indexing |-> FALSE]
Volumes(indexed) == [d \in {"C", "D", "E", "F"} |-> [Good EXCEPT !.indexing = d \in indexed]]

Disk == [media |-> "SSD", virtual |-> FALSE, cache |-> FALSE, sector |-> <<4096, 512>>]

Base ==
    [files |-> Layout(<<"C", "S">>, {<<"E", "S">>}, <<"F", "S">>),
     volumes |-> Volumes({}), disks |-> [d \in {"C", "E", "F"} |-> Disk],
     cpus |-> 1, ram |-> 16, maxMem |-> 12288,
     target |-> "i1", services |-> <<"i1", "i2">>, running |-> {"i1", "i2"},
     granted |-> {"i1"},
     model |-> [i \in {"i1", "i2"} |-> IF i = "i1" THEN "LOCK_PAGES" ELSE "CONVENTIONAL"],
     ifi |-> "Y", vlf |-> [db \in {"app"} |-> 20], highPerformance |-> TRUE,
     pageFile |-> "C", defender |-> TRUE,
     exclusions |-> {<<"C", "S">>, <<"D", "T">>, <<"E", "S">>, <<"F", "S">>},
     exeFound |-> FALSE]

Conventional(h) ==
    [h EXCEPT !.model = [i \in {"i1", "i2"} |-> "CONVENTIONAL"]]

\* Memory, services and privilege.
MemoryHosts ==
    {[h EXCEPT !.ram = m[1], !.maxMem = m[2]] :
        m \in {<<4, Unlimited>>, <<16, Unlimited>>, <<16, 12288>>, <<16, 14336>>,
               <<64, Unlimited>>, <<64, 58368>>, <<50, 40000>>},
        h \in {Base, Conventional(Base),
               [Conventional(Base) EXCEPT !.granted = {}],
               [Conventional(Base) EXCEPT !.services = <<"i2", "i1">>]}}

\* Files, exclusions and indexing.
FileHosts ==
    {[Base EXCEPT !.files = l, !.exclusions = x, !.volumes = Volumes(v)] :
        l \in Layouts, x \in {{}, {<<"E", "S">>}}, v \in {{}, {"C", "E"}}}
      \union {[Base EXCEPT !.exeFound = TRUE]}

\* What the fix script does not touch.
OtherHosts ==
    {[Base EXCEPT !.defender = FALSE],
     [Base EXCEPT !.ifi = "N"],
     [Base EXCEPT !.vlf["app"] = 80],
     [Base EXCEPT !.vlf["app"] = Unreadable],
     [Base EXCEPT !.pageFile = "D"],
     [Base EXCEPT !.highPerformance = FALSE, !.pageFile = "system"],
     [Base EXCEPT !.cpus = 4, !.disks["E"].cache = TRUE],
     [Base EXCEPT !.disks["F"].sector = <<512, 512>>],
     [Base EXCEPT !.volumes["E"].unit = 4096, !.disks["E"].media = "HDD"],
     [Base EXCEPT !.volumes["F"].compressed = TRUE]}

MCExe == <<"C", "exe">>

MCHosts == MemoryHosts \union FileHosts \union OtherHosts
=============================================================================
