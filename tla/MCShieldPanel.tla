---------------------------- MODULE MCShieldPanel ----------------------------
(* One panel, small documents of every kind, and in each behaviour a few of  *)
(* each thing that may happen.                                               *)
EXTENDS ShieldPanel

Plain == Entry("plain")
Tagged == Entry("tagged")
MCDocuments ==
    {NoFile, Document(<<>>), [Document(<<Plain>>) EXCEPT !.dashes = TRUE],
     [Document(<<Plain, VetEntry("inline", "none", "watch", TRUE)>>) EXCEPT !.broken = TRUE],
     [Document(<<VetEntry("block", "none", "watch", FALSE)>>) EXCEPT !.broken = TRUE]} \cup
    {Document(<<Plain, vet, Tagged>>) :
        vet \in {VetEntry("bare", "none", "none", FALSE), VetEntry("inline", "hardened", "none", TRUE),
                 VetEntry("block", "paranoid", "none", TRUE), VetEntry("block", "hardened", "off", FALSE),
                 VetEntry("block", "none", "watch", FALSE)}} \cup
    {Document(<<VetEntry("inline", "paranoid", "watch", TRUE), Plain>>)}

MCWorld(disks, p, q, s, f, n, d, e) ==
    [disks |-> disks,
     left |-> [posts |-> p, polls |-> q, saves |-> s, faults |-> f, starts |-> n, days |-> d, events |-> e]]
MCOneDisk == {Document(<<VetEntry("block", "paranoid", "none", TRUE), Plain>>)}
MCWorlds ==
    {MCWorld(MCDocuments, 2, 0, 1, 1, 1, 0, 0), MCWorld(MCDocuments, 1, 0, 0, 1, 2, 0, 0),
     MCWorld(MCOneDisk, 0, 3, 0, 1, 2, 0, 2), MCWorld(MCOneDisk, 0, 3, 0, 1, 2, 3, 0),
     MCWorld(MCOneDisk, 2, 2, 0, 0, 1, 0, 0)}
MCReleases == <<[version |-> 1, tested |-> {1}], [version |-> 2, tested |-> {1, 2}]>>
MCOwn == [version |-> 1, tested |-> {1}]

=============================================================================
