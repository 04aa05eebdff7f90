--------------------------- MODULE MCSharedStores ---------------------------
(* Four versions: the second adds execution and network at once, the third   *)
(* gives the network up for a sensitive path, the fourth is broken and has   *)
(* nothing the scan can read; two records are kept.                          *)
EXTENDS AuditLists

CONSTANTS ours, theirs

MCHosts == {ours, theirs}
MCVersions == 1..4
MCCan == <<{"import"}, {"import", "net", "exec"}, {"exec", "secretPath", "ghost"}, {}>>
MCAudited == {1}

MCEngine == [h \in MCHosts |-> IF h = ours THEN "new" ELSE "old"]
Finds(verdict, codes) == [verdict |-> verdict, codes |-> codes]
MCVerdicts == <<{Finds("clean", {})}, {Finds("clean", {}), Finds("suspicious", {"OSV"})},
                {Finds("critical", {"R1"})}, {Finds("clean", {})}>>

Bound(scans, marks, faults, edits, restarts) ==
    [scans |-> scans, gates |-> 0, lists |-> 0, marks |-> marks,
     faults |-> faults, edits |-> edits, restarts |-> restarts]
Lists(scans, gates, faults, edits, restarts) ==
    [Bound(scans, 0, faults, edits, restarts) EXCEPT !.gates = gates, !.lists = 1]

MCScenarios ==
    {Bound(4, 0, 1, 0, 0), Bound(3, 0, 0, 1, 0), Bound(3, 0, 0, 0, 1),
     Bound(1, 5, 0, 1, 0), Bound(0, 5, 1, 0, 1),
     Lists(3, 1, 0, 0, 0), Lists(2, 1, 0, 0, 1), Lists(2, 1, 1, 0, 0), Lists(1, 1, 0, 1, 0)}

=============================================================================
