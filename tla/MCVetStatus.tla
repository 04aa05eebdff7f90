---------------------------- MODULE MCVetStatus ----------------------------
(* A small board: a runtime alarm with a merge key, one advisory shared by *)
(* two packages, and one verdict row of a package alone.                   *)
EXTENDS VetStatus

MCIds == {"n3@a", "advisory", "own"}
MCGroups == {"n3", "advisory", "own"}
MCGroupOf == [i \in MCIds |-> IF i = "n3@a" THEN "n3" ELSE i]
MCSeverities ==
    [i \in MCIds |-> IF i = "n3@a" THEN {"yellow", "red"} ELSE {"red"}]
MCPlugins == {"p1", "p2"}
MCOwnIds == [p \in MCPlugins |-> IF p = "p1" THEN {"own"} ELSE {}]
MCAggIds == {"advisory"}
=============================================================================
