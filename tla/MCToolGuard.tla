----------------------------- MODULE MCToolGuard -----------------------------
(* Two overlapping tool calls beside the load of one third-party plugin; that  *)
(* plugin beside an official package of the same last name and a path; and     *)
(* beside a plugin without a directory.  Its files change twice, so that they  *)
(* can be changed for good and be put back.                                    *)
EXTENDS ToolGuard, TLC

CONSTANTS plug, core, gone, path, x1, x2

MCPackages == {plug, core, gone, path}
MCClass == plug :> "npm" @@ core :> "official" @@ gone :> "npm" @@ path :> "local"
MCBasename == plug :> plug @@ core :> plug @@ gone :> gone @@ path :> path
MCEscaped == plug :> plug @@ core :> core @@ gone :> gone @@ path :> path
MCConfig(mode, audit) ==
    [mode |-> mode, denyOn |-> "critical", autoScan |-> TRUE, audit |-> audit, allow |-> {},
     osv |-> TRUE, transitive |-> FALSE]
MCConfigs == {MCConfig("report", FALSE), MCConfig("deny", TRUE)}
MCContent == [p \in Packages |-> "clean"]
MCRewrites == {plug} \X {"clean", "critical"}
MCRecords == {[name |-> plug, version |-> "v1", at |-> 1, readable |-> TRUE, digest |-> "clean",
               engine |-> "old", verdict |-> "clean"]}
MCStats == {[phase |-> "ran", targets |-> 1, attempted |-> 1, answered |-> 1]}
MCPayload == x1 :> <<"critical", "clean">> @@ x2 :> <<"critical">>
MCWorlds == {[loads |-> {plug}, calls |-> {x1, x2}], [loads |-> {plug, core, path}, calls |-> {}],
             [loads |-> {plug, gone}, calls |-> {}]}

=============================================================================
