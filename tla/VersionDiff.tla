---------------------------- MODULE VersionDiff ----------------------------
(***************************************************************************)
(* What one version of a plugin can do, compared with another version:     *)
(* guard/version-diff.ts, and the comparison of a declared manifest with   *)
(* what the plugin was seen doing, guard/capability-diff.ts.               *)
(*                                                                         *)
(* A manifest is the set of what it names.  Of each kind one name stands   *)
(* for all, except the paths, where a sensitive one decides the colour:    *)
(* "host", "spawn", "import", "path", "secretPath", "ghost" and "zombie"   *)
(* (undeclared and unused dependencies), and the three summary flags       *)
(* "net", "exec", "native"; "blob" is a named native binary.               *)
(***************************************************************************)
EXTENDS Integers, FiniteSets, FiniteSetsExt

Named == {"host", "spawn", "import", "path", "secretPath", "ghost", "zombie", "blob"}
Flags == {"net", "exec", "native"}
Manifests == SUBSET (Named \cup Flags)

None == [severity |-> "none", kind |-> "none"]

\* diffManifests: an addition is what only the newer manifest has.
Added(prev, next)   == next \ prev
Dropped(prev, next) == prev \ next

\* hasAnyAddition: undeclared and unused dependencies are listed but do not tell.
HasAddition(added) == added \ {"ghost", "zombie"} # {}

\* isEmptyManifest: binaries' names do not count, the flag does.
EmptyManifest(m) == m \subseteq {"blob"}

(***************************************************************************)
(* upgradeSeverity: red when the additions make a pair that can carry data *)
(* out, information for any other addition.                                *)
(***************************************************************************)
UpgradeSeverity(added) ==
    LET pairs == {{"net", "exec"}, {"net", "secretPath"}, {"exec", "secretPath"},
                  {"native", "net"}, {"native", "exec"}, {"native", "secretPath"}}
    IN  IF ~HasAddition(added) THEN "none"
        ELSE IF \E p \in pairs : p \subseteq added THEN "red" ELSE "info"

\* The alarm of the first version ever seen of a plugin (cold start).
ColdAlarm(can, audited) ==
    IF {"net", "exec"} \subseteq can /\ ~audited
    THEN [severity |-> "info", kind |-> "upgrade-cold"] ELSE None

UpgradeAlarm(prev, next) ==
    LET severity == UpgradeSeverity(Added(prev, next))
    IN  IF severity = "none" THEN None ELSE [severity |-> severity, kind |-> "upgrade-diff"]

\* ---- records: [version, at, can]; one plugin, so the version is the key ----

\* Mutant: the sort is the wrong way round.
Earliest(recs) == CHOOSE r \in recs : \A s \in recs : r.at <= s.at

Latest(recs) == CHOOSE r \in recs : \A s \in recs : s.at <= r.at

\* findPreviousRecord: the most recent record of another version.
Others(recs, version) == {r \in recs : r.version # version}

\* Mutant: the oldest stay.
PrunedNewest(recs, most) ==
    IF Cardinality(recs) <= most THEN recs
    ELSE {r \in recs : Cardinality({s \in recs : s.at < r.at}) < most}

\* pruneCapabilities: the newest stay.
Pruned(recs, most) ==
    IF Cardinality(recs) <= most THEN recs
    ELSE {r \in recs : Cardinality({s \in recs : s.at > r.at}) < most}

WithRecord(recs, new) == Others(recs, new.version) \cup {new}

(***************************************************************************)
(* history and label: what vet_diff and vet_label show of the records: the *)
(* latest, the one before it, and what was added between the two.          *)
(***************************************************************************)
History(recs) ==
    IF recs = {} THEN [latest |-> 0, prior |-> 0, added |-> {}]
    ELSE LET cur  == Latest(recs)
             rest == recs \ {cur}
         IN  IF rest = {} THEN [latest |-> cur.version, prior |-> 0, added |-> {}]
             ELSE [latest |-> cur.version, prior |-> Latest(rest).version,
                   added |-> Added(Latest(rest).can, cur.can)]
=============================================================================
