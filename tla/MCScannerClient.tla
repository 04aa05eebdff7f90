--------------------------- MODULE MCScannerClient ---------------------------
(* One package of two files; a call with the transitive radar, one with      *)
(* advisories alone, and a synchronous call beside them.                   *)
EXTENDS ScannerClient

CONSTANTS tool, gate, deny

MCCalls == {tool, gate, deny}
MCKind == <<"artifact", "text">>
MCContents == {"benign", "evil", "bad"}
\* The package and one dependency are asked about: of the others one is the
\* host's own, one has a range, and one is past the limit.  The two share an
\* advisory, so that all that is known of them has just room in an answer.
MCAdvisories == {"x", "y"}
Dependency(kind, known) == [ours |-> kind = "ours", exact |-> kind # "range", known |-> known]
MCManifest == <<Dependency("exact", {"x"}), Dependency("ours", {"y"}), Dependency("range", {"y"}),
                Dependency("exact", {"x", "y"}), Dependency("exact", {"y"})>>
MCStart == {[f \in Files |-> "evil"]}
MCEdits == {<<2, "bad">>}

=============================================================================
