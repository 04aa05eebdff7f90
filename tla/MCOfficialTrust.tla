--------------------------- MODULE MCOfficialTrust ---------------------------
(* A catalogued package and one the shipped catalog does not list yet, whose *)
(* patch the user declared; one version with official and other bytes.       *)
EXTENDS OfficialTrust

MCVersions  == {"v1"}
MCContents  == {"official", "patched"}
MCVersionOf == [c \in MCContents |-> "v1"]
MCGenuine   == {"official"}
MCPkgs      == {"core", "late"}
MCSeed      == {"core"}
MCPublished == {"late"}
MCAcked     == {<<"late", "patched">>}
MCTasks     == 1..2

\* Of a package whose record was dropped nothing is promised any more, and
\* `forgotten' only grows: what follows when both were dropped is left out.
NotAllDropped == forgotten # Keys

\* For the queue: one package that is updated through three versions, one of
\* them also installed with other bytes.
QueuePkgs      == {"core"}
QueueVersions  == {"v1", "v2", "v3"}
QueueContents  == {"one", "patched one", "two", "three"}
QueueVersionOf == [c \in QueueContents |->
    IF c = "two" THEN "v2" ELSE IF c = "three" THEN "v3" ELSE "v1"]
QueueGenuine   == QueueContents \ {"patched one"}
QueueTasks     == 1..4
=============================================================================
