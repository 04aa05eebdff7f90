----------------------------- MODULE AuditLists -----------------------------
(***************************************************************************)
(* The verdicts that outlive a scan, and what the panel makes of them: the *)
(* summaries file with the last verdict of each package                    *)
(* (guard/scan-summaries.ts), and the lists of plugins seen, new and       *)
(* waiting for an audit (guard/audit-summary.ts), which join it with       *)
(* capabilities.json and the audit archive.                                *)
(*                                                                         *)
(* A scan at load writes its summary first and its capabilities next, in   *)
(* one turn of the process (guards/internal-plugin.ts); a scan by the gate *)
(* (gate.ts) writes the summary only.  Capabilities and processes are      *)
(* those of SharedStores; "plug" is its plugin, "other" any other package. *)
(***************************************************************************)
EXTENDS SharedStores

CONSTANTS
    Verdicts,      \* version -> what its scan may find: [verdict, codes]
    Engine,        \* host -> the rules it was built with
    MostKept,      \* MAX_KEPT
    NewFor         \* NEW_PLUGIN_WINDOW_MS, in scans

ASSUME ListsAssumption ==
    /\ Verdicts \in [Versions -> SUBSET [verdict : {"critical", "suspicious", "clean"}, codes : SUBSET STRING]]
    /\ DOMAIN Engine = Hosts /\ MostKept \in Nat \ {0} /\ NewFor \in Nat

VARIABLES
    summaries,     \* scan-summaries.json: set of [name, version, verdict, codes, engine, at]
    noting,        \* host -> the summary it is in the middle of recording
    \* history
    last,          \* the finding of the plugin that was put on file last
    spoiled        \* a read or write failed, someone wrote in between, or edited

lists == <<summaries, noting, last, spoiled>>
allVars == <<vars, lists>>

Nothing == [at |-> "none"]
NoScan  == [version |-> 0]

\* ---- the summaries file ----

\* Mutant: another version with the same verdict is no news.
ChangedIgnoringVersion(old, new) ==
    \A s \in old : s.verdict # new.verdict \/ s.engine # new.engine \/ s.codes # new.codes

\* Nothing on file, or something else: verdict, version, engine or codes.
Changed(old, new) == \A s \in old : [s EXCEPT !.at = new.at] # new

OfName(recs, name) == {s \in recs : s.name = name}

\* The oldest leave when there are too many.
Kept(recs) ==
    {s \in recs : Cardinality({t \in recs : t.at > s.at}) < MostKept}

\* A failed read is an empty store.
NoteScan(h, name, via, finding, fault) ==
    /\ FreeOf(h) /\ noting[h] = Nothing
    /\ IF via = "gate" THEN Spend("gates", fault) ELSE budget.scans > 0 /\ Fault(fault)
    /\ noting' = [noting EXCEPT ![h] =
         [at |-> "noting", via |-> via, read |-> IF fault THEN {} ELSE summaries, seen |-> summaries,
          new |-> [name |-> name, version |-> installed, verdict |-> finding.verdict,
                   codes |-> finding.codes, engine |-> Engine[h], at |-> clock + 1]]]
    /\ spoiled' = (spoiled \/ fault)
    /\ UNCHANGED <<installed, stores, doing, told, clock, history, summaries, last>>

\* recordScanSummary: written when it says something else than what was read;
\* three failed attempts leave the file as it is.  A scan by the gate ends here.
SaveSummary(h, fault) ==
    /\ noting[h].at = "noting" /\ Fault(fault)
    /\ LET n       == noting[h]
           old     == OfName(n.read, n.new.name)
           changed == Changed(old, n.new)
           loads   == n.via = "load"
       IN  /\ summaries' = IF changed /\ ~fault THEN Kept((n.read \ old) \cup {n.new}) ELSE summaries
           /\ noting' = [noting EXCEPT ![h] =
                IF loads THEN [at |-> "recording"] ELSE Nothing]
           /\ last' = IF n.new.name = "plug" THEN n.new ELSE last
           /\ clock' = IF loads THEN clock ELSE clock + 1
           /\ spoiled' = (spoiled \/ fault \/ n.seen # summaries)
    /\ UNCHANGED <<installed, stores, doing, told, history>>

\* The scan goes on with recordScan, or has nothing to record.
Record(h, fault) ==
    /\ noting[h].at = "recording"
    /\ LoadCaps(h, fault)
    /\ spoiled' = (spoiled \/ fault)
    /\ UNCHANGED <<summaries, noting, last>>

SkipRecord(h) ==
    /\ noting[h].at = "recording" /\ FreeOf(h)
    /\ installed \in Sourceless /\ EmptyManifest(Can[installed])
    /\ noting' = [noting EXCEPT ![h] = Nothing]
    /\ Spend("scans", FALSE) /\ clock' = clock + 1
    /\ UNCHANGED <<installed, stores, doing, told, history, summaries, last, spoiled>>

EndRecord(h, fault) ==
    /\ noting[h].at = "recording"
    /\ SaveCaps(h, fault)
    /\ noting' = [noting EXCEPT ![h] = Nothing]
    /\ spoiled' = (spoiled \/ fault \/ doing[h].seen # caps)
    /\ UNCHANGED <<summaries, last>>

\* A scan ends before the plugin is replaced (the bytes it saw are the loaded ones).
Install(v) ==
    /\ \A h \in Hosts : noting[h] = Nothing
    /\ Upgrade(v) /\ UNCHANGED lists

Stop(h) ==
    /\ Restart(h)
    /\ noting' = [noting EXCEPT ![h] = Nothing]
    /\ spoiled' = (spoiled \/ noting[h] # Nothing)
    /\ UNCHANGED <<summaries, last>>

EditCaps(wipe) ==
    /\ Edit("caps", wipe) /\ spoiled' = TRUE
    /\ UNCHANGED <<summaries, noting, last>>

ListsInit ==
    /\ Init
    /\ summaries = {} /\ noting = [h \in Hosts |-> Nothing]
    /\ last = NoScan /\ spoiled = FALSE

\* The stores do not depend on the summaries: in a scenario without lists the
\* summaries are left out, in one with lists the baseline and who asks for history.
Step ==
    \/ \E h \in Hosts, fault \in BOOLEAN :
          \/ \E finding \in Verdicts[installed], via \in {"load", "gate"} :
                NoteScan(h, "plug", via, finding, fault)
          \/ NoteScan(h, "other", "gate", [verdict |-> "clean", codes |-> {}], fault)
          \/ SaveSummary(h, fault)
          \/ Record(h, fault)
          \/ EndRecord(h, fault)
    \/ \E h \in Hosts : SkipRecord(h) \/ Stop(h)
    \/ \E v \in Versions : Install(v)
    \/ \E wipe \in BOOLEAN : EditCaps(wipe)

ListsNext ==
    \/ budget.lists = 0 /\ Next /\ UNCHANGED lists
    \/ budget.lists = 1 /\ Step

ListsSpec == ListsInit /\ [][ListsNext]_allVars

(***************************************************************************)
(* buildAuditSummary, for the plugin: the capability records are taken in  *)
(* first, then the summary, and each later record overrides.               *)
(***************************************************************************)
Unseen == [version |-> 0, verdict |-> "none", first |-> 0, at |-> 0]

\* absorb
Seen(recs, sums) ==
    LET capable == IF recs = {} THEN Unseen
                   ELSE [version |-> Latest(recs).version, verdict |-> "none",
                         first |-> Earliest(recs).at, at |-> Latest(recs).at]
    IN  IF sums = {} THEN capable
        ELSE LET s == CHOOSE s \in sums : TRUE IN
             IF recs = {} THEN [version |-> s.version, verdict |-> s.verdict, first |-> s.at, at |-> s.at]
             ELSE IF s.at > capable.at
             THEN [capable EXCEPT !.version = s.version, !.verdict = s.verdict, !.at = s.at]
             ELSE [capable EXCEPT !.first = IF s.at < @ THEN s.at ELSE @]

\* hasAuditRecordBatch: the archive has a file for this very version.
HasRecord(version) == version \in Audited

\* What the panel shows of the plugin: its entry, whether it waits for an audit
\* and why, and whether it counts as new.
Shown ==
    LET seen    == Seen(caps.recs, OfName(summaries, "plug"))
        audited == HasRecord(seen.version)
        listed  == seen # Unseen
    IN  [version |-> seen.version, verdict |-> seen.verdict,
         pending |-> IF ~listed \/ audited THEN "no"
                     ELSE IF seen.verdict \in {"critical", "suspicious"} THEN "in doubt" ELSE "no record",
         new     |-> listed /\ ~audited /\ clock - seen.first <= NewFor]

(***************************************************************************)
(* Properties.                                                             *)
(***************************************************************************)

\* Between scans, when nothing failed and nobody wrote in between: the file has
\* what the last scan of the plugin found, by which rules, unless so many other
\* packages came after; and the panel lists the plugin in the version scanned
\* last, waiting for an audit exactly when that version has none.  (The reads and
\* writes of two processes, upgrades, downgrades, verdicts that change for the
\* same bytes and scans that record no capabilities come in any order.)
ListsFollowScans ==
    last # NoScan /\ ~spoiled /\ (\A h \in Hosts : noting[h] = Nothing) =>
        LET onFile == \E s \in OfName(summaries, "plug") : [s EXCEPT !.at = last.at] = last
            left   == OfName(summaries, "plug") = {} /\ Cardinality(summaries) = MostKept
        IN  /\ onFile \/ left
            /\ onFile => Shown.version = last.version
            /\ onFile => (Shown.pending = "no" <=> last.version \in Audited)

\* Violated.  A plugin whose last scan found something and that has no audit is
\* shown as in doubt, as the comments of audit-summary.ts say: the reason for
\* critical and suspicious stands out, the verdict follows the latest news.
DoubtIsShown ==
    /\ last # NoScan /\ ~spoiled /\ \A h \in Hosts : noting[h] = Nothing
    /\ last.verdict \in {"critical", "suspicious"} /\ last.version \notin Audited
    /\ OfName(summaries, "plug") # {}
    => Shown.pending = "in doubt"

=============================================================================
