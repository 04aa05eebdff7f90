----------------------------- MODULE PluginGate -----------------------------
(***************************************************************************)
(* The guard on plugin loads (guards/internal-plugin.ts), and the command  *)
(* line gate beside it (gate.ts).  A load goes through the audit gate, the *)
(* classification of its package (OfficialTrust has how the host gets to   *)
(* it), a snapshot, a scan and finish().  In deny mode the host is stopped *)
(* until the scan is back, and a plugin that may not load is disposed of;  *)
(* in report mode the plugin is let in at once and judged when the scan    *)
(* answers.  Meanwhile others may change the files, the audit records and  *)
(* the configuration.  A scan is its promise (ScanPromise): it fails, or   *)
(* speaks of the files as they were at some moment since it was asked.     *)
(***************************************************************************)
EXTENDS GateDomain

CONSTANTS
    Packages,      \* plugins the host loads
    Class,         \* package -> "npm", "official", "cordis", "local"
    Root,          \* packages whose directory is found
    Scannable,     \* packages with files the scanner takes
    Escaped,       \* package -> its name in the archive's file names
    Basename,      \* package -> the last part of its path
    Configs,       \* configurations the host may run under
    StartContent,  \* package -> code -> verdict of the code at first
    Rewrites,      \* <<package, code>>: changes somebody may make
    MaxEdits,      \* bound: how many of them
    Records,       \* audit records that may be written
    Stats          \* statistics of the advisory phase a scan may report

ASSUME GateAssumption ==
    /\ Class \in [Packages -> {"npm", "official", "cordis", "local"}]
    /\ \A c \in Configs :
        /\ c.mode \in {"report", "deny"} /\ c.denyOn \in {"suspicious", "critical"}
        /\ c.autoScan \in BOOLEAN /\ c.audit \in BOOLEAN /\ c.osv \in BOOLEAN /\ c.transitive \in BOOLEAN
    /\ StartContent \in [Packages -> Verdicts \ {"odd"}]
    /\ Rewrites \subseteq Packages \X (Verdicts \ {"odd"})
    /\ MaxEdits \in Nat

VARIABLES
    config,        \* [mode, denyOn, autoScan, audit, allow, osv, transitive]
    code,          \* package -> the code it holds now, by the verdict it deserves
    edits,         \* changes made so far
    archive,       \* audit records
    summary,       \* name -> last scan summary (scan-summaries.ts)
    load,          \* package -> where its load is
    blocked,       \* counter of refused operations (stats.ts)
    cover,         \* package -> coverage rows on the board, once set
    alarms,        \* <<kind, package>> raised so far
    gateRun        \* last answer of the command line gate

gateVars == <<config, code, edits, archive, summary, load, blocked, cover, alarms, gateRun>>

NoSummary == [of |-> "nobody", version |-> "none", verdict |-> "none", engine |-> "now"]
NotLoaded == [phase |-> "none"]
NeverLoads == [phase |-> "absent"]

\* A host that will load the packages of loads.
GateInit(loads) ==
    /\ config \in Configs
    /\ code = StartContent /\ edits = 0
    /\ archive = {}
    /\ summary = [n \in {Basename[p] : p \in Packages} \cup Packages |-> NoSummary]
    /\ load = [p \in Packages |-> IF p \in loads THEN NotLoaded ELSE NeverLoads]
    /\ blocked = 0 /\ alarms = {}
    /\ cover = [p \in Packages |-> {}]
    /\ gateRun = [blocked |-> FALSE, action |-> "none"]

\* ---- who is looked at ----

\* isThirdPartyForAuditGate
ThirdParty(p) ==
    /\ Class[p] # "cordis" /\ p \notin config.allow
    /\ Class[p] = "official" => p \notin Root

(***************************************************************************)
(* auditGate: the newest record of this package and version decides.       *)
(* Whoever has none that holds is reported, and refused in deny mode.      *)
(***************************************************************************)
Qualified(p) ==
    CanLoad(ProbeQualification(archive, Escaped[p], IF p \in Root THEN "v1" ELSE "none",
                               IF p \in Root THEN code[p] ELSE "none", summary[p]))

AuditMissing(p) == config.audit /\ ThirdParty(p) /\ ~Qualified(p)

\* What classifyOfficial may say of p.
Standing(p) ==
    IF Class[p] = "cordis" \/ p \in config.allow THEN {"opted_out"}
    ELSE IF Class[p] # "official" \/ p \notin Root THEN {"not_official"}
    ELSE {"trusted", "uncatalogued", "mismatch", "acknowledged"}

\* ---- a load ----

\* The listener runs to its end or its first await before anything else of
\* the host does; in deny mode a synchronous scan is part of it.
HostStopped ==
    \E p \in Packages : \/ load[p].phase = "listed"
                        \/ load[p].phase = "scanning" /\ load[p].under = "deny"

Refused(p, under) == load' = [load EXCEPT ![p] = [phase |-> "blocked", under |-> under]]
Let(p, why) == load' = [load EXCEPT ![p] = [phase |-> "loaded", under |-> config.mode, why |-> why]]

\* An entry that is a path is named to the user, and refused in deny mode.
\* (vet itself, by either name, is not looked at.)
LoadLocal(p) ==
    /\ ~HostStopped /\ load[p].phase = "none" /\ Class[p] = "local"
    /\ alarms' = alarms \cup {<<"local-entry", p>>}
    /\ IF config.mode = "deny"
       THEN Refused(p, config.mode) /\ blocked' = blocked + 1
       ELSE Let(p, "reported") /\ UNCHANGED blocked
    /\ UNCHANGED <<config, code, edits, archive, summary, cover, gateRun>>

RefuseUnaudited(p) ==
    /\ ~HostStopped /\ load[p].phase = "none" /\ Class[p] # "local"
    /\ AuditMissing(p) /\ config.mode = "deny"
    /\ alarms' = alarms \cup {<<"audit-required", p>>}
    /\ Refused(p, config.mode) /\ blocked' = blocked + 1
    /\ UNCHANGED <<config, code, edits, archive, summary, cover, gateRun>>

\* What the listener does of itself up to the scan: past the audit gate the
\* load is let through, refused for want of a root, or snapshot and scanned.
Begin(p, standing) ==
    /\ ~HostStopped /\ load[p].phase = "none" /\ Class[p] # "local"
    /\ standing \in Standing(p)
    /\ ~(AuditMissing(p) /\ config.mode = "deny")
    /\ LET audit == IF AuditMissing(p) THEN {<<"audit-required", p>>} ELSE {}
           told == CASE standing = "mismatch" /\ config.mode = "deny" -> {<<"baseline-mismatch", p>>}
                     [] standing = "acknowledged"                     -> {<<"baseline-patch-ack", p>>}
                     [] standing = "uncatalogued"                     -> {<<"official-not-in-catalog", p>>}
                     [] OTHER                                         -> {}
           past == config.autoScan /\ standing \notin {"opted_out", "acknowledged"}
           lost == /\ past /\ p \notin Root /\ config.mode = "deny"
                   /\ ~(config.audit /\ CanLoad(ProbeQualification(archive, Escaped[p], "none", "none", summary[p])))
       IN  /\ alarms' = alarms \cup audit \cup IF config.autoScan THEN told ELSE {}
           /\ IF lost
              THEN Refused(p, config.mode) /\ blocked' = blocked + 1
              ELSE /\ IF past /\ p \in Root \cap Scannable
                      THEN load' = [load EXCEPT ![p] =
                               [phase |-> "listed", under |-> config.mode, standing |-> standing,
                                denyOn |-> config.denyOn, osv |-> config.osv, transitive |-> config.transitive]]
                      ELSE Let(p, IF ~config.autoScan THEN "off" ELSE IF ~past THEN "standing"
                                  ELSE IF p \notin Root THEN "lost" ELSE "nothing to scan")
                   /\ UNCHANGED blocked
    /\ UNCHANGED <<config, code, edits, archive, summary, cover, gateRun>>

\* The snapshot, and the request; from here on the scan has been asked.
Snapshot(p) ==
    /\ load[p].phase = "listed"
    /\ load' = [load EXCEPT ![p] =
           [phase |-> "scanning", under |-> load[p].under, standing |-> load[p].standing,
            denyOn |-> load[p].denyOn, osv |-> load[p].osv, transitive |-> load[p].transitive,
            snap |-> [file |-> code[p]], seen |-> {code[p]}, returned |-> FALSE]]
    /\ UNCHANGED <<config, code, edits, archive, summary, blocked, cover, alarms, gateRun>>

\* ---- finish() ----

NoReport == [verdict |-> "none", sources |-> 0, skips |-> 0, osv |-> NoOsv]

\* What a scan of codes seen may report: the verdict one of them deserves, or
\* one the host does not know; nothing to read, all read, or a part.
ReportsOf(seen, stats) ==
    {[verdict |-> v, sources |-> shape[1], skips |-> shape[2], osv |-> o] :
        v \in seen \cup {"odd"}, shape \in {<<0, 0>>, <<1, 0>>, <<1, 1>>}, o \in stats}

AnswersFor(l) == ReportsOf(l.seen, IF l.osv /\ l.under # "deny" THEN Stats ELSE {NoOsv})

CoverOf(l, report) ==
    ScanRows([scope |-> "guard", osvEnabled |-> l.osv, sync |-> l.under = "deny", osv |-> report.osv,
              failed |-> report = NoReport, sources |-> report.sources, skipped |-> report.skips,
              transitive |-> l.transitive, guard |-> "off"])

\* Mutant: nobody compares the files with the snapshot.
NeverDrifted(p) == FALSE

\* detectDrift: only where a snapshot was taken.
Drifted(p) ==
    /\ load[p].standing = "not_official"
    /\ ~IsEmptyDiff(DiffManifests(load[p].snap, [file |-> code[p]]))

Exempt(l) == l.standing \in {"trusted", "uncatalogued"}

\* The end of a judged load, in the mode it began in.
Passed(p) ==
    load' = [load EXCEPT ![p] = [phase |-> "loaded", under |-> load[p].under, why |-> "judged",
                                 standing |-> load[p].standing, denyOn |-> load[p].denyOn,
                                 as |-> code[p], returned |-> load[p].returned]]

\* Mutant: the mode of the moment decides, not the one the load began in.
JudgedNow(p, refused) ==
    IF refused /\ config.mode = "deny"
    THEN Refused(p, "deny") /\ blocked' = blocked + 1
    ELSE Passed(p) /\ UNCHANGED blocked

Judged(p, refused) ==
    IF refused /\ load[p].under = "deny"
    THEN Refused(p, "deny") /\ blocked' = blocked + 1
    ELSE Passed(p) /\ UNCHANGED blocked

FinishFailed(p) ==
    /\ load[p].phase = "scanning"
    /\ cover' = [cover EXCEPT ![p] = CoverOf(load[p], NoReport)]
    /\ alarms' = alarms \cup {<<"scan-fail", p>>}
    /\ Judged(p, ~Exempt(load[p]))
    /\ UNCHANGED <<config, code, edits, archive, summary, gateRun>>

\* A drift is told and, in deny mode, ends the load before the verdict counts.
FinishDrifted(p) ==
    /\ load[p].phase = "scanning" /\ Drifted(p)
    /\ \E report \in AnswersFor(load[p]) :
        /\ cover' = [cover EXCEPT ![p] = CoverOf(load[p], report)]
        /\ summary' = IF load[p].under = "deny" THEN summary
                      ELSE [summary EXCEPT ![p] = [of |-> p, version |-> "v1",
                                                   verdict |-> report.verdict, engine |-> "now"]]
    /\ alarms' = alarms \cup {<<"snapshot-drift", p>>}
    /\ Judged(p, TRUE)
    /\ UNCHANGED <<config, code, edits, archive, gateRun>>

FinishJudged(p) ==
    /\ load[p].phase = "scanning" /\ ~Drifted(p)
    /\ \E report \in AnswersFor(load[p]) :
        /\ cover' = [cover EXCEPT ![p] = CoverOf(load[p], report)]
        /\ summary' = [summary EXCEPT ![p] = [of |-> p, version |-> "v1",
                                              verdict |-> report.verdict, engine |-> "now"]]
        /\ Judged(p, ~Exempt(load[p]) /\ ReachesThreshold(report.verdict, load[p].denyOn))
    /\ UNCHANGED <<config, code, edits, archive, alarms, gateRun>>

\* ---- the command line gate: a process of its own, the same summaries ----

RunGate(p, mode, denyOn) ==
    /\ p \in Root /\ gateRun.action = "none"    \* bound: it is run once,
    /\ load[p] # NeverLoads                      \* on a package of the host
    /\ \E report \in ReportsOf({code[p]}, Stats) :
        /\ gateRun' = [blocked |-> DecideDenyBlock(mode, denyOn, report.verdict),
                       action |-> GateDecision(mode, denyOn, report, report.osv # NoOsv).action]
        /\ summary' = [summary EXCEPT ![Basename[p]] =
               [of |-> p, version |-> "v1", verdict |-> report.verdict, engine |-> "now"]]
    /\ UNCHANGED <<config, code, edits, archive, load, blocked, cover, alarms>>

\* ---- the world ----

\* Somebody changes the files of a package.  History: what they held since its
\* scan was asked, and whether they came back to something of that.
Rewrite ==
    /\ edits < MaxEdits
    /\ \E r \in Rewrites :
        /\ code[r[1]] # r[2]
        /\ code' = [code EXCEPT ![r[1]] = r[2]]
        /\ load' = IF load[r[1]].phase = "scanning"
                   THEN [load EXCEPT ![r[1]].seen = @ \cup {r[2]},
                                     ![r[1]].returned = @ \/ r[2] \in load[r[1]].seen]
                   ELSE load
    /\ edits' = edits + 1
    /\ UNCHANGED <<config, archive, summary, blocked, cover, alarms, gateRun>>

\* An audit is filed; its name carries the time.
FileAudit ==
    /\ \E r \in Records \ archive : archive' = archive \cup {r}
    /\ UNCHANGED <<config, code, edits, summary, load, blocked, cover, alarms, gateRun>>

\* The settings page: the guards are installed anew, pending scans keep the
\* configuration they began under.
Reconfigure ==
    /\ ~HostStopped
    /\ config' \in Configs \ {config}
    /\ UNCHANGED <<code, edits, archive, summary, load, blocked, cover, alarms, gateRun>>

GateNext ==
    \/ \E p \in Packages :
        \/ LoadLocal(p) \/ RefuseUnaudited(p) \/ Snapshot(p)
        \/ \E standing \in Standing(p) : Begin(p, standing)
        \/ FinishFailed(p) \/ FinishDrifted(p) \/ FinishJudged(p)
        \/ \E mode \in {"report", "deny"}, denyOn \in {"suspicious", "critical"} : RunGate(p, mode, denyOn)
    \/ Rewrite \/ FileAudit \/ Reconfigure

GateSpec == GateInit(Packages) /\ [][GateNext]_gateVars

\* ---- properties ----

GateTypeOK ==
    /\ config \in Configs
    /\ code \in [Packages -> Verdicts] /\ edits \in 0..MaxEdits
    /\ archive \subseteq Records
    /\ \A p \in Packages : load[p].phase \in {"absent", "none", "listed", "scanning", "loaded", "blocked"}
    /\ blocked \in Nat
    /\ \A p \in Packages : \A r \in cover[p] : r.surface \in Surfaces

(***************************************************************************)
(* Deny mode: a third-party plugin that got past finish() does not, at     *)
(* that moment, hold code that the threshold refuses, although its files   *)
(* were changed while it was scanned, the scanner failed or spoke another  *)
(* verdict, and the settings were changed.  Files that are put back before *)
(* the second snapshot are outside of what detectDrift can see: it         *)
(* compares two moments, and the scan may have read what lay between.      *)
(***************************************************************************)
DenyHolds ==
    \A p \in Packages :
        LET l == load[p]
        IN  l.phase = "loaded" /\ l.under = "deny" /\ l.why = "judged" /\ l.standing = "not_official"
            => l.returned \/ ~ReachesThreshold(l.as, l.denyOn)

(***************************************************************************)
(* A step that refuses a load has the user's authority for it: the load    *)
(* began in deny mode, whatever the mode is when its scan answers.         *)
(***************************************************************************)
RefusedWithAuthority ==
    \A p \in Packages : load[p].phase # "blocked" /\ load'[p].phase = "blocked" =>
        IF load[p].phase = "none" THEN config.mode = "deny" ELSE load[p].under = "deny"

Covered(p, s) == cover[p] # {} /\ Collapsed(cover[p])[s] = "covered"

\* A scan that failed leaves neither the files nor the advisories covered.
CoverIsEarned ==
    \A p \in Packages, s \in {"file_tree", "intel_osv"} :
        Covered(p, s) => <<"scan-fail", p>> \notin alarms

=============================================================================
