----------------------------- MODULE GateDomain -----------------------------
(***************************************************************************)
(* The judgements the gates share, without state: how far a package is     *)
(* qualified by its audit records (domain/qualify.ts, audit/archive.ts),   *)
(* what a decision follows from (domain/decision.ts, gate-decision.ts,     *)
(* gate.ts), what a receipt may claim (domain/receipt.ts), how a package   *)
(* is compared with an earlier snapshot (domain/snapshot.ts) and what the  *)
(* guard's posture is (domain/posture.ts, guard/posture.ts).               *)
(***************************************************************************)
EXTENDS ScanCoverage, Sequences

\* ---- verdicts ----

\* What the scanner says; "odd" stands for a verdict the host does not know.
KnownVerdicts == <<"clean", "suspicious", "critical">>
Verdicts == {"clean", "suspicious", "critical", "odd"}
IsKnownVerdict(v) == v # "odd"
VerdictRank(v) == CHOOSE n \in DOMAIN KnownVerdicts : KnownVerdicts[n] = v

\* The threshold of deny mode; what cannot be ranked is above every one.
ReachesThreshold(v, denyOn) == IsKnownVerdict(v) => VerdictRank(v) >= VerdictRank(denyOn)

DecideDenyBlock(mode, denyOn, v) == mode = "deny" /\ ReachesThreshold(v, denyOn)

\* ---- qualification ----

QualStatuses == {"unassessed", "qualified", "recheck_required", "insufficient_evidence", "rejected"}

Initially == [status |-> "unassessed", basis |-> "none"]
CanLoad(q) == q.status = "qualified"

\* The reasons are left out; where only a reason is added, nothing changes.
Transition(q, event) ==
    LET to(status, basis) == [status |-> status, basis |-> basis]
    IN  CASE event = "audit_passed" -> to("qualified", "digest")
          [] event = "legacy_record_found" /\ q.status = "unassessed" -> to("qualified", "legacy")
          [] event = "audit_insufficient" ->
                to(IF q.status = "rejected" THEN "rejected" ELSE "insufficient_evidence", "none")
          [] event = "audit_failed" -> to("rejected", "none")
          [] event \in {"content_changed", "standard_worse"} /\ CanLoad(q) -> to("recheck_required", "none")
          [] event = "revoked" -> to("unassessed", "none")
          [] OTHER -> q

(***************************************************************************)
(* A record in the archive: [name, version, at, readable, digest, engine,  *)
(* verdict]; name is the package's name as it is escaped in the file name, *)
(* engine is "now" for the rules this build has, "none" marks an absent    *)
(* line.  A probe without a version takes any.                             *)
(***************************************************************************)
Matching(archive, name, version) ==
    {r \in archive : r.name = name /\ (version # "none" => r.version = version)}

Newest(records) == CHOOSE r \in records : \A x \in records : x.at <= r.at

\* A summary of the last scan counts when it is of these rules and this version.
Usable(summary, version) ==
    /\ summary.verdict # "none" /\ summary.engine = "now"
    /\ version # "none" => summary.version = version

\* Rules have changed since the audit: it holds unless the verdict got worse.
WithStandardChange(q, record, version, summary) ==
    IF /\ CanLoad(q) /\ record.engine = "old"
       /\ record.verdict # "none" /\ Usable(summary, version) /\ IsKnownVerdict(summary.verdict)
       /\ VerdictRank(summary.verdict) > VerdictRank(record.verdict)
    THEN Transition(q, "standard_worse") ELSE q

\* digest: of the installed files, "none" when it cannot be computed.
ProbeQualification(archive, name, version, digest, summary) ==
    LET records == Matching(archive, name, version)
        newest == Newest(records)
        legacy == Transition(Initially, "legacy_record_found")
        passed == Transition(Initially, "audit_passed")
    IN  CASE records = {}                                         -> Initially
          [] records # {} /\ ~newest.readable                     -> legacy
          [] records # {} /\ newest.readable /\ "none" \in {newest.digest, digest} ->
                WithStandardChange(legacy, newest, version, summary)
          [] records # {} /\ newest.readable /\ "none" \notin {newest.digest, digest} ->
                IF newest.digest = digest
                THEN WithStandardChange(passed, newest, version, summary)
                ELSE Transition(passed, "content_changed")

\* ---- decisions ----

SeverityOrder == <<"unknown", "info", "low", "medium", "high", "critical">>
SeverityRank(s) == CHOOSE n \in DOMAIN SeverityOrder : SeverityOrder[n] = s

\* What a decision may say it does not know.
UnknownOf(scope, assessments, rows, given) ==
    LET cover == Collapsed(rows)
        reported == {r.surface : r \in rows}
    IN  given
        \cup {<<"missing", s>> : s \in scope \ reported}
        \cup {<<"gap", s>> : s \in {x \in scope \cap reported : cover[x] \in {"unknown", "partial", "failed"}}}
        \cup {<<"insufficient", "">> : a \in {x \in assessments : x.state = "insufficient_evidence"}}
        \cup {<<"ungraded", "">> : a \in {x \in assessments :
                x.state \in {"finding", "corroborated"} /\ x.severity = "unknown"}}

Graded(assessments) ==
    {a \in assessments : a.state \in {"finding", "corroborated"} /\ a.severity # "unknown"}

\* pickAction, in its order: authority to deny, a dispute, findings, gaps.
PickAction(policy, assessments, rows, unknown) ==
    LET findings == Graded(assessments)
        may == policy.denyFrom # "none"
        cover == Collapsed(rows)
        denied == may /\ \/ \E a \in findings : SeverityRank(a.severity) >= SeverityRank(policy.denyFrom)
                         \/ policy.failClosedOn \cap unknown # {}
        disputed == \E a \in assessments : a.state = "disputed"
        open == findings # {} \/ unknown # {} \/ \E s \in policy.scope : cover[s] # "covered"
    IN  IF denied THEN "deny"
        ELSE IF disputed THEN "require_review"
        ELSE IF open THEN "report" ELSE "allow"

BuildDecision(policy, assessments, rows, given) ==
    LET unknown == UnknownOf(policy.scope, assessments, rows, given)
        sure == PickAction(policy, assessments, rows, unknown)
    IN  [action |-> sure, unknown |-> unknown]

\* ---- the decision of the install gate ----

GateScope == {"file_tree", "deps_direct", "deps_transitive", "intel_osv", "intel_registry"}

GateAssessment(verdict) ==
    [state |-> CASE verdict = "clean" -> "not_observed"
                 [] verdict = "odd"   -> "insufficient_evidence"
                 [] OTHER             -> "finding",
     severity |-> CASE verdict = "clean" -> "info" [] verdict = "suspicious" -> "medium"
                    [] verdict = "critical" -> "critical" [] OTHER -> "unknown"]

GateFailClosedOn == {<<"verdict", "unrecognized">>}

GatePolicy(mode, denyOn) ==
    [scope |-> GateScope,
     denyFrom |-> IF mode # "deny" THEN "none" ELSE IF denyOn = "suspicious" THEN "medium" ELSE "critical",
     failClosedOn |-> GateFailClosedOn]

GateDecision(mode, denyOn, report, osvRequested) ==
    BuildDecision(
        GatePolicy(mode, denyOn), {GateAssessment(report.verdict)},
        ScanRows([scope |-> "gate", osvEnabled |-> osvRequested, sync |-> FALSE, osv |-> report.osv,
                  failed |-> FALSE, sources |-> report.sources, skipped |-> report.skips]),
        IF IsKnownVerdict(report.verdict) THEN {} ELSE {<<"verdict", "unrecognized">>})

\* ---- receipts ----

BuildReceipt(action, before, forwardedBefore, forwardedAfter, operation) ==
    CASE action = "none"                                                   -> "not_covered"
      [] action \notin {"none", "deny"}                                    -> "not_requested"
      [] action = "deny" /\ ~before                                        -> "not_covered"
      [] action = "deny" /\ before /\ forwardedAfter # forwardedBefore     -> "failed"
      [] action = "deny" /\ before /\ forwardedAfter = forwardedBefore ->
            IF operation = 0 THEN "unknown" ELSE "applied"

SupportsBlockedClaim(result) == result = "applied"

\* ---- snapshots ----

\* A captured package: the files that count, by path.  None when the root
\* cannot be read.
DiffManifests(before, after) ==
    [added |-> DOMAIN after \ DOMAIN before, removed |-> DOMAIN before \ DOMAIN after,
     changed |-> {f \in DOMAIN before \cap DOMAIN after : before[f] # after[f]}]

IsEmptyDiff(diff) == diff.added = {} /\ diff.removed = {} /\ diff.changed = {}

\* ---- posture ----

\* Not observed is TRUE in neither sense: "yes", "no", "unseen".
PostureOf(desired, supported, installed, healthy) ==
    CASE ~desired                                            -> "off"
      [] desired /\ "unseen" \in {installed, healthy}        -> "unknown"
      [] desired /\ "unseen" \notin {installed, healthy} ->
            IF ~supported THEN "unsupported"
            ELSE IF "no" \in {installed, healthy} THEN "degraded" ELSE "enforced"

Said(b) == IF b THEN "yes" ELSE "no"

\* checks: as in ScanCoverage; archive: whether its directory can be read;
\* lastScan: "yes", "no" or "unseen".
DerivePosture(o) ==
    LET hook(s) == <<Said(o.checks[s] # "absent"), Said(o.checks[s] = "intact")>>
        on == o.guard # "off"
    IN  [preload_scan  |-> PostureOf(o.autoScan, TRUE, "yes", o.lastScan),
         audit_gate    |-> PostureOf(o.audit, TRUE, Said(o.archive), Said(o.archive)),
         runtime_fs    |-> PostureOf(on, TRUE, hook("runtime_fs")[1], hook("runtime_fs")[2]),
         runtime_net   |-> PostureOf(on, TRUE, hook("runtime_net")[1], hook("runtime_net")[2]),
         runtime_spawn |-> PostureOf(on, TRUE, hook("runtime_spawn")[1], hook("runtime_spawn")[2]),
         confirm_block |-> PostureOf(o.confirm /\ on, TRUE, hook("runtime_fs")[1], hook("runtime_fs")[2])]

PostureSeverity(effective) ==
    CASE effective \in {"enforced", "off"} -> "none"
      [] effective = "unsupported"         -> "info"
      [] OTHER                             -> "yellow"

=============================================================================
