----------------------------- MODULE GuardProofs -----------------------------
(***************************************************************************)
(* What stands before plugins and tools, for every value of the constants. *)
(*                                                                         *)
(* Of PluginGate and ToolGuard, for every set of plugins, tool calls,      *)
(* settings, payloads and rewrites: the types, what deny mode lets pass,   *)
(* what a failed scan leaves covered, what receipts say, and which mode    *)
(* decides.                                                                *)
(*                                                                         *)
(* Of OfficialTrust, for every set of packages and contents, every number  *)
(* of chains and slots: the types, the evidence behind the trust anchor,   *)
(* that bytes the registry denied stay out of it, and that slots are       *)
(* neither lost nor exceeded.                                              *)
(***************************************************************************)
EXTENDS ToolGuard, OfficialTrust, FiniteSetTheorems, SequenceTheorems, TLAPS

(***************************************************************************)
(* The inductive invariant of the loads, in parts.                         *)
(***************************************************************************)
Known == {"clean", "suspicious", "critical"}
Modes == {"report", "deny"}
Thresholds == {"suspicious", "critical"}
Standings == {"opted_out", "not_official", "trusted", "uncatalogued", "mismatch", "acknowledged"}

\* Only what came in deny mode is refused.
Loads ==
    [phase : {"none", "absent"}] \cup
    [phase : {"listed"}, under : Modes, standing : Standings, denyOn : Thresholds,
     osv : BOOLEAN, transitive : BOOLEAN] \cup
    [phase : {"scanning"}, under : Modes, standing : Standings, denyOn : Thresholds,
     osv : BOOLEAN, transitive : BOOLEAN,
     snap : [file : Known], seen : SUBSET Known, returned : BOOLEAN] \cup
    [phase : {"blocked"}, under : {"deny"}] \cup
    [phase : {"loaded"}, under : Modes, why : {"off", "reported", "standing", "lost", "nothing to scan"}] \cup
    [phase : {"loaded"}, under : Modes, why : {"judged"}, standing : Standings, denyOn : Thresholds,
     as : Known, returned : BOOLEAN]

\* What a scan may have read, when the package holds c: if nothing came back and
\* the two snapshots agree, it has read c and nothing else.
Fresh(l, c) ==
    l.phase = "scanning" =>
        /\ c \in l.seen /\ l.snap.file \in l.seen
        /\ ~l.returned /\ c = l.snap.file => l.seen = {c}

\* DenyHolds, of one load.
Held(l) ==
    l.phase = "loaded" /\ l.under = "deny" /\ l.why = "judged" /\ l.standing = "not_official"
    => l.returned \/ ~ReachesThreshold(l.as, l.denyOn)

\* Who is named for a failed scan has been judged, and covers nothing by it.
FailureShown(p) ==
    <<"scan-fail", p>> \in alarms =>
        /\ load[p].phase \in {"loaded", "blocked"}
        /\ ~Covered(p, "file_tree") /\ ~Covered(p, "intel_osv")

GateInv ==
    /\ GateTypeOK
    /\ code \in [Packages -> Known]
    /\ load \in [Packages -> Loads]
    /\ DOMAIN cover = Packages
    /\ \A p \in Packages : Fresh(load[p], code[p]) /\ Held(load[p]) /\ FailureShown(p)

(***************************************************************************)
(* The inductive invariant of the tool calls.                              *)
(***************************************************************************)
ExecStates ==
    [phase : {"none", "absent"}] \cup
    [phase : {"scanning"}, next : Nat \ {0}, worst : Known, failed : BOOLEAN, id : Nat \ {0},
     mode : Modes, denyOn : Thresholds] \cup
    [phase : {"done"}, claim : {"none"}] \cup
    [phase : {"done"}, claim : {"blocked", "unsure"}, id : Nat \ {0}]

Numbered == {x \in Execs : exec[x].phase = "scanning" \/ (exec[x].phase = "done" /\ exec[x].claim # "none")}
Arrived == {x \in Execs : exec[x].phase \in {"scanning", "done"}}

\* What the scans so far have shown is what the call will be judged by.
Weighed(x) ==
    exec[x].phase = "scanning" /\ ~exec[x].failed =>
        \A n \in 1..Len(Payload[x]) : n < exec[x].next => VerdictRank(Payload[x][n]) <= VerdictRank(exec[x].worst)

ToolInv ==
    /\ exec \in [Execs -> ExecStates] /\ ran \subseteq Execs
    /\ attempts \in Nat /\ attempts = Cardinality(Arrived)
    /\ \A x \in ran : exec[x] = [phase |-> "done", claim |-> "none"]
    /\ \A x \in Numbered : exec[x].id <= attempts
    /\ \A x, y \in Numbered : exec[x].id = exec[y].id => x = y
    /\ \A x \in Execs : Weighed(x)
    /\ ReceiptsTrue

Inv == GateInv /\ ToolInv

-----------------------------------------------------------------------------
(* Verdicts and rows.                                                      *)

LEMMA VerdictRanks ==
  VerdictRank("clean") = 1 /\ VerdictRank("suspicious") = 2 /\ VerdictRank("critical") = 3
<1>1. DOMAIN KnownVerdicts = 1..3
  BY DEF KnownVerdicts
<1>2. KnownVerdicts[1] = "clean" /\ KnownVerdicts[2] = "suspicious" /\ KnownVerdicts[3] = "critical"
  BY DEF KnownVerdicts
<1>3. \A n \in 1..3 : n = 1 \/ n = 2 \/ n = 3
  OBVIOUS
<1>. QED  BY <1>1, <1>2, <1>3 DEF VerdictRank

\* A verdict the host does not know reaches every threshold.
LEMMA OddReaches ==
  ASSUME NEW t
  PROVE  ReachesThreshold("odd", t)
  BY DEF ReachesThreshold, IsKnownVerdict

\* The rows of a guard's scan name surfaces, and one row says how the files went.
LEMMA CoverRows ==
  ASSUME NEW l, NEW r
  PROVE  LET i == [scope |-> "guard", osvEnabled |-> l.osv, sync |-> l.under = "deny", osv |-> r.osv,
                   failed |-> r = NoReport, sources |-> r.sources, skipped |-> r.skips,
                   transitive |-> l.transitive, guard |-> "off"]
         IN  CoverOf(l, r) =
               {StaticRow(i)} \cup AdvisoryRows(i) \cup
               {TransitiveRow(l.transitive), Row("intel_registry", "unknown")} \cup
               {Row(s, "unsupported") : s \in RuntimeSurfaces \cup {"runtime_hook_health"}}
  BY DEF CoverOf, ScanRows

LEMMA CoverSurfaces ==
  ASSUME NEW l, NEW r, NEW x \in CoverOf(l, r)
  PROVE  x.surface \in Surfaces
<1>. DEFINE i == [scope |-> "guard", osvEnabled |-> l.osv, sync |-> l.under = "deny", osv |-> r.osv,
                  failed |-> r = NoReport, sources |-> r.sources, skipped |-> r.skips,
                  transitive |-> l.transitive, guard |-> "off"]
<1>1. \/ x = StaticRow(i) \/ x \in AdvisoryRows(i) \/ x = TransitiveRow(l.transitive)
      \/ x = Row("intel_registry", "unknown")
      \/ \E s \in RuntimeSurfaces \cup {"runtime_hook_health"} : x = Row(s, "unsupported")
  BY CoverRows
<1>2. \A s, res : Row(s, res).surface = s
  BY DEF Row
<1>. HIDE DEF i
<1>3. /\ StaticRow(i).surface = "file_tree" /\ TransitiveRow(l.transitive).surface = "deps_transitive"
      /\ \A a \in AdvisoryRows(i) : a.surface \in {"deps_direct", "intel_osv"}
  BY DEF StaticRow, TransitiveRow, AdvisoryRows, DirectRow, IntelRow, Row
<1>. QED  BY <1>1, <1>2, <1>3 DEF Surfaces

\* A surface with one result has that result.
LEMMA OneResult ==
  ASSUME NEW rows, NEW s \in Surfaces, NEW v, v \in {"covered", "unsupported", "excluded", "unknown", "partial", "failed"},
         {r.result : r \in {x \in rows : x.surface = s}} = {v}
  PROVE  Collapsed(rows)[s] = v
<1>1. DOMAIN RankedResults = 1..6 /\ \E n \in 1..6 : RankedResults[n] = v
  <2>1. /\ RankedResults[1] = "covered" /\ RankedResults[2] = "unsupported" /\ RankedResults[3] = "excluded"
        /\ RankedResults[4] = "unknown" /\ RankedResults[5] = "partial" /\ RankedResults[6] = "failed"
        /\ DOMAIN RankedResults = 1..6
    BY DEF RankedResults
  <2>. QED  BY <2>1
<1>2. Rank(v) \in 1..6
  BY <1>1 DEF Rank
<1>3. Rank(v) >= Rank(v)
  BY <1>2
<1>4. (CHOOSE r \in {v} : \A x \in {v} : Rank(r) >= Rank(x)) = v
  BY <1>3
<1>. QED  BY <1>4 DEF Collapsed

\* A scan that failed covers neither the files nor the advisories.
LEMMA FailedCovers ==
  ASSUME NEW l, l.under \in Modes, l.osv \in BOOLEAN
  PROVE  /\ Collapsed(CoverOf(l, NoReport))["file_tree"] = "failed"
         /\ Collapsed(CoverOf(l, NoReport))["intel_osv"] \in {"partial", "excluded"}
<1>. DEFINE r == NoReport
            i == [scope |-> "guard", osvEnabled |-> l.osv, sync |-> l.under = "deny", osv |-> r.osv,
                  failed |-> r = NoReport, sources |-> r.sources, skipped |-> r.skips,
                  transitive |-> l.transitive, guard |-> "off"]
            rows == CoverOf(l, r)
            v == IF l.osv /\ l.under # "deny" THEN "partial" ELSE "excluded"
<1>1. rows = {StaticRow(i)} \cup AdvisoryRows(i) \cup
             {TransitiveRow(l.transitive), Row("intel_registry", "unknown")} \cup
             {Row(s, "unsupported") : s \in RuntimeSurfaces \cup {"runtime_hook_health"}}
  BY CoverRows
<1>2. i.failed = TRUE /\ i.osv = NoOsv /\ i.osvEnabled = l.osv /\ i.sync = (l.under = "deny")
  BY DEF NoReport
<1>. HIDE DEF i, rows
<1>3. StaticRow(i) = Row("file_tree", "failed")
  BY <1>2 DEF StaticRow
<1>4. Row("intel_osv", v) \in AdvisoryRows(i)
  <2>1. CASE l.osv /\ l.under = "deny"
    BY <1>2, <2>1 DEF AdvisoryRows, IntelRow
  <2>2. CASE l.osv /\ l.under # "deny"
    BY <1>2, <2>2 DEF AdvisoryRows, IntelRow
  <2>3. CASE ~l.osv
    BY <1>2, <2>3 DEF AdvisoryRows
  <2>. QED  BY <2>1, <2>2, <2>3
<1>5. ASSUME NEW x \in rows
      PROVE  /\ x.surface = "file_tree" => x.result = "failed"
             /\ x.surface = "intel_osv" => x.result = v
  <2>1. \A d \in AdvisoryRows(i) : d.surface \in {"deps_direct", "intel_osv"} /\ (d.surface = "intel_osv" => d.result = v)
    <3>1. CASE l.osv
      <4>1. AdvisoryRows(i) = {DirectRow(i.sync, i.osv), IntelRow(i.sync, i.osv)}
        BY <1>2, <3>1 DEF AdvisoryRows
      <4>2. IntelRow(i.sync, i.osv).result = v
        BY <1>2, <3>1 DEF IntelRow, Row
      <4>3. IntelRow(i.sync, i.osv).surface = "intel_osv" /\ DirectRow(i.sync, i.osv).surface = "deps_direct"
        BY DEF IntelRow, DirectRow, Row
      <4>. QED  BY <4>1, <4>2, <4>3
    <3>2. CASE ~l.osv
      BY <1>2, <3>2 DEF AdvisoryRows, Row
    <3>. QED  BY <3>1, <3>2
  <2>2. TransitiveRow(l.transitive).surface = "deps_transitive" /\ \A s, res : Row(s, res) = [surface |-> s, result |-> res]
    BY DEF TransitiveRow, Row
  <2>. QED  BY <1>1, <1>3, <2>1, <2>2 DEF RuntimeSurfaces
<1>6. Row("file_tree", "failed") \in rows /\ Row("intel_osv", v) \in rows
  BY <1>1, <1>3, <1>4
<1>7. {x.result : x \in {y \in rows : y.surface = "file_tree"}} = {"failed"}
  BY <1>5, <1>6 DEF Row
<1>8. {x.result : x \in {y \in rows : y.surface = "intel_osv"}} = {v}
  <2>. HIDE DEF v
  <2>. QED  BY <1>5, <1>6 DEF Row
<1>9. v \in {"partial", "excluded"} /\ "file_tree" \in Surfaces /\ "intel_osv" \in Surfaces
  BY DEF Surfaces
<1>. HIDE DEF v
<1>10. Collapsed(rows)["file_tree"] = "failed"
  BY <1>7, <1>9, OneResult
<1>11. Collapsed(rows)["intel_osv"] = v
  BY <1>8, <1>9, OneResult
<1>. QED  BY <1>9, <1>10, <1>11 DEF rows

-----------------------------------------------------------------------------
(* The loads.                                                              *)

\* A step that moves one load keeps the invariant, if it keeps it for that load.
LEMMA OneLoad ==
  ASSUME GateInv, NEW p \in Packages, NEW l \in Loads, load' = [load EXCEPT ![p] = l],
         Fresh(l, code[p]), Held(l), UNCHANGED <<config, code, edits, archive>>, blocked' \in Nat,
         NEW rows, \A r \in rows : r.surface \in Surfaces,
         cover' = cover \/ cover' = [cover EXCEPT ![p] = rows],
         FailureShown(p)',
         \A q \in Packages \ {p} : <<"scan-fail", q>> \in alarms' => <<"scan-fail", q>> \in alarms
  PROVE  GateInv'
<1>. USE DEF GateInv
<1>1. load' \in [Packages -> Loads] /\ load'[p] = l /\ \A q \in Packages \ {p} : load'[q] = load[q]
  OBVIOUS
<1>2. DOMAIN cover' = Packages /\ (\A q \in Packages \ {p} : cover'[q] = cover[q]) /\ (cover'[p] = cover[p] \/ cover'[p] = rows)
  OBVIOUS
<1>3. GateTypeOK'
  <2>1. \A q \in Packages : load'[q].phase \in {"absent", "none", "listed", "scanning", "loaded", "blocked"}
    BY <1>1 DEF Loads
  <2>2. \A q \in Packages : \A r \in cover'[q] : r.surface \in Surfaces
    BY <1>2 DEF GateTypeOK
  <2>. QED  BY <2>1, <2>2 DEF GateTypeOK
<1>4. \A q \in Packages : Fresh(load'[q], code'[q]) /\ Held(load'[q])
  BY <1>1
<1>5. \A q \in Packages : FailureShown(q)'
  BY <1>1, <1>2 DEF FailureShown, Covered
<1>. QED  BY <1>1, <1>2, <1>3, <1>4, <1>5 DEF Fresh, Held

\* The same when the load is not judged and no scan has failed.
LEMMA Unjudged ==
  ASSUME GateInv, NEW p \in Packages, load[p].phase \in {"none", "listed"},
         NEW l \in Loads, load' = [load EXCEPT ![p] = l], Fresh(l, code[p]), l.phase = "loaded" => l.why # "judged",
         UNCHANGED <<config, code, edits, archive, cover>>, blocked' \in {blocked, blocked + 1},
         \A q \in Packages : <<"scan-fail", q>> \in alarms' => <<"scan-fail", q>> \in alarms
  PROVE  GateInv'
<1>1. <<"scan-fail", p>> \notin alarms
  BY DEF GateInv, FailureShown
<1>2. FailureShown(p)'
  BY <1>1 DEF FailureShown
<1>3. blocked' \in Nat
  BY DEF GateInv, GateTypeOK
<1>4. Held(l) /\ cover' = cover /\ UNCHANGED <<config, code, edits, archive>>
  BY DEF Held
<1>5. PICK rows : rows = cover[p] /\ \A r \in rows : r.surface \in Surfaces
  BY DEF GateInv, GateTypeOK
<1>6. \A q \in Packages \ {p} : <<"scan-fail", q>> \in alarms' => <<"scan-fail", q>> \in alarms
  OBVIOUS
<1>. QED  BY <1>2, <1>3, <1>4, <1>5, <1>6, OneLoad

\* The same at the end of a scan.
LEMMA Finished ==
  ASSUME GateInv, NEW p \in Packages, load[p].phase = "scanning", NEW refused \in BOOLEAN, Judged(p, refused),
         NEW report, cover' = [cover EXCEPT ![p] = CoverOf(load[p], report)],
         <<"scan-fail", p>> \in alarms' => report = NoReport,
         \A q \in Packages \ {p} : <<"scan-fail", q>> \in alarms' => <<"scan-fail", q>> \in alarms,
         load[p].standing = "not_official" /\ load[p].under = "deny" /\ ~load[p].returned
             => refused \/ ~ReachesThreshold(code[p], load[p].denyOn),
         UNCHANGED <<config, code, edits, archive>>
  PROVE  /\ GateInv'
         /\ load'[p].phase = "blocked" => load[p].under = "deny"
         /\ \A q \in Packages \ {p} : load'[q] = load[q]
<1>. DEFINE l == load[p]
            passed == [phase |-> "loaded", under |-> l.under, why |-> "judged", standing |-> l.standing,
                       denyOn |-> l.denyOn, as |-> code[p], returned |-> l.returned]
            out == [phase |-> "blocked", under |-> "deny"]
<1>1. /\ l \in Loads /\ l.under \in Modes /\ l.standing \in Standings /\ l.denyOn \in Thresholds
      /\ l.osv \in BOOLEAN /\ l.returned \in BOOLEAN /\ code[p] \in Known /\ blocked \in Nat
  <2>1. l \in Loads /\ code[p] \in Known /\ blocked \in Nat
    BY DEF GateInv, GateTypeOK
  <2>. QED  BY <2>1 DEF Loads
<1>2. \/ refused /\ l.under = "deny" /\ load' = [load EXCEPT ![p] = out] /\ blocked' = blocked + 1
      \/ ~(refused /\ l.under = "deny") /\ load' = [load EXCEPT ![p] = passed] /\ blocked' = blocked
  BY DEF Judged, Refused, Passed
<1>3. out \in Loads /\ passed \in Loads
  BY <1>1 DEF Loads
<1>4. \A x \in {out, passed} : Fresh(x, code[p]) /\ x.phase \in {"loaded", "blocked"}
  BY DEF Fresh
<1>5. Held(out) /\ (~(refused /\ l.under = "deny") => Held(passed))
  BY DEF Held
<1>6. PICK x \in {out, passed} : load' = [load EXCEPT ![p] = x] /\ Held(x) /\ (x = out => l.under = "deny")
  BY <1>2, <1>5
<1>7. blocked' \in Nat
  BY <1>1, <1>2
<1>8. load'[p] = x /\ cover'[p] = CoverOf(l, report)
  BY <1>6 DEF GateInv
<1>9. FailureShown(p)'
  <2>1. ASSUME <<"scan-fail", p>> \in alarms' PROVE ~Covered(p, "file_tree")' /\ ~Covered(p, "intel_osv")'
    <3>1. cover'[p] = CoverOf(l, NoReport)
      BY <1>8, <2>1
    <3>2. Collapsed(cover'[p])["file_tree"] = "failed" /\ Collapsed(cover'[p])["intel_osv"] \in {"partial", "excluded"}
      BY <1>1, <3>1, FailedCovers
    <3>. QED  BY <3>2 DEF Covered
  <2>. QED  BY <1>4, <1>8, <2>1 DEF FailureShown
<1>10. \A r \in CoverOf(l, report) : r.surface \in Surfaces
  BY CoverSurfaces
<1>. HIDE DEF l, passed, out
<1>11. GateInv'
  BY <1>3, <1>4, <1>6, <1>7, <1>9, <1>10, OneLoad DEF l
<1>12. x.phase = "blocked" => l.under = "deny"
  BY <1>6 DEF passed, out
<1>. QED  BY <1>6, <1>8, <1>11, <1>12 DEF l, GateInv

\* The start of a load: it is let in, listed for a scan, or refused in deny mode.
LEMMA StartOfLoad ==
  ASSUME GateInv, NEW p \in Packages, load[p].phase = "none",
         LoadLocal(p) \/ RefuseUnaudited(p) \/ \E standing \in Standing(p) : Begin(p, standing)
  PROVE  GateInv' /\ RefusedWithAuthority
<1>. DEFINE refused == [phase |-> "blocked", under |-> config.mode]
            let(why) == [phase |-> "loaded", under |-> config.mode, why |-> why]
            listed(st) == [phase |-> "listed", under |-> config.mode, standing |-> st,
                           denyOn |-> config.denyOn, osv |-> config.osv, transitive |-> config.transitive]
            whys == {"off", "reported", "standing", "lost", "nothing to scan"}
<1>1. /\ config \in Configs /\ config.mode \in Modes /\ config.denyOn \in Thresholds
      /\ config.osv \in BOOLEAN /\ config.transitive \in BOOLEAN
  BY GateAssumption DEF GateInv, GateTypeOK, Modes, Thresholds
<1>2. /\ config.mode = "deny" => refused \in Loads
      /\ \A why \in whys : let(why) \in Loads
      /\ \A st \in Standings : listed(st) \in Loads
  BY <1>1 DEF Loads
<1>3. /\ UNCHANGED <<config, code, edits, archive, cover>>
      /\ blocked' \in {blocked, blocked + 1}
  BY DEF LoadLocal, RefuseUnaudited, Begin
<1>4. \/ config.mode = "deny" /\ load' = [load EXCEPT ![p] = refused]
      \/ \E why \in whys : load' = [load EXCEPT ![p] = let(why)]
      \/ \E st \in Standings : load' = [load EXCEPT ![p] = listed(st)]
  <2>1. CASE LoadLocal(p)
    BY <2>1 DEF LoadLocal, Refused, Let
  <2>2. CASE RefuseUnaudited(p)
    BY <2>2 DEF RefuseUnaudited, Refused
  <2>3. ASSUME NEW st \in Standing(p), Begin(p, st)
        PROVE  \/ config.mode = "deny" /\ load' = [load EXCEPT ![p] = refused]
               \/ \E why \in whys : load' = [load EXCEPT ![p] = let(why)]
               \/ load' = [load EXCEPT ![p] = listed(st)]
    BY <2>3 DEF Begin, Refused, Let
  <2>4. Standing(p) \subseteq Standings
    BY DEF Standing, Standings
  <2>. QED  BY <2>1, <2>2, <2>3, <2>4
<1>5. \A q : <<"scan-fail", q>> \in alarms' => <<"scan-fail", q>> \in alarms
  <2>1. PICK news : /\ alarms' = alarms \cup news
                    /\ news \subseteq {<<"local-entry", p>>, <<"audit-required", p>>, <<"baseline-mismatch", p>>,
                                       <<"baseline-patch-ack", p>>, <<"official-not-in-catalog", p>>}
    <3>1. CASE LoadLocal(p)
      <4>1. alarms' = alarms \cup {<<"local-entry", p>>}
        BY <3>1 DEF LoadLocal
      <4>. QED  BY <4>1
    <3>2. CASE RefuseUnaudited(p)
      <4>1. alarms' = alarms \cup {<<"audit-required", p>>}
        BY <3>2 DEF RefuseUnaudited
      <4>. QED  BY <4>1
    <3>3. ASSUME NEW st \in Standing(p), Begin(p, st)
          PROVE  \E news : /\ alarms' = alarms \cup news
                           /\ news \subseteq {<<"audit-required", p>>, <<"baseline-mismatch", p>>,
                                              <<"baseline-patch-ack", p>>, <<"official-not-in-catalog", p>>}
      <4>. DEFINE audit == IF AuditMissing(p) THEN {<<"audit-required", p>>} ELSE {}
                  told == CASE st = "mismatch" /\ config.mode = "deny" -> {<<"baseline-mismatch", p>>}
                            [] st = "acknowledged"                     -> {<<"baseline-patch-ack", p>>}
                            [] st = "uncatalogued"                     -> {<<"official-not-in-catalog", p>>}
                            [] OTHER                                   -> {}
                  news == audit \cup IF config.autoScan THEN told ELSE {}
      <4>1. alarms' = alarms \cup news
        BY <3>3 DEF Begin
      <4>2. news \subseteq {<<"audit-required", p>>, <<"baseline-mismatch", p>>,
                            <<"baseline-patch-ack", p>>, <<"official-not-in-catalog", p>>}
        BY Zenon
      <4>. QED  BY <4>1, <4>2
    <3>. QED  BY <3>1, <3>2, <3>3
  <2>. QED  BY <2>1
<1>6. PICK l \in Loads : /\ load' = [load EXCEPT ![p] = l]
                         /\ l.phase \in {"blocked", "loaded", "listed"}
                         /\ l.phase = "blocked" => config.mode = "deny"
                         /\ l.phase = "loaded" => l.why # "judged"
  BY <1>2, <1>4
<1>7. GateInv'
  BY <1>3, <1>5, <1>6, Unjudged DEF Fresh
<1>8. RefusedWithAuthority
  <2>1. load'[p] = l /\ \A q \in Packages \ {p} : load'[q] = load[q]
    BY <1>6 DEF GateInv
  <2>. QED  BY <1>6, <2>1 DEF RefusedWithAuthority
<1>. QED  BY <1>7, <1>8

\* The snapshot is of the code the scan is asked about.
LEMMA SnapshotStep ==
  ASSUME GateInv, NEW p \in Packages, Snapshot(p)
  PROVE  GateInv' /\ RefusedWithAuthority
<1>. DEFINE l == [phase |-> "scanning", under |-> load[p].under, standing |-> load[p].standing,
                  denyOn |-> load[p].denyOn, osv |-> load[p].osv, transitive |-> load[p].transitive,
                  snap |-> [file |-> code[p]], seen |-> {code[p]}, returned |-> FALSE]
<1>1. load[p] \in Loads /\ code[p] \in Known /\ load[p].phase = "listed"
  BY DEF GateInv, Snapshot
<1>2. l \in Loads
  BY <1>1 DEF Loads
<1>3. Fresh(l, code[p])
  BY DEF Fresh
<1>4. /\ load' = [load EXCEPT ![p] = l] /\ l.phase = "scanning"
      /\ UNCHANGED <<config, code, edits, archive, cover>> /\ blocked' = blocked /\ alarms' = alarms
  BY DEF Snapshot
<1>. HIDE DEF l
<1>5. GateInv'
  BY <1>1, <1>2, <1>3, <1>4, Unjudged
<1>6. RefusedWithAuthority
  <2>1. load'[p] = l /\ \A q \in Packages \ {p} : load'[q] = load[q]
    BY <1>4 DEF GateInv
  <2>. QED  BY <1>4, <2>1 DEF RefusedWithAuthority
<1>. QED  BY <1>5, <1>6

LEMMA FinishStep ==
  ASSUME GateInv, NEW p \in Packages, FinishFailed(p) \/ FinishDrifted(p) \/ FinishJudged(p)
  PROVE  GateInv' /\ RefusedWithAuthority
<1>1. /\ load[p].phase = "scanning" /\ UNCHANGED <<config, code, edits, archive>>
      /\ load[p] \in Loads /\ Fresh(load[p], code[p])
  BY DEF FinishFailed, FinishDrifted, FinishJudged, GateInv
<1>2. <<"scan-fail", p>> \notin alarms
  BY <1>1 DEF GateInv, FailureShown
<1>3. ASSUME NEW refused \in BOOLEAN, Judged(p, refused), NEW report,
             cover' = [cover EXCEPT ![p] = CoverOf(load[p], report)],
             <<"scan-fail", p>> \in alarms' => report = NoReport,
             \A q \in Packages \ {p} : <<"scan-fail", q>> \in alarms' => <<"scan-fail", q>> \in alarms,
             load[p].standing = "not_official" /\ load[p].under = "deny" /\ ~load[p].returned
                 => refused \/ ~ReachesThreshold(code[p], load[p].denyOn)
      PROVE  GateInv' /\ RefusedWithAuthority
  <2>1. /\ GateInv'
        /\ load'[p].phase = "blocked" => load[p].under = "deny"
        /\ \A q \in Packages \ {p} : load'[q] = load[q]
    BY <1>1, <1>3, Finished
  <2>2. RefusedWithAuthority
    BY <1>1, <2>1 DEF RefusedWithAuthority
  <2>. QED  BY <2>1, <2>2
<1>4. CASE FinishFailed(p)
  <2>1. \A q \in Packages \ {p} : <<"scan-fail", q>> \in alarms' => <<"scan-fail", q>> \in alarms
    BY <1>4 DEF FinishFailed
  <2>2. load[p].standing = "not_official" => ~Exempt(load[p])
    BY DEF Exempt
  <2>3. Judged(p, ~Exempt(load[p])) /\ cover' = [cover EXCEPT ![p] = CoverOf(load[p], NoReport)]
    BY <1>4 DEF FinishFailed
  <2>4. (~Exempt(load[p])) \in BOOLEAN
    BY DEF Exempt
  <2>. QED  BY <1>3, <2>1, <2>2, <2>3, <2>4
<1>5. CASE FinishDrifted(p)
  <2>1. PICK report : cover' = [cover EXCEPT ![p] = CoverOf(load[p], report)]
    BY <1>5 DEF FinishDrifted
  <2>2. \A q : <<"scan-fail", q>> \in alarms' => <<"scan-fail", q>> \in alarms
    <3>1. alarms' = alarms \cup {<<"snapshot-drift", p>>}
      BY <1>5 DEF FinishDrifted
    <3>. QED  BY <3>1
  <2>3. Judged(p, TRUE)
    BY <1>5 DEF FinishDrifted
  <2>. QED  BY <1>2, <1>3, <2>1, <2>2, <2>3
<1>6. CASE FinishJudged(p)
  <2>1. PICK report \in AnswersFor(load[p]) :
          /\ cover' = [cover EXCEPT ![p] = CoverOf(load[p], report)]
          /\ Judged(p, ~Exempt(load[p]) /\ ReachesThreshold(report.verdict, load[p].denyOn))
    BY <1>6 DEF FinishJudged
  <2>2. ~Drifted(p) /\ alarms' = alarms
    BY <1>6 DEF FinishJudged
  <2>3. report.verdict \in load[p].seen \cup {"odd"}
    BY DEF AnswersFor, ReportsOf
  <2>4. (~Exempt(load[p]) /\ ReachesThreshold(report.verdict, load[p].denyOn)) \in BOOLEAN
    BY DEF Exempt, ReachesThreshold
  <2>5. ASSUME load[p].standing = "not_official", ~load[p].returned,
               ~(~Exempt(load[p]) /\ ReachesThreshold(report.verdict, load[p].denyOn))
        PROVE  ~ReachesThreshold(code[p], load[p].denyOn)
    <3>1. load[p].snap.file = code[p]
      <4>1. load[p].snap \in [file : Known]
        BY <1>1 DEF Loads
      <4>2. IsEmptyDiff(DiffManifests(load[p].snap, [file |-> code[p]]))
        BY <2>2, <2>5 DEF Drifted
      <4>3. DOMAIN load[p].snap = {"file"} /\ DOMAIN [file |-> code[p]] = {"file"}
        BY <4>1
      <4>4. load[p].snap["file"] = [file |-> code[p]]["file"]
        BY <4>2, <4>3 DEF IsEmptyDiff, DiffManifests
      <4>. QED  BY <4>4
    <3>2. load[p].seen = {code[p]}
      BY <1>1, <2>5, <3>1 DEF Fresh
    <3>3. ~ReachesThreshold(report.verdict, load[p].denyOn)
      BY <2>5 DEF Exempt
    <3>4. report.verdict = code[p]
      BY <2>3, <3>2, <3>3, OddReaches
    <3>. QED  BY <3>3, <3>4
  <2>. QED  BY <1>2, <1>3, <2>1, <2>2, <2>4, <2>5
<1>. QED  BY <1>4, <1>5, <1>6

LEMMA RewriteStep ==
  ASSUME GateInv, Rewrite
  PROVE  GateInv' /\ RefusedWithAuthority
<1>1. PICK r \in Rewrites :
        /\ code[r[1]] # r[2] /\ code' = [code EXCEPT ![r[1]] = r[2]]
        /\ load' = IF load[r[1]].phase = "scanning"
                   THEN [load EXCEPT ![r[1]].seen = @ \cup {r[2]},
                                     ![r[1]].returned = @ \/ r[2] \in load[r[1]].seen]
                   ELSE load
  BY DEF Rewrite
<1>. DEFINE p == r[1]
            c == r[2]
            l == [load[p] EXCEPT !.seen = @ \cup {c}, !.returned = @ \/ c \in load[p].seen]
<1>2. p \in Packages /\ c \in Known
  BY GateAssumption DEF Known, Verdicts
<1>3. /\ edits' \in 0..MaxEdits
      /\ UNCHANGED <<config, archive, summary, blocked, cover, alarms, gateRun>>
  BY GateAssumption DEF Rewrite, GateInv, GateTypeOK
<1>4. load[p] \in Loads /\ Fresh(load[p], code[p]) /\ code' \in [Packages -> Known]
      /\ code'[p] = c /\ \A q \in Packages \ {p} : code'[q] = code[q]
  BY <1>1, <1>2 DEF GateInv
<1>5. load[p].phase = "scanning" =>
        /\ l \in Loads /\ Fresh(l, c) /\ l.phase = "scanning"
  <2>. SUFFICES ASSUME load[p].phase = "scanning" PROVE l \in Loads /\ Fresh(l, c) /\ l.phase = "scanning"
    OBVIOUS
  <2>1. load[p] \in [phase : {"scanning"}, under : Modes, standing : Standings, denyOn : Thresholds,
                     osv : BOOLEAN, transitive : BOOLEAN,
                     snap : [file : Known], seen : SUBSET Known, returned : BOOLEAN]
    BY <1>4 DEF Loads
  <2>2. (load[p].returned \/ c \in load[p].seen) \in BOOLEAN /\ load[p].seen \cup {c} \in SUBSET Known
    BY <1>2, <2>1
  <2>3. /\ l.phase = "scanning" /\ l.snap = load[p].snap /\ l.seen = load[p].seen \cup {c}
        /\ l.returned = (load[p].returned \/ c \in load[p].seen)
    BY <2>1
  <2>4. l \in [phase : {"scanning"}, under : Modes, standing : Standings, denyOn : Thresholds,
               osv : BOOLEAN, transitive : BOOLEAN,
               snap : [file : Known], seen : SUBSET Known, returned : BOOLEAN]
    BY <2>1, <2>2
  <2>5. Fresh(l, c)
    <3>. HIDE DEF l
    <3>. QED  BY <1>4, <2>3 DEF Fresh
  <2>. QED  BY <2>3, <2>4, <2>5 DEF Loads
<1>6. /\ load' \in [Packages -> Loads]
      /\ \A q \in Packages \ {p} : load'[q] = load[q]
      /\ load'[p] = IF load[p].phase = "scanning" THEN l ELSE load[p]
  <2>1. load' = IF load[p].phase = "scanning" THEN [load EXCEPT ![p] = l] ELSE load
    BY <1>1
  <2>. HIDE DEF l, p
  <2>. QED  BY <1>2, <1>5, <2>1 DEF GateInv
<1>. HIDE DEF l, p, c
<1>7. \A q \in Packages : load'[q].phase = load[q].phase
  BY <1>5, <1>6
<1>8. GateTypeOK'
  <2>1. code' \in [Packages -> Verdicts]
    BY <1>4 DEF Known, Verdicts
  <2>2. \A q \in Packages : load'[q].phase \in {"absent", "none", "listed", "scanning", "loaded", "blocked"}
    BY <1>6 DEF Loads
  <2>3. \A q \in Packages : \A x \in cover'[q] : x.surface \in Surfaces
    BY <1>3 DEF GateInv, GateTypeOK
  <2>. QED  BY <1>3, <2>1, <2>2, <2>3 DEF GateInv, GateTypeOK
<1>9. ASSUME NEW q \in Packages PROVE Fresh(load'[q], code'[q]) /\ Held(load'[q]) /\ FailureShown(q)'
  <2>1. FailureShown(q)'
    BY <1>3, <1>7 DEF GateInv, FailureShown, Covered
  <2>2. CASE q # p
    BY <1>4, <1>6, <2>1, <2>2 DEF GateInv
  <2>3. CASE q = p /\ load[p].phase = "scanning"
    BY <1>4, <1>5, <1>6, <2>1, <2>3 DEF Held
  <2>4. CASE q = p /\ load[p].phase # "scanning"
    BY <1>4, <1>6, <2>1, <2>4 DEF GateInv, Fresh
  <2>. QED  BY <2>2, <2>3, <2>4
<1>10. (\A q \in Packages : Fresh(load[q], code[q]) /\ Held(load[q]) /\ FailureShown(q))'
  BY <1>9 DEF Fresh, Held
<1>11. DOMAIN cover' = Packages
  BY <1>3 DEF GateInv
<1>12. GateInv'
  BY <1>4, <1>6, <1>8, <1>10, <1>11 DEF GateInv
<1>. QED  BY <1>7, <1>12 DEF RefusedWithAuthority

LEMMA GateStep ==
  ASSUME GateInv, GateNext
  PROVE  GateInv' /\ RefusedWithAuthority
<1>1. ASSUME UNCHANGED <<code, edits, load, cover, alarms>>, config' \in Configs, archive' \subseteq Records,
             blocked' = blocked
      PROVE  GateInv' /\ RefusedWithAuthority
  <2>1. GateInv'
    BY <1>1 DEF GateInv, GateTypeOK, Fresh, Held, FailureShown, Covered
  <2>. QED  BY <1>1, <2>1 DEF RefusedWithAuthority
<1>2. ASSUME NEW p \in Packages, NEW mode, NEW denyOn, RunGate(p, mode, denyOn)
      PROVE  GateInv' /\ RefusedWithAuthority
  BY <1>1, <1>2 DEF RunGate, GateInv, GateTypeOK
<1>3. CASE FileAudit
  BY <1>1, <1>3 DEF FileAudit, GateInv, GateTypeOK
<1>4. CASE Reconfigure
  BY <1>1, <1>4 DEF Reconfigure, GateInv, GateTypeOK
<1>5. ASSUME NEW p \in Packages,
             LoadLocal(p) \/ RefuseUnaudited(p) \/ \E standing \in Standing(p) : Begin(p, standing)
      PROVE  GateInv' /\ RefusedWithAuthority
  BY <1>5, StartOfLoad DEF LoadLocal, RefuseUnaudited, Begin
<1>. QED
  BY <1>2, <1>3, <1>4, <1>5, SnapshotStep, FinishStep, RewriteStep DEF GateNext

-----------------------------------------------------------------------------
(* The tool calls.                                                         *)

\* A call that is done or is scanned further has the same place among the others.
Claimed == {x \in Execs : exec[x].phase = "done" /\ exec[x].claim = "blocked"}

\* What a step of a call x does, in terms of its next state e.
LEMMA OneCall ==
  ASSUME ToolInv, NEW x \in Execs, NEW e \in ExecStates, exec' = [exec EXCEPT ![x] = e],
         attempts' \in Nat, attempts <= attempts', attempts' = Cardinality(Arrived'),
         ran' \in {ran, ran \cup {x}},
         x \in ran' => e = [phase |-> "done", claim |-> "none"],
         e.phase = "scanning" \/ (e.phase = "done" /\ e.claim # "none")
            => /\ e.id <= attempts'
               /\ \A y \in Numbered \ {x} : exec[y].id # e.id,
         Weighed(x)',
         x \notin Claimed,
         receipt' = receipt \/ (e.phase = "done" /\ e.claim = "blocked" /\ receipt'.operation = e.id)
                            \/ receipt'.result # "applied"
  PROVE  ToolInv'
<1>1. exec' \in [Execs -> ExecStates] /\ exec'[x] = e /\ \A y \in Execs \ {x} : exec'[y] = exec[y]
  BY DEF ToolInv
<1>2. ran' \subseteq Execs /\ \A y \in Execs \ {x} : y \in ran' <=> y \in ran
  BY DEF ToolInv
<1>3. \A y \in ran' : exec'[y] = [phase |-> "done", claim |-> "none"]
  BY <1>1, <1>2 DEF ToolInv
<1>4. \A y \in Numbered' : y # x => y \in Numbered
  BY <1>1 DEF Numbered
<1>5. \A y \in Numbered' : exec'[y].id <= attempts'
  <2>1. ASSUME NEW y \in Numbered', y # x PROVE exec'[y].id <= attempts'
    <3>1. y \in Numbered /\ exec'[y] = exec[y] /\ exec[y].id <= attempts
      BY <1>1, <1>4, <2>1 DEF ToolInv, Numbered
    <3>2. exec[y].id \in Nat /\ attempts \in Nat
      <4>1. exec[y] \in ExecStates
        BY <3>1 DEF ToolInv, Numbered
      <4>. QED  BY <3>1, <4>1 DEF ExecStates, ToolInv, Numbered
    <3>. QED  BY <3>1, <3>2
  <2>. QED  BY <1>1, <2>1 DEF Numbered
<1>6. \A y, z \in Numbered' : exec'[y].id = exec'[z].id => y = z
  <2>1. \A y \in Numbered' : y # x => exec'[y].id = exec[y].id
    BY <1>1, <1>4 DEF Numbered
  <2>2. x \in Numbered' => \A y \in Numbered \ {x} : exec[y].id # exec'[x].id
    BY <1>1 DEF Numbered
  <2>. QED  BY <1>4, <2>1, <2>2 DEF ToolInv
<1>7. \A y \in Execs : Weighed(y)'
  BY <1>1 DEF ToolInv, Weighed
<1>8. ReceiptsTrue'
  <2>1. Claimed' \subseteq Numbered' /\ Claimed \subseteq Claimed' /\ \A y \in Claimed : exec'[y] = exec[y]
    BY <1>1 DEF Claimed, Numbered
  <2>2. \A y \in Claimed' : y # x => y \in Claimed
    BY <1>1 DEF Claimed
  <2>3. Claimed' \cap ran' = {}
    BY <1>1, <1>2, <2>2 DEF ToolInv, ReceiptsTrue, Claimed
  <2>4. receipt'.result = "applied" => \E y \in Claimed' : exec'[y].id = receipt'.operation
    <3>1. receipt.result = "applied" => \E y \in Claimed : exec[y].id = receipt.operation
      BY DEF ToolInv, ReceiptsTrue, Claimed
    <3>. QED  BY <1>1, <2>1, <3>1 DEF Claimed
  <2>. QED  BY <1>6, <2>1, <2>3, <2>4 DEF ReceiptsTrue, Claimed
<1>. QED  BY <1>1, <1>2, <1>3, <1>5, <1>6, <1>7, <1>8 DEF ToolInv

LEMMA ArriveStep ==
  ASSUME GateInv, ToolInv, NEW x \in Execs, Arrive(x)
  PROVE  ToolInv'
<1>. DEFINE plain == [phase |-> "done", claim |-> "none"]
            begun == [phase |-> "scanning", next |-> 1, worst |-> "clean", failed |-> FALSE,
                      id |-> attempts + 1, mode |-> config.mode, denyOn |-> config.denyOn]
<1>1. attempts \in Nat /\ config.mode \in Modes /\ config.denyOn \in Thresholds
  BY GateAssumption DEF ToolInv, GateInv, GateTypeOK, Modes, Thresholds
<1>2. plain \in ExecStates /\ begun \in ExecStates
  <2>1. attempts + 1 \in Nat \ {0}
    BY <1>1
  <2>. QED  BY <1>1, <2>1 DEF ExecStates, Known
<1>3. \/ exec' = [exec EXCEPT ![x] = plain] /\ ran' = ran \cup {x}
      \/ exec' = [exec EXCEPT ![x] = begun] /\ ran' = ran
  BY DEF Arrive
<1>4. exec[x].phase = "none" /\ attempts' = attempts + 1 /\ receipt' = receipt
  BY DEF Arrive
<1>5. x \notin Arrived /\ x \notin Numbered /\ x \notin Claimed
  BY <1>4 DEF Arrived, Numbered, Claimed
<1>6. \E e \in {plain, begun} : exec' = [exec EXCEPT ![x] = e]
  BY <1>3
<1>7. Arrived' = Arrived \cup {x}
  <2>1. plain.phase = "done" /\ begun.phase = "scanning"
    OBVIOUS
  <2>. HIDE DEF plain, begun
  <2>. QED  BY <1>6, <2>1 DEF Arrived, ToolInv
<1>8. attempts' = Cardinality(Arrived') /\ attempts' \in Nat /\ attempts <= attempts'
  <2>1. IsFiniteSet(Arrived)
    BY ToolAssumption, FS_Subset DEF Arrived
  <2>2. Cardinality(Arrived \cup {x}) = Cardinality(Arrived) + 1
    BY <1>5, <2>1, FS_AddElement
  <2>. QED  BY <1>1, <1>4, <1>7, <2>2 DEF ToolInv
<1>9. CASE exec' = [exec EXCEPT ![x] = plain] /\ ran' = ran \cup {x}
  <2>1. Weighed(x)'
    BY <1>9 DEF Weighed, ToolInv
  <2>. QED  BY <1>2, <1>4, <1>5, <1>8, <1>9, <2>1, OneCall
<1>10. CASE exec' = [exec EXCEPT ![x] = begun] /\ ran' = ran
  <2>1. exec'[x] = begun
    BY <1>10 DEF ToolInv
  <2>2. Weighed(x)'
    <3>1. \A n \in 1..Len(Payload[x]) : ~(n < 1)
      OBVIOUS
    <3>. QED  BY <2>1, <3>1 DEF Weighed
  <2>3. x \notin ran'
    BY <1>4, <1>10 DEF ToolInv
  <2>4. begun.id <= attempts' /\ \A y \in Numbered \ {x} : exec[y].id # begun.id
    <3>1. ASSUME NEW y \in Numbered PROVE exec[y].id # attempts + 1
      <4>1. exec[y].id <= attempts
        BY DEF ToolInv
      <4>2. exec[y] \in ExecStates /\ (exec[y].phase = "scanning" \/ (exec[y].phase = "done" /\ exec[y].claim # "none"))
        BY DEF ToolInv, Numbered
      <4>3. exec[y].id \in Nat
        BY <4>2 DEF ExecStates
      <4>. QED  BY <1>1, <4>1, <4>3
    <3>. QED  BY <1>1, <1>4, <3>1
  <2>. QED  BY <1>2, <1>4, <1>5, <1>8, <1>10, <2>2, <2>3, <2>4, OneCall
<1>. QED  BY <1>3, <1>9, <1>10

LEMMA ScannedStep ==
  ASSUME ToolInv, NEW x \in Execs, Scanned(x)
  PROVE  ToolInv'
<1>1. PICK v \in {Payload[x][exec[x].next], "odd", "failed"} :
        exec' = [exec EXCEPT ![x].next = @ + 1,
                             ![x].failed = @ \/ v \in {"odd", "failed"},
                             ![x].worst = IF v \in {"odd", "failed"} THEN @ ELSE WorseVerdict(@, v)]
  BY DEF Scanned
<1>. DEFINE s == exec[x]
            worst == IF v \in {"odd", "failed"} THEN s.worst ELSE WorseVerdict(s.worst, v)
            e == [s EXCEPT !.next = @ + 1, !.failed = @ \/ v \in {"odd", "failed"}, !.worst = worst]
<1>2. /\ s \in [phase : {"scanning"}, next : Nat \ {0}, worst : Known, failed : BOOLEAN, id : Nat \ {0},
                mode : Modes, denyOn : Thresholds]
      /\ s.next <= Len(Payload[x]) /\ x \in Numbered /\ x \notin ran
  <2>1. s \in ExecStates /\ s.phase = "scanning" /\ s.next <= Len(Payload[x])
    BY DEF Scanned, ToolInv
  <2>. QED  BY <2>1 DEF ExecStates, Numbered, ToolInv
<1>3. /\ Payload[x] \in Seq(Known) /\ Len(Payload[x]) \in Nat /\ DOMAIN Payload[x] = 1..Len(Payload[x])
      /\ \A n \in 1..Len(Payload[x]) : Payload[x][n] \in Known
  <2>1. Verdicts \ {"odd"} = Known
    BY DEF Verdicts, Known
  <2>2. Payload[x] \in Seq(Known)
    BY <2>1, ToolAssumption
  <2>. QED  BY <2>2, LenProperties, ElementOfSeq
<1>4. s.next \in 1..Len(Payload[x]) /\ s.next + 1 \in Nat \ {0}
  BY <1>2, <1>3
<1>5. Payload[x][s.next] \in Known /\ (v \notin {"odd", "failed"} => v \in Known /\ v = Payload[x][s.next])
  BY <1>3, <1>4 DEF Known
<1>6. /\ worst \in Known /\ VerdictRank(s.worst) <= VerdictRank(worst)
      /\ v \notin {"odd", "failed"} => VerdictRank(v) <= VerdictRank(worst)
  <2>1. \A a \in Known : VerdictRank(a) \in Nat
    BY VerdictRanks DEF Known
  <2>2. s.worst \in Known
    BY <1>2
  <2>. QED  BY <1>5, <2>1, <2>2 DEF WorseVerdict
<1>. HIDE DEF worst
<1>7. /\ e.phase = "scanning" /\ e.next = s.next + 1 /\ e.worst = worst /\ e.id = s.id
      /\ e.failed = (s.failed \/ v \in {"odd", "failed"})
      /\ e.mode = s.mode /\ e.denyOn = s.denyOn
  BY <1>2
<1>8. e \in [phase : {"scanning"}, next : Nat \ {0}, worst : Known, failed : BOOLEAN, id : Nat \ {0},
             mode : Modes, denyOn : Thresholds]
  <2>1. (s.failed \/ v \in {"odd", "failed"}) \in BOOLEAN
    BY <1>2
  <2>. QED  BY <1>2, <1>4, <1>6, <2>1
<1>9. exec' = [exec EXCEPT ![x] = e]
  BY <1>1 DEF worst
<1>. HIDE DEF e
<1>10. exec'[x] = e /\ \A y \in Execs \ {x} : exec'[y] = exec[y]
  BY <1>9 DEF ToolInv
<1>11. UNCHANGED <<attempts, receipt, ran>>
  BY DEF Scanned
<1>12. Arrived' = Arrived
  BY <1>2, <1>7, <1>10 DEF Arrived
<1>13. Weighed(x)'
  <2>1. ASSUME ~e.failed, NEW n \in 1..Len(Payload[x]), n < e.next
        PROVE  VerdictRank(Payload[x][n]) <= VerdictRank(e.worst)
    <3>1. ~s.failed /\ v \notin {"odd", "failed"}
      BY <1>2, <1>7, <2>1
    <3>2. s.worst \in Known /\ worst \in Known /\ Payload[x][n] \in Known
      BY <1>2, <1>3, <1>6
    <3>3. VerdictRank(s.worst) \in Nat /\ VerdictRank(worst) \in Nat /\ VerdictRank(Payload[x][n]) \in Nat
      BY <3>2, VerdictRanks DEF Known
    <3>4. CASE n = s.next
      BY <1>5, <1>6, <1>7, <3>1, <3>4
    <3>5. CASE n # s.next
      <4>1. n < s.next
        BY <1>2, <1>4, <1>7, <2>1, <3>5
      <4>2. VerdictRank(Payload[x][n]) <= VerdictRank(s.worst)
        BY <1>2, <3>1, <4>1 DEF ToolInv, Weighed
      <4>. QED  BY <1>6, <1>7, <3>3, <4>2
    <3>. QED  BY <3>4, <3>5
  <2>. QED  BY <1>10, <2>1 DEF Weighed
<1>14. e \in ExecStates
  BY <1>8 DEF ExecStates
<1>15. e.id <= attempts' /\ \A y \in Numbered \ {x} : exec[y].id # e.id
  BY <1>2, <1>7, <1>11 DEF ToolInv
<1>16. x \notin Claimed /\ x \notin ran'
  BY <1>2, <1>11 DEF Claimed
<1>17. attempts' \in Nat /\ attempts <= attempts' /\ attempts' = Cardinality(Arrived')
  BY <1>11, <1>12 DEF ToolInv
<1>. QED  BY <1>9, <1>11, <1>13, <1>14, <1>15, <1>16, <1>17, OneCall

\* The end of a call: the tool runs, or the call is refused with a receipt.
LEMMA EndStep ==
  ASSUME ToolInv, NEW x \in Execs, Forward(x) \/ Block(x)
  PROVE  ToolInv'
<1>. DEFINE s == exec[x]
            plain == [phase |-> "done", claim |-> "none"]
            result == BuildReceipt("deny", TRUE, 0, IF x \in ran THEN 1 ELSE 0, s.id)
            refused == [phase |-> "done", claim |-> IF SupportsBlockedClaim(result) THEN "blocked" ELSE "unsure",
                        id |-> s.id]
<1>1. s \in ExecStates /\ s.phase = "scanning" /\ x \in Numbered /\ x \notin ran /\ x \notin Claimed
  <2>1. exec[x] \in ExecStates /\ exec[x].phase = "scanning"
    BY DEF Forward, Block, ToolInv
  <2>2. x \notin ran
    BY <2>1 DEF ToolInv
  <2>. QED  BY <2>1, <2>2 DEF Numbered, Claimed
<1>2. s.id \in Nat \ {0} /\ s.id <= attempts /\ \A y \in Numbered \ {x} : exec[y].id # s.id
  BY <1>1 DEF ExecStates, ToolInv
<1>3. plain \in ExecStates /\ refused \in ExecStates
  BY <1>2 DEF ExecStates
<1>4. attempts' = attempts
  BY DEF Forward, Block
<1>5. ASSUME NEW e \in {plain, refused}, exec' = [exec EXCEPT ![x] = e]
      PROVE  /\ Weighed(x)'
             /\ attempts' \in Nat /\ attempts <= attempts' /\ attempts' = Cardinality(Arrived')
  <2>1. exec'[x] = e /\ e.phase = "done" /\ \A y \in Execs \ {x} : exec'[y] = exec[y]
    <3>1. plain.phase = "done" /\ refused.phase = "done"
      BY Zenon
    <3>. HIDE DEF plain, refused
    <3>. QED  BY <1>5, <3>1 DEF ToolInv
  <2>2. Arrived' = Arrived
    BY <1>1, <2>1 DEF Arrived
  <2>. QED  BY <1>4, <2>1, <2>2 DEF ToolInv, Weighed
<1>6. CASE Forward(x)
  <2>1. exec' = [exec EXCEPT ![x] = plain] /\ ran' = ran \cup {x} /\ receipt' = receipt
    BY <1>6 DEF Forward
  <2>. QED  BY <1>1, <1>3, <1>5, <2>1, OneCall
<1>7. CASE Block(x)
  <2>1. /\ exec' = [exec EXCEPT ![x] = refused] /\ ran' = ran
        /\ receipt' = [result |-> result, operation |-> s.id]
    BY <1>7 DEF Block
  <2>2. result = "applied"
    BY <1>1, <1>2 DEF BuildReceipt
  <2>3. refused.phase = "done" /\ refused.claim = "blocked" /\ refused.id = s.id
    BY <2>2 DEF SupportsBlockedClaim
  <2>4. receipt'.operation = refused.id
    BY <2>1, <2>3
  <2>5. refused.id <= attempts' /\ \A y \in Numbered \ {x} : exec[y].id # refused.id
    BY <1>2, <1>4, <2>3
  <2>6. Weighed(x)' /\ attempts' \in Nat /\ attempts <= attempts' /\ attempts' = Cardinality(Arrived')
    BY <1>5, <2>1
  <2>. HIDE DEF refused
  <2>. QED  BY <1>1, <1>3, <2>1, <2>3, <2>4, <2>5, <2>6, OneCall
<1>. QED  BY <1>6, <1>7

-----------------------------------------------------------------------------
(* The theorems about the gates.                                           *)

LEMMA InvInit == Init => Inv
<1>. SUFFICES ASSUME NEW w \in Worlds, GateInit(w.loads), ToolInit(w.calls) PROVE Inv
  BY DEF Init
<1>1. GateInv
  <2>1. /\ config \in Configs /\ code \in [Packages -> Known] /\ edits = 0 /\ archive = {} /\ blocked = 0
        /\ alarms = {} /\ cover = [p \in Packages |-> {}]
        /\ load = [p \in Packages |-> IF p \in w.loads THEN [phase |-> "none"] ELSE [phase |-> "absent"]]
    BY GateAssumption DEF GateInit, NotLoaded, NeverLoads, Known, Verdicts
  <2>2. load \in [Packages -> Loads] /\ \A p \in Packages : load[p].phase \in {"none", "absent"}
    BY <2>1 DEF Loads
  <2>3. GateTypeOK
    BY <2>1, <2>2, GateAssumption DEF GateTypeOK, Known, Verdicts
  <2>. QED  BY <2>1, <2>2, <2>3 DEF GateInv, Fresh, Held, FailureShown
<1>2. ToolInv
  <2>1. /\ exec = [x \in Execs |-> [phase |-> IF x \in w.calls THEN "none" ELSE "absent"]]
        /\ attempts = 0 /\ ran = {} /\ receipt.result = "none"
    BY DEF ToolInit
  <2>2. exec \in [Execs -> ExecStates] /\ \A x \in Execs : exec[x].phase \in {"none", "absent"}
    BY <2>1 DEF ExecStates
  <2>3. Arrived = {} /\ Numbered = {}
    BY <2>2 DEF Arrived, Numbered
  <2>4. ReceiptsTrue
    BY <2>1, <2>2 DEF ReceiptsTrue
  <2>. QED  BY <2>1, <2>2, <2>3, <2>4, FS_EmptySet DEF ToolInv, Weighed
<1>. QED  BY <1>1, <1>2 DEF Inv

LEMMA InvStep == Inv /\ [Next]_vars => Inv'
<1>. SUFFICES ASSUME Inv, [Next]_vars PROVE Inv'
  OBVIOUS
<1>. USE DEF Inv
<1>1. UNCHANGED toolVars => ToolInv'
  BY DEF toolVars, ToolInv, Numbered, Arrived, Weighed, ReceiptsTrue
<1>2. ASSUME UNCHANGED <<config, code, edits, archive, load, cover, alarms>>, blocked' \in {blocked, blocked + 1}
      PROVE  GateInv'
  BY <1>2 DEF GateInv, GateTypeOK, Fresh, Held, FailureShown, Covered
<1>3. CASE GateNext /\ UNCHANGED toolVars
  BY <1>1, <1>3, GateStep
<1>4. CASE ToolStep
  <2>1. UNCHANGED <<config, code, edits, archive, load, cover, alarms>> /\ blocked' \in {blocked, blocked + 1}
    BY <1>4 DEF ToolStep, gateVars
  <2>2. ToolInv'
    BY <1>4, ArriveStep, ScannedStep, EndStep DEF ToolStep
  <2>. QED  BY <1>2, <2>1, <2>2
<1>5. CASE UNCHANGED vars
  BY <1>1, <1>2, <1>5 DEF vars, gateVars
<1>. QED  BY <1>3, <1>4, <1>5 DEF Next

\* The invariants of the loads and of the tool calls hold together in every
\* reachable state.  (guards/internal-plugin.ts, guards/tool-execute.ts)
THEOREM Invariant == Spec => []Inv
<1>. QED  BY InvInit, InvStep, PTL DEF Spec

\* The loads, calls, numbers and coverage rows of the two guards have their types.
THEOREM TypeCorrect == Spec => []TypeOK
<1>1. Inv => TypeOK
  <2>. SUFFICES ASSUME Inv PROVE TypeOK
    OBVIOUS
  <2>1. \A x \in Execs : exec[x].phase \in {"absent", "none", "scanning", "done"}
    BY DEF Inv, ToolInv, ExecStates
  <2>2. attempts \in 0..Cardinality(Execs)
    <3>1. Arrived \subseteq Execs
      BY DEF Arrived
    <3>2. Cardinality(Arrived) <= Cardinality(Execs) /\ Cardinality(Execs) \in Nat
      BY <3>1, ToolAssumption, FS_Subset, FS_CardinalityType
    <3>. QED  BY <3>2 DEF Inv, ToolInv
  <2>. QED  BY <2>1, <2>2 DEF TypeOK, Inv, GateInv, ToolInv
<1>. QED  BY <1>1, Invariant, PTL

\* internal-plugin.ts finish(): what deny mode lets pass does not hold code the
\* threshold refuses, unless its files were put back between the two snapshots.
THEOREM DenyModeHolds == Spec => []DenyHolds
<1>1. Inv => DenyHolds
  BY DEF Inv, GateInv, Held, DenyHolds
<1>. QED  BY <1>1, Invariant, PTL

\* coverage.ts: a scan that failed leaves neither the files nor the advisories covered.
THEOREM CoverageIsEarned == Spec => []CoverIsEarned
<1>1. Inv => CoverIsEarned
  BY DEF Inv, GateInv, FailureShown, CoverIsEarned
<1>. QED  BY <1>1, Invariant, PTL

\* tool-execute.ts, receipt-oracle.ts: a call is said to be blocked only when its tool
\* has not run, and receipts are numbered apart.
THEOREM ReceiptsAreTrue == Spec => []ReceiptsTrue
<1>1. Inv => ReceiptsTrue
  BY DEF Inv, ToolInv
<1>. QED  BY <1>1, Invariant, PTL

\* The mode a load or a call came under decides about it: nothing that came in report
\* mode is refused, and in deny mode no payload above the threshold is run.
THEOREM ModeHasDecided == Spec => ModeDecides
<1>. DEFINE CallDecided(x) ==
              exec[x].phase = "scanning" /\ exec'[x].phase = "done" =>
                IF x \in ran'
                THEN exec[x].mode = "deny" =>
                     \A n \in DOMAIN Payload[x] : ~ReachesThreshold(Payload[x][n], exec[x].denyOn)
                ELSE exec[x].mode = "deny"
<1>1. Inv /\ [Next]_vars => [RefusedWithAuthority /\ \A x \in Execs : CallDecided(x)]_vars
  <2>. SUFFICES ASSUME Inv, Next PROVE RefusedWithAuthority /\ \A x \in Execs : CallDecided(x)
    OBVIOUS
  <2>1. CASE GateNext /\ UNCHANGED toolVars
    BY <2>1, GateStep DEF Inv, toolVars
  <2>2. CASE ToolStep
    <3>1. load' = load
      BY <2>2 DEF ToolStep, gateVars
    <3>2. RefusedWithAuthority
      BY <3>1 DEF RefusedWithAuthority
    <3>3. PICK y \in Execs : Arrive(y) \/ Scanned(y) \/ Forward(y) \/ Block(y)
      BY <2>2 DEF ToolStep
    <3>4. ASSUME NEW x \in Execs, exec[x].phase = "scanning", exec'[x].phase = "done"
          PROVE  x = y /\ (Forward(y) \/ Block(y))
      <4>1. exec \in [Execs -> ExecStates]
        BY DEF Inv, ToolInv
      <4>2. CASE Arrive(y)
        <5>1. \A z \in Execs \ {y} : exec'[z] = exec[z]
          BY <4>1, <4>2 DEF Arrive
        <5>. QED  BY <3>4, <4>2, <5>1 DEF Arrive
      <4>3. CASE Scanned(y)
        <5>1. \A z \in Execs \ {y} : exec'[z] = exec[z]
          BY <4>1, <4>3 DEF Scanned
        <5>2. exec'[y].phase = exec[y].phase
          <6>1. exec[y] \in [phase : {"scanning"}, next : Nat \ {0}, worst : Known, failed : BOOLEAN,
                             id : Nat \ {0}, mode : Modes, denyOn : Thresholds]
            BY <4>1, <4>3 DEF ExecStates, Scanned
          <6>. QED  BY <4>1, <4>3, <6>1 DEF Scanned
        <5>. QED  BY <3>4, <5>1, <5>2
      <4>4. CASE Forward(y) \/ Block(y)
        <5>1. \A z \in Execs \ {y} : exec'[z] = exec[z]
          BY <4>1, <4>4 DEF Forward, Block
        <5>. QED  BY <3>4, <4>4, <5>1
      <4>. QED  BY <3>3, <4>2, <4>3, <4>4
    <3>5. ASSUME NEW x \in Execs, Forward(x), exec[x].mode = "deny", NEW n \in DOMAIN Payload[x]
          PROVE  ~ReachesThreshold(Payload[x][n], exec[x].denyOn)
      <4>. DEFINE s == exec[x]
      <4>1. /\ s.phase = "scanning" /\ s.next > Len(Payload[x]) /\ ~s.failed
            /\ ~ReachesThreshold(s.worst, s.denyOn)
        BY <3>5 DEF Forward, Denied
      <4>2. s \in ExecStates /\ s.worst \in Known /\ s.denyOn \in Thresholds /\ s.next \in Nat
        <5>1. s \in ExecStates
          BY DEF Inv, ToolInv
        <5>. QED  BY <4>1, <5>1 DEF ExecStates
      <4>3. Len(Payload[x]) \in Nat /\ n \in 1..Len(Payload[x]) /\ Payload[x][n] \in Known
        <5>1. Verdicts \ {"odd"} = Known
          BY DEF Verdicts, Known
        <5>2. Payload[x] \in Seq(Known)
          BY <5>1, ToolAssumption
        <5>. QED  BY <5>2, LenProperties, ElementOfSeq
      <4>4. VerdictRank(Payload[x][n]) <= VerdictRank(s.worst)
        <5>1. n < s.next
          BY <4>1, <4>2, <4>3
        <5>. QED  BY <4>1, <4>3, <5>1 DEF Inv, ToolInv, Weighed
      <4>5. \A v \in Known : VerdictRank(v) \in Nat /\ IsKnownVerdict(v)
        BY VerdictRanks DEF Known, IsKnownVerdict
      <4>6. VerdictRank(s.denyOn) \in Nat
        BY <4>2, VerdictRanks DEF Thresholds
      <4>. HIDE DEF s
      <4>7. VerdictRank(Payload[x][n]) \in Nat /\ VerdictRank(s.worst) \in Nat /\ IsKnownVerdict(s.worst) /\ IsKnownVerdict(Payload[x][n])
        BY <4>2, <4>3, <4>5
      <4>8. ~(VerdictRank(s.worst) >= VerdictRank(s.denyOn))
        BY <4>1, <4>7 DEF ReachesThreshold
      <4>9. ~(VerdictRank(Payload[x][n]) >= VerdictRank(s.denyOn))
        BY <4>4, <4>6, <4>7, <4>8
      <4>. QED  BY <4>7, <4>9 DEF ReachesThreshold, s
    <3>6. ASSUME NEW x \in Execs, Forward(x) PROVE x \in ran'
      BY <3>6 DEF Forward
    <3>7. ASSUME NEW x \in Execs, Block(x) PROVE exec[x].mode = "deny" /\ x \notin ran'
      <4>1. exec[x].phase = "scanning" /\ exec[x].mode = "deny" /\ ran' = ran
        BY <3>7 DEF Block, Denied
      <4>2. x \notin ran
        BY <4>1 DEF Inv, ToolInv
      <4>. QED  BY <4>1, <4>2
    <3>8. \A x \in Execs : CallDecided(x)
      BY <3>4, <3>5, <3>6, <3>7
    <3>. QED  BY <3>2, <3>8
  <2>. QED  BY <2>1, <2>2 DEF Next
<1>. QED  BY <1>1, Invariant, PTL DEF Spec, ModeDecides

-----------------------------------------------------------------------------
(***************************************************************************)
(* The load gate and the trust anchor: OfficialTrust.                      *)
(***************************************************************************)
\* A chain and the record it was started on: unless it is dropped the record
\* stays, and while an official content waits for its answer the record keeps
\* naming it.
ChainsFollowRecords ==
    \A t \in Tasks : task[t] # NoTask /\ KeyOf(t) \notin forgotten =>
        /\ store[KeyOf(t)] # NoRecord
        /\ task[t].stage # "reconciling" /\ task[t].hash \in Genuine
           => store[KeyOf(t)].hash = task[t].hash

\* What the registry denied is on file, marked, unless a restart or a failed
\* reading has dropped the record.
DenialsOnFile ==
    \A p \in Pkgs, c \in Contents : <<p, c>> \in refuted =>
        /\ c \notin Genuine
        /\ Key(p, c) \notin forgotten =>
              /\ store[Key(p, c)] # NoRecord
              /\ store[Key(p, c)].hash = c => store[Key(p, c)].suspected

\* The queue behind SlotsKept: every waiting chain is in it, once.
QueueOK ==
    /\ \A i \in DOMAIN waiters : task[waiters[i]].stage = "waiting"
    /\ \A i, j \in DOMAIN waiters : waiters[i] = waiters[j] => i = j
    /\ \A t \in At("waiting") : \E i \in DOMAIN waiters : waiters[i] = t
    /\ active = Cardinality(At("verifying"))
    /\ active + Cardinality(At("woken")) <= MaxActive
    /\ waiters # <<>> => active + Cardinality(At("woken")) = MaxActive

\* Callbacks of a refresh and chains woken by an answer are never due at once.
OneDrain == At("ready") = {} \/ At("woken") = {}

TrustInv ==
    /\ TrustTypeOK
    /\ QueueOK
    /\ OneDrain
    /\ ChainsFollowRecords
    /\ DenialsOnFile
    /\ proven \subseteq trusted
    /\ TrustNeedsEvidence

-----------------------------------------------------------------------------
(* One lemma per conjunct.                                                 *)

LEMMA KeyInKeys == ASSUME NEW p \in Pkgs, NEW c \in Contents PROVE Key(p, c) \in Keys
  BY TrustAssumption DEF Key, Keys

\* A free chain is a chain.
LEMMA FreeChain ==
  ASSUME At("idle") # {}
  PROVE  (CHOOSE t \in Tasks : task[t].stage = "idle") \in At("idle")
  BY DEF At

\* A chain that is not idle is a job.
LEMMA JobType ==
  ASSUME TrustTypeOK, NEW t \in Tasks, task[t].stage # "idle"
  PROVE  /\ task[t] \in Task
         /\ task[t].pkg \in Pkgs /\ task[t].hash \in Contents
         /\ KeyOf(t) \in Keys
<1>1. task[t] \in Task
  BY DEF TrustTypeOK, NoTask
<1>2. task[t].pkg \in Pkgs /\ task[t].hash \in Contents
  BY <1>1 DEF Task
<1> QED
  BY <1>1, <1>2, KeyInKeys DEF KeyOf

\* Entering the slots.
LEMMA EnterType ==
  ASSUME TrustTypeOK, NEW t \in Tasks, NEW p \in Pkgs, NEW c \in Contents, Enter(t, p, c)
  PROVE  /\ task' \in [Tasks -> Task \cup {NoTask}]
         /\ waiters' \in Seq(Tasks) /\ active' \in Nat
         /\ ahead' \in [Tasks -> SUBSET Tasks]
         /\ \E s \in {"waiting", "verifying"} :
               task' = [task EXCEPT ![t] = [stage |-> s, pkg |-> p, hash |-> c]]
<1>1. \A s \in {"waiting", "verifying"} : [stage |-> s, pkg |-> p, hash |-> c] \in Task
  BY DEF Task, Stage
<1>2. CASE active >= MaxActive /\ task' = [task EXCEPT ![t] = [stage |-> "waiting", pkg |-> p, hash |-> c]]
           /\ waiters' = Append(waiters, t) /\ UNCHANGED <<active, ahead>>
  BY <1>1, <1>2 DEF TrustTypeOK
<1>3. CASE active < MaxActive /\ task' = [task EXCEPT ![t] = [stage |-> "verifying", pkg |-> p, hash |-> c]]
           /\ active' = active + 1 /\ waiters' = waiters /\ AskRegistry(t, Key(p, c))
  <2>1. ahead' \in [Tasks -> SUBSET Tasks]
    BY <1>3 DEF TrustTypeOK, AskRegistry, At
  <2>2. task' \in [Tasks -> Task \cup {NoTask}]
    BY <1>1, <1>3 DEF TrustTypeOK
  <2>3. waiters' \in Seq(Tasks) /\ active' \in Nat
    BY <1>3 DEF TrustTypeOK
  <2>4. \E s \in {"waiting", "verifying"} :
           task' = [task EXCEPT ![t] = [stage |-> s, pkg |-> p, hash |-> c]]
    BY <1>3
  <2> QED
    BY <2>1, <2>2, <2>3, <2>4
<1> QED
  BY <1>2, <1>3 DEF Enter

\* A load that starts a chain.
LEMMA ChainType ==
  ASSUME TrustTypeOK, NEW t \in Tasks, NEW p \in Pkgs, NEW c \in Contents, Chain(t, p, c)
  PROVE  /\ task' \in [Tasks -> Task \cup {NoTask}]
         /\ waiters' \in Seq(Tasks) /\ active' \in Nat
         /\ ahead' \in [Tasks -> SUBSET Tasks]
         /\ \/ task' = task
            \/ \E s \in {"asking", "waiting", "verifying"} :
                  task' = [task EXCEPT ![t] = [stage |-> s, pkg |-> p, hash |-> c]]
<1>1. CASE ~Online
  BY <1>1 DEF Chain, chains, TrustTypeOK
<1>2. CASE Online /\ p \in catalog
  BY <1>2, EnterType DEF Chain
<1>3. CASE Online /\ p \notin catalog
  <2>1. [stage |-> "asking", pkg |-> p, hash |-> c] \in Task
    BY DEF Task, Stage
  <2> QED
    BY <1>3, <2>1 DEF Chain, TrustTypeOK
<1> QED
  BY <1>1, <1>2, <1>3

-----------------------------------------------------------------------------
(* Type correctness, action by action.                                     *)

RecordType == store' \in [Keys -> Record \cup {NoRecord}] /\ saved' \in [Keys -> Record \cup {NoRecord}]
ChainsType ==
    /\ task' \in [Tasks -> Task \cup {NoTask}]
    /\ waiters' \in Seq(Tasks) /\ active' \in Nat
    /\ ahead' \in [Tasks -> SUBSET Tasks]

\* A save with its reading leaves what was held, or what it drops is forgotten.
LEMMA Reloading ==
  ASSUME TrustTypeOK, NEW new \in [Keys -> Record \cup {NoRecord}], NEW ok, NEW read,
         SaveAndReload(new, ok, read)
  PROVE  /\ RecordType
         /\ forgotten \subseteq forgotten' /\ forgotten' \subseteq Keys
         /\ \A j \in Keys : j \notin forgotten' => store'[j] = new[j]
<1>1. RecordType
  BY DEF SaveAndReload, Loaded, TrustTypeOK, RecordType
<1>2. forgotten' = forgotten \cup {j \in Keys : store'[j] # new[j]}
  BY DEF SaveAndReload, Drops
<1> QED
  BY <1>1, <1>2 DEF TrustTypeOK

\* setRecordSuspected keeps the records well formed.
LEMMA SuspectType ==
  ASSUME TrustTypeOK, NEW k \in Keys, NEW s \in BOOLEAN, NEW ok, NEW read, Suspect(k, s, ok, read)
  PROVE  /\ RecordType
         /\ forgotten \subseteq forgotten' /\ forgotten' \subseteq Keys
<1>1. CASE store[k] = NoRecord
  BY <1>1 DEF Suspect, TrustTypeOK, RecordType, baseline
<1>2. CASE store[k] # NoRecord
  <2>1. store[k] \in Record
    BY <1>2 DEF TrustTypeOK
  <2> DEFINE new == [store EXCEPT ![k].suspected = s]
  <2>2. SaveAndReload(new, ok, read)
    BY <1>2 DEF Suspect
  <2>3. [store[k] EXCEPT !.suspected = s] \in Record
    BY <2>1 DEF Record
  <2>4. new \in [Keys -> Record \cup {NoRecord}]
    BY <2>3 DEF TrustTypeOK
  <2> HIDE DEF new
  <2> QED
    BY <2>2, <2>4, Reloading
<1> QED
  BY <1>1, <1>2

LEMMA DecideType ==
  ASSUME TrustTypeOK, NEW t \in Tasks, task[t].stage # "idle", Decide(t)
  PROVE  /\ trusted' \subseteq Pkgs /\ proven' \subseteq Pkgs
         /\ refuted' \subseteq Pkgs \X Contents
<1>1. task[t].pkg \in Pkgs /\ task[t].hash \in Contents
  BY JobType
<1> QED
  BY <1>1 DEF Decide, TrustTypeOK

\* Leaving the slots: the chain is free, the first waiter is woken.
LEMMA LeaveType ==
  ASSUME TrustTypeOK, QueueOK, NEW t \in Tasks, task[t].stage = "verifying", Leave(t)
  PROVE  ChainsType
<1>1. active > 0
  <2>1. IsFiniteSet(At("verifying"))
    BY TrustAssumption, FS_Subset DEF At
  <2>2. Cardinality(At("verifying")) # 0
    BY <2>1, FS_EmptySet DEF At
  <2> QED
    BY <2>2 DEF QueueOK, TrustTypeOK
<1>2. active' \in Nat /\ ahead' \in [Tasks -> SUBSET Tasks]
  BY <1>1 DEF TrustTypeOK, Leave, Forget
<1>3. CASE waiters = <<>>
  BY <1>2, <1>3 DEF Leave, TrustTypeOK, ChainsType
<1>4. CASE waiters # <<>>
  <2> DEFINE w == Head(waiters)
  <2>1. w \in Tasks /\ Tail(waiters) \in Seq(Tasks) /\ 1 \in DOMAIN waiters /\ w = waiters[1]
    BY <1>4 DEF TrustTypeOK
  <2>2. task[w].stage = "waiting"
    BY <2>1 DEF QueueOK
  <2>3. w # t /\ task[w] \in Task
    BY <2>1, <2>2, JobType
  <2>4. [task[w] EXCEPT !.stage = "woken"] \in Task
    BY <2>3 DEF Task, Stage
  <2>5. task' = [task EXCEPT ![t] = NoTask, ![w].stage = "woken"] /\ waiters' = Tail(waiters)
    BY <1>4 DEF Leave
  <2> QED
    BY <1>2, <2>1, <2>3, <2>4, <2>5 DEF TrustTypeOK, ChainsType
<1> QED
  BY <1>3, <1>4

-----------------------------------------------------------------------------
(* The slots.                                                              *)

LEMMA AtFinite == ASSUME NEW s PROVE IsFiniteSet(At(s)) /\ Cardinality(At(s)) \in Nat
  BY TrustAssumption, FS_Subset, FS_CardinalityType DEF At

\* A step that moves no chain into, out of or within the slots.
LEMMA SlotsUntouched ==
  ASSUME TrustTypeOK, QueueOK, UNCHANGED <<waiters, active>>,
         At("waiting")' = At("waiting"), At("woken")' = At("woken"),
         At("verifying")' = At("verifying")
  PROVE  QueueOK'
<1>1. \A i \in DOMAIN waiters : waiters[i] \in Tasks
  BY DEF TrustTypeOK
<1>2. \A i \in DOMAIN waiters : waiters[i] \in At("waiting")'
  BY <1>1 DEF QueueOK, At
<1>3. \A i \in DOMAIN waiters' : task'[waiters'[i]].stage = "waiting"
  BY <1>2 DEF At
<1> QED
  BY <1>3 DEF QueueOK

\* A chain outside the slots asks for one.
LEMMA EnterKeepsSlots ==
  ASSUME TrustTypeOK, QueueOK, NEW t \in Tasks, NEW p, NEW c, Enter(t, p, c),
         task[t].stage \in {"idle", "ready"}, At("woken") = {}
  PROVE  QueueOK'
<1>t. DOMAIN task = Tasks
  BY DEF TrustTypeOK
<1>w. t \notin At("waiting") /\ t \notin At("verifying") /\ t \notin At("woken")
  BY DEF At
<1>0. Cardinality(At("woken")) = 0
  BY FS_EmptySet
<1>1. CASE active >= MaxActive /\ task' = [task EXCEPT ![t] = [stage |-> "waiting", pkg |-> p, hash |-> c]]
           /\ waiters' = Append(waiters, t) /\ UNCHANGED <<active, ahead>>
  <2>1. At("verifying")' = At("verifying") /\ At("woken")' = At("woken")
        /\ At("waiting")' = At("waiting") \cup {t}
    BY <1>1, <1>t, <1>w DEF At
  <2>2. \A i \in DOMAIN waiters : waiters[i] # t /\ waiters[i] \in Tasks
    BY <1>w DEF QueueOK, At, TrustTypeOK
  <2>3. /\ DOMAIN waiters' = DOMAIN waiters \cup {Len(waiters) + 1}
        /\ \A i \in DOMAIN waiters : waiters'[i] = waiters[i]
        /\ waiters'[Len(waiters) + 1] = t
        /\ Len(waiters) + 1 \notin DOMAIN waiters
    BY <1>1 DEF TrustTypeOK
  <2>4. \A i \in DOMAIN waiters' : task'[waiters'[i]].stage = "waiting"
    BY <1>1, <1>t, <2>2, <2>3 DEF QueueOK
  <2>5. \A i, j \in DOMAIN waiters' : waiters'[i] = waiters'[j] => i = j
    BY <2>2, <2>3 DEF QueueOK
  <2>6. \A u \in At("waiting")' : \E i \in DOMAIN waiters' : waiters'[i] = u
    <3> SUFFICES ASSUME NEW u \in At("waiting") \cup {t}
                 PROVE  \E i \in DOMAIN waiters' : waiters'[i] = u
      BY <2>1
    <3>1. CASE u = t
      BY <3>1, <2>3
    <3>2. CASE u \in At("waiting")
      BY <3>2, <2>3 DEF QueueOK
    <3> QED
      BY <3>1, <3>2
  <2>7. active = MaxActive
    BY <1>0, <1>1, TrustAssumption DEF QueueOK, TrustTypeOK
  <2>8. active' = Cardinality(At("verifying")') /\ active' + Cardinality(At("woken")') = MaxActive
    BY <1>0, <1>1, <2>1, <2>7, TrustAssumption DEF QueueOK
  <2>9. active' + Cardinality(At("woken")') <= MaxActive
    BY <2>8, TrustAssumption
  <2> QED
    BY <2>4, <2>5, <2>6, <2>8, <2>9 DEF QueueOK
<1>2. CASE active < MaxActive /\ task' = [task EXCEPT ![t] = [stage |-> "verifying", pkg |-> p, hash |-> c]]
           /\ active' = active + 1 /\ waiters' = waiters
  <2>1. At("verifying")' = At("verifying") \cup {t} /\ At("woken")' = At("woken")
        /\ At("waiting")' = At("waiting")
    BY <1>2, <1>t, <1>w DEF At
  <2>2. Cardinality(At("verifying")') = Cardinality(At("verifying")) + 1
    BY <1>w, <2>1, AtFinite, FS_AddElement
  <2>3. waiters = <<>>
    BY <1>0, <1>2, TrustAssumption DEF QueueOK, TrustTypeOK
  <2>4. \A u \in At("waiting")' : \E i \in DOMAIN waiters' : waiters'[i] = u
    BY <1>2, <2>1 DEF QueueOK
  <2>5. waiters' = <<>> /\ DOMAIN waiters' = {}
    BY <1>2, <2>3
  <2>6. active' = Cardinality(At("verifying")') /\ active' + Cardinality(At("woken")') <= MaxActive
    BY <1>0, <1>2, <2>1, <2>2, TrustAssumption DEF QueueOK, TrustTypeOK
  <2> QED
    BY <2>4, <2>5, <2>6 DEF QueueOK
<1> QED
  BY <1>1, <1>2 DEF Enter

\* A chain gives its slot back, and the first waiter has it.
LEMMA LeaveKeepsSlots ==
  ASSUME TrustTypeOK, QueueOK, NEW t \in Tasks, task[t].stage = "verifying", Leave(t)
  PROVE  QueueOK'
<1>t. DOMAIN task = Tasks
  BY DEF TrustTypeOK
<1>v. t \in At("verifying") /\ t \notin At("woken") /\ t \notin At("waiting")
  BY DEF At
<1>c. Cardinality(At("verifying") \ {t}) = Cardinality(At("verifying")) - 1
  BY <1>v, AtFinite, FS_RemoveElement
<1>1. CASE waiters = <<>>
  <2>1. task' = [task EXCEPT ![t] = NoTask] /\ waiters' = waiters /\ active' = active - 1
    BY <1>1 DEF Leave
  <2>2. At("verifying")' = At("verifying") \ {t} /\ At("woken")' = At("woken")
        /\ At("waiting")' = At("waiting")
    BY <1>t, <1>v, <2>1 DEF At, NoTask
  <2>3. active' = Cardinality(At("verifying")') /\ active' + Cardinality(At("woken")') <= MaxActive
    <3>1. active = Cardinality(At("verifying")) /\ active + Cardinality(At("woken")) <= MaxActive
      BY DEF QueueOK
    <3>2. active' = Cardinality(At("verifying") \ {t})
      BY <1>c, <2>1, <3>1
    <3>3. active \in Nat /\ Cardinality(At("woken")) \in Nat /\ MaxActive \in Nat
      BY AtFinite, TrustAssumption DEF TrustTypeOK
    <3>4. active' + Cardinality(At("woken")) <= MaxActive
      BY <2>1, <3>1, <3>3
    <3> QED
      BY <2>2, <3>2, <3>4
  <2>4. \A u \in At("waiting")' : \E i \in DOMAIN waiters' : waiters'[i] = u
    BY <2>1, <2>2 DEF QueueOK
  <2>5. waiters' = <<>> /\ DOMAIN waiters' = {}
    BY <1>1, <2>1
  <2> QED
    BY <2>3, <2>4, <2>5 DEF QueueOK
<1>2. CASE waiters # <<>>
  <2> DEFINE w == Head(waiters)
  <2>1. waiters' = Tail(waiters) /\ active' = active - 1
        /\ task' = [task EXCEPT ![t] = NoTask, ![w].stage = "woken"]
    BY <1>2 DEF Leave
  <2>2. w = waiters[1] /\ 1 \in DOMAIN waiters /\ w \in Tasks
    BY <1>2 DEF TrustTypeOK
  <2>3. task[w].stage = "waiting" /\ w # t
    BY <2>2 DEF QueueOK
  <2>4. task[w] \in Task
    BY <2>2, <2>3, JobType
  <2>5. /\ task'[w].stage = "woken" /\ task'[t].stage = "idle"
        /\ \A u \in Tasks : u # w /\ u # t => task'[u] = task[u]
    BY <1>t, <2>1, <2>2, <2>3, <2>4 DEF NoTask, Task
  <2>6. At("verifying")' = At("verifying") \ {t} /\ At("woken")' = At("woken") \cup {w}
        /\ At("waiting")' = At("waiting") \ {w} /\ w \notin At("woken")
    BY <1>v, <2>2, <2>3, <2>5 DEF At
  <2>7. Cardinality(At("woken")') = Cardinality(At("woken")) + 1
    BY <2>6, AtFinite, FS_AddElement
  <2>8. active' = Cardinality(At("verifying")') /\ active' + Cardinality(At("woken")') = MaxActive
    <3>1. active = Cardinality(At("verifying")) /\ active + Cardinality(At("woken")) = MaxActive
      BY <1>2 DEF QueueOK
    <3>2. active' = Cardinality(At("verifying") \ {t})
      BY <1>c, <2>1, <3>1
    <3>3. active \in Nat /\ Cardinality(At("woken")) \in Nat /\ MaxActive \in Nat
      BY AtFinite, TrustAssumption DEF TrustTypeOK
    <3>4. (active - 1) + (Cardinality(At("woken")) + 1) = MaxActive
      BY <3>1, <3>3
    <3> QED
      BY <2>1, <2>6, <2>7, <3>2, <3>4
  <2>9. /\ \A i \in DOMAIN waiters' : i + 1 \in DOMAIN waiters /\ waiters'[i] = waiters[i + 1] /\ i \in Nat \ {0}
        /\ \A i \in DOMAIN waiters : i # 1 => i - 1 \in DOMAIN waiters' /\ waiters'[i - 1] = waiters[i]
    BY <1>2, <2>1 DEF TrustTypeOK
  <2>10. \A i \in DOMAIN waiters : waiters[i] \in Tasks /\ i \in Nat
    BY DEF TrustTypeOK
  <2>11. \A i \in DOMAIN waiters' : task'[waiters'[i]].stage = "waiting"
    <3> SUFFICES ASSUME NEW i \in DOMAIN waiters' PROVE task'[waiters'[i]].stage = "waiting"
      OBVIOUS
    <3>1. i + 1 \in DOMAIN waiters /\ waiters'[i] = waiters[i + 1] /\ i + 1 # 1
      BY <2>9, <2>10
    <3>2. waiters[i + 1] # w /\ task[waiters[i + 1]].stage = "waiting"
      BY <3>1, <2>2 DEF QueueOK
    <3> QED
      BY <3>1, <3>2, <2>5, <2>10
  <2>12. \A i, j \in DOMAIN waiters' : waiters'[i] = waiters'[j] => i = j
    <3> SUFFICES ASSUME NEW i \in DOMAIN waiters', NEW j \in DOMAIN waiters', waiters'[i] = waiters'[j]
                 PROVE  i = j
      OBVIOUS
    <3>1. i + 1 = j + 1
      BY <2>9 DEF QueueOK
    <3> QED
      BY <3>1, <2>9
  <2>13. \A u \in At("waiting")' : \E i \in DOMAIN waiters' : waiters'[i] = u
    <3> SUFFICES ASSUME NEW u \in At("waiting"), u # w
                 PROVE  \E i \in DOMAIN waiters' : waiters'[i] = u
      BY <2>6
    <3>1. PICK i \in DOMAIN waiters : waiters[i] = u
      BY DEF QueueOK
    <3>2. i # 1
      BY <3>1, <2>2
    <3> QED
      BY <3>1, <3>2, <2>9
  <2>14. active' + Cardinality(At("woken")') <= MaxActive
    BY <2>8, TrustAssumption
  <2> QED
    BY <2>8, <2>11, <2>12, <2>13, <2>14 DEF QueueOK
<1> QED
  BY <1>1, <1>2

\* The woken chain takes the slot it was given.
LEMMA ResumeKeepsSlots ==
  ASSUME TrustTypeOK, QueueOK, NEW t \in Tasks, Resume(t)
  PROVE  QueueOK'
<1>1. task[t].stage = "woken" /\ active' = active + 1 /\ waiters' = waiters
      /\ task' = [task EXCEPT ![t].stage = "verifying"]
  BY DEF Resume
<1>2. task[t] \in Task
  BY <1>1, JobType
<1>3. task'[t].stage = "verifying" /\ \A u \in Tasks : u # t => task'[u] = task[u]
  BY <1>1, <1>2 DEF TrustTypeOK, Task
<1>4. At("verifying")' = At("verifying") \cup {t} /\ At("woken")' = At("woken") \ {t}
      /\ At("waiting")' = At("waiting") /\ t \notin At("verifying") /\ t \in At("woken")
      /\ t \notin At("waiting")
  BY <1>1, <1>3 DEF At
<1>5. Cardinality(At("verifying")') = Cardinality(At("verifying")) + 1
  BY <1>4, AtFinite, FS_AddElement
<1>6. Cardinality(At("woken")') = Cardinality(At("woken")) - 1
  BY <1>4, AtFinite, FS_RemoveElement
<1>7. /\ active' = Cardinality(At("verifying")')
      /\ active' + Cardinality(At("woken")') <= MaxActive
      /\ waiters' # <<>> => active' + Cardinality(At("woken")') = MaxActive
  BY <1>1, <1>5, <1>6, AtFinite, TrustAssumption DEF QueueOK, TrustTypeOK
<1>8. \A i \in DOMAIN waiters : waiters[i] \in Tasks /\ waiters[i] # t
  BY <1>1 DEF QueueOK, TrustTypeOK
<1>9. \A i \in DOMAIN waiters' : task'[waiters'[i]].stage = "waiting"
  BY <1>1, <1>3, <1>8 DEF QueueOK
<1>10. \A u \in At("waiting")' : \E i \in DOMAIN waiters' : waiters'[i] = u
  BY <1>1, <1>4 DEF QueueOK
<1>11. \A i, j \in DOMAIN waiters' : waiters'[i] = waiters'[j] => i = j
  BY <1>1 DEF QueueOK
<1> QED
  BY <1>7, <1>9, <1>10, <1>11 DEF QueueOK

-----------------------------------------------------------------------------
(* Types and slots are kept by every step.                                 *)

\* What a load does to the chains, seen from one of its three outcomes.
LEMMA LoadCases ==
  ASSUME TrustTypeOK, QueueOK, NEW p \in Pkgs, NEW ok \in SaveOutcomes, Load(p, ok)
  PROVE  \E t \in At("idle") :
            /\ At("woken") = {} /\ At("ready") = {}
            /\ \/ FirstSeen(t, p, installed[p], ok)
               \/ Match(t, p, installed[p])
               \/ Mismatch(t, p, installed[p])
  BY FreeChain DEF Load, Drained

LEMMA InitTypes == TrustInit => TrustTypeOK /\ QueueOK
<1> SUFFICES ASSUME TrustInit PROVE TrustTypeOK /\ QueueOK
  OBVIOUS
<1>1. TrustTypeOK
  <2>1. store \in [Keys -> Record \cup {NoRecord}] /\ saved \in [Keys -> Record \cup {NoRecord}]
    BY DEF TrustInit
  <2>2. task \in [Tasks -> Task \cup {NoTask}] /\ ahead \in [Tasks -> SUBSET Tasks]
    BY DEF TrustInit
  <2>3. waiters \in Seq(Tasks) /\ active \in Nat
    BY DEF TrustInit
  <2>4. /\ installed \in [Pkgs -> Contents]
        /\ trusted \subseteq Pkgs /\ proven \subseteq Pkgs
        /\ catalog \subseteq Pkgs /\ overlay \subseteq Pkgs /\ refreshing \in BOOLEAN
        /\ refuted \subseteq Pkgs \X Contents /\ forgotten \subseteq Keys
    BY TrustAssumption DEF TrustInit
  <2> QED
    BY <2>1, <2>2, <2>3, <2>4 DEF TrustTypeOK
<1>2. At("waiting") = {} /\ At("woken") = {} /\ At("verifying") = {}
  BY DEF TrustInit, At, NoTask
<1>3. waiters = <<>> /\ active = 0 /\ DOMAIN waiters = {}
  BY DEF TrustInit
<1>4. QueueOK
  <2>1. Cardinality(At("verifying")) = 0 /\ Cardinality(At("woken")) = 0
    BY <1>2, FS_EmptySet
  <2>2. active + Cardinality(At("woken")) <= MaxActive
    BY <1>3, <2>1, TrustAssumption
  <2> QED
    BY <1>2, <1>3, <2>1, <2>2 DEF QueueOK
<1> QED
  BY <1>1, <1>4

LEMMA LoadType ==
  ASSUME TrustTypeOK, QueueOK, NEW p \in Pkgs, NEW ok \in SaveOutcomes, Load(p, ok)
  PROVE  TrustTypeOK'
<1> DEFINE c == installed[p]
<1>1. c \in Contents /\ Key(p, c) \in Keys
  BY KeyInKeys DEF TrustTypeOK
<1>2. PICK t \in At("idle") : FirstSeen(t, p, c, ok) \/ Match(t, p, c) \/ Mismatch(t, p, c)
  BY LoadCases
<1>3. t \in Tasks
  BY DEF At
<1>4. refreshing' \in BOOLEAN
  BY DEF Load, AskCatalog
<1>5. UNCHANGED <<installed, catalog, overlay, history>>
  BY DEF Load
<1>6. [hash |-> c, suspected |-> FALSE] \in Record
  BY <1>1 DEF Record
<1>7. CASE FirstSeen(t, p, c, ok)
  <2>1. RecordType /\ trusted' = trusted
    BY <1>1, <1>6, <1>7 DEF FirstSeen, TrustTypeOK, RecordType, Save
  <2>2. ChainsType
    BY <1>1, <1>3, <1>7, ChainType DEF FirstSeen, ChainsType
  <2> QED
    BY <1>4, <1>5, <2>1, <2>2 DEF TrustTypeOK, RecordType, ChainsType, history
<1>8. CASE Match(t, p, c)
  <2>1. RecordType /\ trusted' \subseteq Pkgs
    BY <1>8 DEF Match, TrustTypeOK, RecordType, baseline
  <2>2. ChainsType
    <3>1. CASE p \in catalog
      BY <1>8, <3>1 DEF Match, chains, ChainsType, TrustTypeOK
    <3>2. CASE p \notin catalog
      BY <1>1, <1>3, <1>8, <3>2, ChainType DEF Match, ChainsType
    <3> QED
      BY <3>1, <3>2
  <2> QED
    BY <1>4, <1>5, <2>1, <2>2 DEF TrustTypeOK, RecordType, ChainsType, history
<1>9. CASE Mismatch(t, p, c)
  <2>1. RecordType /\ trusted' = trusted
    BY <1>9 DEF Mismatch, TrustTypeOK, RecordType, baseline
  <2>2. [stage |-> "reconciling", pkg |-> p, hash |-> c] \in Task
    BY <1>1 DEF Task, Stage
  <2>3. ahead' \in [Tasks -> SUBSET Tasks]
    BY <1>3, <1>9 DEF Mismatch, AskRegistry, TrustTypeOK, At
  <2>4. task' \in [Tasks -> Task \cup {NoTask}] /\ UNCHANGED <<waiters, active>>
    BY <1>3, <1>9, <2>2 DEF Mismatch, TrustTypeOK
  <2>5. ChainsType
    BY <2>3, <2>4 DEF ChainsType, TrustTypeOK
  <2> QED
    BY <1>4, <1>5, <2>1, <2>5 DEF TrustTypeOK, RecordType, ChainsType, history
<1> QED
  BY <1>2, <1>7, <1>8, <1>9

LEMMA AnswerType ==
  ASSUME TrustTypeOK, QueueOK, NEW t \in Tasks, NEW resolved \in BOOLEAN, NEW ok \in SaveOutcomes,
         NEW read \in LoadOutcomes,
         Verified(t, resolved, ok, read) \/ Reconciled(t, resolved, ok, read)
  PROVE  TrustTypeOK'
<1>1. /\ task[t] \in Task /\ task[t].pkg \in Pkgs /\ task[t].hash \in Contents
      /\ KeyOf(t) \in Keys /\ task[t].stage # "idle"
  BY JobType DEF Verified, Reconciled
<1>2. CASE Verified(t, resolved, ok, read)
  <2>1. ChainsType
    BY <1>2, LeaveType DEF Verified
  <2>2. Proved(t) \in BOOLEAN /\ (~Proved(t)) \in BOOLEAN
    BY DEF Proved
  <2>3. CASE resolved
    <3>1. RecordType /\ forgotten' \subseteq Keys
      BY <1>1, <1>2, <2>2, <2>3, SuspectType DEF Verified
    <3>2. trusted' \subseteq Pkgs /\ proven' \subseteq Pkgs
          /\ refuted' \subseteq Pkgs \X Contents
      BY <1>1, <1>2, <2>3, DecideType DEF Verified
    <3> QED
      BY <1>2, <2>1, <3>1, <3>2 DEF TrustTypeOK, Verified, ChainsType, RecordType, names
  <2>4. CASE ~resolved
    BY <1>2, <2>1, <2>4 DEF TrustTypeOK, Verified, ChainsType, names, baseline, history
  <2> QED
    BY <2>3, <2>4
<1>3. CASE Reconciled(t, resolved, ok, read)
  <2>1. ChainsType
    BY <1>3 DEF Reconciled, Forget, TrustTypeOK, ChainsType
  <2>2. CASE UNCHANGED <<baseline, trusted, history>>
    BY <1>3, <2>1, <2>2 DEF TrustTypeOK, Reconciled, ChainsType, names, baseline, history
  <2>3. CASE /\ Decide(t)
             /\ SaveAndReload([store EXCEPT ![KeyOf(t)] = [hash |-> task[t].hash, suspected |-> FALSE]], ok, read)
    <3>1. [hash |-> task[t].hash, suspected |-> FALSE] \in Record
      BY <1>1 DEF Record
    <3>4. [store EXCEPT ![KeyOf(t)] = [hash |-> task[t].hash, suspected |-> FALSE]] \in [Keys -> Record \cup {NoRecord}]
      BY <1>1, <3>1 DEF TrustTypeOK
    <3>2. RecordType /\ forgotten' \subseteq Keys
      BY <2>3, <3>4, Reloading
    <3>3. trusted' \subseteq Pkgs /\ proven' \subseteq Pkgs
          /\ refuted' \subseteq Pkgs \X Contents
      BY <1>1, <2>3, DecideType
    <3> QED
      BY <1>3, <2>1, <3>2, <3>3 DEF TrustTypeOK, Reconciled, ChainsType, RecordType, names
  <2>4. CASE Decide(t) /\ Suspect(KeyOf(t), TRUE, ok, read)
    <3>1. RecordType /\ forgotten' \subseteq Keys
      BY <1>1, <2>4, SuspectType
    <3>2. trusted' \subseteq Pkgs /\ proven' \subseteq Pkgs
          /\ refuted' \subseteq Pkgs \X Contents
      BY <1>1, <2>4, DecideType
    <3> QED
      BY <1>3, <2>1, <3>1, <3>2 DEF TrustTypeOK, Reconciled, ChainsType, RecordType, names
  <2> QED
    BY <1>3, <2>2, <2>3, <2>4 DEF Reconciled
<1> QED
  BY <1>2, <1>3

LEMMA TypeStep == TrustTypeOK /\ QueueOK /\ [TrustNext]_trustVars => TrustTypeOK'
<1> SUFFICES ASSUME TrustTypeOK, QueueOK, [TrustNext]_trustVars PROVE TrustTypeOK'
  OBVIOUS
<1>1. ASSUME NEW p \in Pkgs, NEW ok \in SaveOutcomes, Load(p, ok) PROVE TrustTypeOK'
  BY <1>1, LoadType
<1>2. ASSUME NEW found \in SUBSET Published, NEW ok \in SaveOutcomes, RefreshDone(found, ok) PROVE TrustTypeOK'
  <2>1. \A t \in Tasks : task[t].stage = "asking" => [task[t] EXCEPT !.stage = "ready"] \in Task
    BY JobType DEF Task, Stage
  <2>2. task' \in [Tasks -> Task \cup {NoTask}]
    BY <1>2, <2>1 DEF RefreshDone, TrustTypeOK
  <2>3. catalog' \subseteq Pkgs /\ overlay' \subseteq Pkgs /\ refreshing' \in BOOLEAN
    BY <1>2, TrustAssumption DEF RefreshDone, TrustTypeOK
  <2> QED
    BY <1>2, <2>2, <2>3 DEF RefreshDone, TrustTypeOK, baseline, history
<1>3. ASSUME NEW t \in Tasks, AfterRefresh(t) PROVE TrustTypeOK'
  <2>1. ChainsType
    <3>1. CASE Enter(t, task[t].pkg, task[t].hash)
      BY <1>3, <3>1, JobType, EnterType DEF AfterRefresh, ChainsType
    <3>2. CASE task' = [task EXCEPT ![t] = NoTask] /\ UNCHANGED <<waiters, active, ahead>>
      BY <3>2 DEF TrustTypeOK, ChainsType
    <3> QED
      BY <1>3, <3>1, <3>2 DEF AfterRefresh
  <2> QED
    BY <1>3, <2>1 DEF AfterRefresh, TrustTypeOK, ChainsType, baseline, names, history
<1>4. ASSUME NEW t \in Tasks, Resume(t) PROVE TrustTypeOK'
  <2>1. task[t] \in Task
    BY <1>4, JobType DEF Resume
  <2>2. [task[t] EXCEPT !.stage = "verifying"] \in Task
    BY <2>1 DEF Task, Stage
  <2>3. task' \in [Tasks -> Task \cup {NoTask}] /\ active' \in Nat /\ waiters' = waiters
    BY <1>4, <2>2 DEF Resume, TrustTypeOK
  <2>4. ahead' \in [Tasks -> SUBSET Tasks]
    BY <1>4 DEF Resume, AskRegistry, TrustTypeOK, At
  <2> QED
    BY <1>4, <2>3, <2>4 DEF Resume, TrustTypeOK, baseline, names, history
<1>5. ASSUME NEW t \in Tasks, NEW resolved \in BOOLEAN, NEW ok \in SaveOutcomes,
             NEW read \in LoadOutcomes,
             Verified(t, resolved, ok, read) \/ Reconciled(t, resolved, ok, read)
      PROVE  TrustTypeOK'
  BY <1>5, AnswerType
<1>6. ASSUME NEW p \in Pkgs, NEW c \in Contents, Install(p, c) PROVE TrustTypeOK'
  BY <1>6 DEF Install, TrustTypeOK, baseline, names, chains, history
<1>9. ASSUME NEW p \in Pkgs, NEW c \in Contents, NEW ok \in SaveOutcomes, ScanTool(p, c, ok) PROVE TrustTypeOK'
  <2>1. Key(p, c) \in Keys /\ [hash |-> c, suspected |-> FALSE] \in Record
    BY KeyInKeys DEF Record
  <2>2. RecordType
    BY <1>9, <2>1 DEF ScanTool, Save, RecordType, TrustTypeOK
  <2> QED
    BY <1>9, <2>2 DEF ScanTool, TrustTypeOK, RecordType, names, chains, history
<1>7. ASSUME NEW read, Restart(read) PROVE TrustTypeOK'
  <2>1. ChainsType
    BY <1>7 DEF Restart, ChainsType
  <2>2. RecordType /\ trusted' \subseteq Pkgs /\ proven' \subseteq Pkgs
        /\ catalog' \subseteq Pkgs /\ refreshing' \in BOOLEAN /\ forgotten' \subseteq Keys
    BY <1>7, TrustAssumption DEF Restart, Drops, Loaded, RecordType, TrustTypeOK
  <2> QED
    BY <1>7, <2>1, <2>2 DEF Restart, TrustTypeOK, ChainsType, RecordType
<1>8. CASE UNCHANGED trustVars
  BY <1>8 DEF trustVars, TrustTypeOK, baseline, names, chains, history
<1> QED
  BY <1>1, <1>2, <1>3, <1>4, <1>5, <1>6, <1>7, <1>8, <1>9 DEF TrustNext

\* Who may become woken or ready, and when.
LEMMA DrainStep == TrustTypeOK /\ QueueOK /\ OneDrain /\ [TrustNext]_trustVars => OneDrain'
<1> SUFFICES ASSUME TrustTypeOK, QueueOK, OneDrain, [TrustNext]_trustVars PROVE OneDrain'
  OBVIOUS
<1>d. DOMAIN task = Tasks
  BY DEF TrustTypeOK
<1>0. ASSUME At("ready")' \subseteq At("ready"), At("woken")' \subseteq At("woken") PROVE OneDrain'
  BY <1>0 DEF OneDrain
<1>1. ASSUME NEW t \in Tasks, NEW p, NEW c, Enter(t, p, c) PROVE OneDrain'
  <2>1. task'[t].stage \notin {"ready", "woken"}
    BY <1>d, <1>1 DEF Enter
  <2>2. \A u \in Tasks : u # t => task'[u] = task[u]
    BY <1>d, <1>1 DEF Enter
  <2> QED
    BY <1>0, <2>1, <2>2 DEF At
<1>2. ASSUME NEW p \in Pkgs, NEW ok \in SaveOutcomes, Load(p, ok) PROVE OneDrain'
  <2> DEFINE c == installed[p]
  <2>1. PICK t \in At("idle") : FirstSeen(t, p, c, ok) \/ Match(t, p, c) \/ Mismatch(t, p, c)
    BY <1>2, LoadCases
  <2>2. t \in Tasks
    BY DEF At
  <2>3. CASE task' = task
    BY <1>0, <2>3 DEF At
  <2>4. ASSUME NEW s \in {"asking", "reconciling"},
               task' = [task EXCEPT ![t] = [stage |-> s, pkg |-> p, hash |-> c]]
        PROVE  OneDrain'
    <3>1. task'[t].stage \notin {"ready", "woken"}
      BY <1>d, <2>2, <2>4
    <3>2. \A u \in Tasks : u # t => task'[u] = task[u]
      BY <1>d, <2>4
    <3> QED
      BY <1>0, <3>1, <3>2 DEF At
  <2>5. CASE Chain(t, p, c)
    BY <1>1, <2>2, <2>3, <2>4, <2>5 DEF Chain, chains
  <2>6. CASE Mismatch(t, p, c)
    BY <2>3, <2>4, <2>6 DEF Mismatch
  <2> QED
    BY <2>1, <2>3, <2>5, <2>6 DEF FirstSeen, Match, chains
<1>3. ASSUME NEW found, NEW ok, RefreshDone(found, ok) PROVE OneDrain'
  <2>1. \A t \in Tasks : task'[t].stage = "woken" => task[t].stage = "woken"
    BY <1>3, JobType DEF RefreshDone, Task
  <2>2. At("woken") = {}
    BY <1>3 DEF RefreshDone, Drained
  <2> QED
    BY <2>1, <2>2 DEF OneDrain, At
<1>4. ASSUME NEW t \in Tasks, AfterRefresh(t) PROVE OneDrain'
  <2>1. CASE task' = [task EXCEPT ![t] = NoTask]
    BY <1>0, <1>d, <2>1 DEF At, NoTask
  <2> QED
    BY <1>1, <1>4, <2>1 DEF AfterRefresh
<1>5. ASSUME NEW t \in Tasks, Resume(t) PROVE OneDrain'
  <2>1. task[t] \in Task
    BY <1>5, JobType DEF Resume
  <2>2. task'[t].stage = "verifying" /\ \A u \in Tasks : u # t => task'[u] = task[u]
    BY <1>5, <1>d, <2>1 DEF Resume, Task
  <2> QED
    BY <1>0, <2>2 DEF At
<1>6. ASSUME NEW t \in Tasks, NEW resolved, NEW ok, NEW read, Verified(t, resolved, ok, read) PROVE OneDrain'
  <2>1. At("ready") = {}
    BY <1>6 DEF Verified, Answered
  <2>2. CASE waiters = <<>>
    BY <1>6, <1>d, <2>1, <2>2 DEF Verified, Leave, OneDrain, At, NoTask
  <2>3. CASE waiters # <<>>
    <3> DEFINE w == Head(waiters)
    <3>1. task' = [task EXCEPT ![t] = NoTask, ![w].stage = "woken"]
      BY <1>6, <2>3 DEF Verified, Leave
    <3>2. w = waiters[1] /\ 1 \in DOMAIN waiters /\ w \in Tasks
      BY <2>3 DEF TrustTypeOK
    <3>3. task[w].stage = "waiting" /\ w # t
      BY <1>6, <3>2 DEF QueueOK, Verified
    <3>4. task[w] \in Task
      BY <3>2, <3>3, JobType
    <3>5. /\ task'[w].stage = "woken" /\ task'[t].stage = "idle"
          /\ \A u \in Tasks : u # w /\ u # t => task'[u] = task[u]
      BY <1>d, <3>1, <3>2, <3>3, <3>4 DEF NoTask, Task
    <3> QED
      BY <2>1, <3>5 DEF OneDrain, At
  <2> QED
    BY <2>2, <2>3
<1>7. ASSUME NEW t \in Tasks, NEW resolved, NEW ok, NEW read, Reconciled(t, resolved, ok, read) PROVE OneDrain'
  BY <1>0, <1>7, <1>d DEF Reconciled, At, NoTask
<1>8. ASSUME NEW p \in Pkgs, NEW c \in Contents, Install(p, c) PROVE OneDrain'
  BY <1>0, <1>8 DEF Install, chains, At
<1>11. ASSUME NEW p \in Pkgs, NEW c \in Contents, NEW ok, ScanTool(p, c, ok) PROVE OneDrain'
  BY <1>0, <1>11 DEF ScanTool, chains, At
<1>9. ASSUME NEW read, Restart(read) PROVE OneDrain'
  BY <1>9 DEF Restart, OneDrain, At, NoTask
<1>10. CASE UNCHANGED trustVars
  BY <1>0, <1>10 DEF trustVars, chains, At
<1> QED
  BY <1>2, <1>3, <1>4, <1>5, <1>6, <1>7, <1>8, <1>9, <1>10, <1>11 DEF TrustNext

LEMMA SlotStep == TrustTypeOK /\ QueueOK /\ OneDrain /\ [TrustNext]_trustVars => QueueOK'
<1> SUFFICES ASSUME TrustTypeOK, QueueOK, OneDrain, [TrustNext]_trustVars PROVE QueueOK'
  OBVIOUS
<1>d. DOMAIN task = Tasks
  BY DEF TrustTypeOK
<1>1. ASSUME NEW p \in Pkgs, NEW ok \in SaveOutcomes, Load(p, ok) PROVE QueueOK'
  <2> DEFINE c == installed[p]
  <2>1. PICK t \in At("idle") :
            /\ At("woken") = {}
            /\ FirstSeen(t, p, c, ok) \/ Match(t, p, c) \/ Mismatch(t, p, c)
    BY <1>1, LoadCases
  <2>2. t \in Tasks /\ task[t].stage = "idle"
    BY DEF At
  <2>3. CASE UNCHANGED <<task, waiters, active>>
    BY <2>3, SlotsUntouched DEF At
  <2>4. ASSUME NEW s \in {"asking", "reconciling"}, UNCHANGED <<waiters, active>>,
               task' = [task EXCEPT ![t] = [stage |-> s, pkg |-> p, hash |-> c]]
        PROVE  QueueOK'
    <3>1. task'[t].stage \notin {"waiting", "woken", "verifying"} /\ task[t].stage = "idle"
      BY <1>d, <2>2, <2>4
    <3>2. \A u \in Tasks : u # t => task'[u] = task[u]
      BY <1>d, <2>4
    <3>3. /\ At("waiting")' = At("waiting") /\ At("woken")' = At("woken")
          /\ At("verifying")' = At("verifying")
      BY <3>1, <3>2 DEF At
    <3> QED
      BY <2>4, <3>3, SlotsUntouched
  <2>5. CASE Enter(t, p, c)
    <3>1. At("woken") = {} /\ task[t].stage \in {"idle", "ready"}
      BY <2>1, <2>2
    <3> HIDE DEF c
    <3> QED
      BY <2>2, <2>5, <3>1, EnterKeepsSlots
  <2>6. CASE Chain(t, p, c)
    BY <2>3, <2>4, <2>5, <2>6 DEF Chain, chains
  <2>7. CASE FirstSeen(t, p, c, ok)
    BY <2>6, <2>7 DEF FirstSeen
  <2>8. CASE Match(t, p, c)
    BY <2>3, <2>6, <2>8 DEF Match, chains
  <2>9. CASE Mismatch(t, p, c)
    BY <2>3, <2>4, <2>9 DEF Mismatch
  <2> QED
    BY <2>1, <2>7, <2>8, <2>9
<1>2. ASSUME NEW found \in SUBSET Published, NEW ok \in SaveOutcomes, RefreshDone(found, ok) PROVE QueueOK'
  <2>1. \A t \in Tasks : task[t].stage = "asking" => task'[t].stage = "ready"
    BY <1>2, JobType DEF RefreshDone, Task
  <2>2. \A t \in Tasks : task[t].stage # "asking" => task'[t] = task[t]
    BY <1>2 DEF RefreshDone
  <2> QED
    BY <1>2, <2>1, <2>2, SlotsUntouched DEF RefreshDone, At
<1>3. ASSUME NEW t \in Tasks, AfterRefresh(t) PROVE QueueOK'
  <2>1. CASE Enter(t, task[t].pkg, task[t].hash)
    <3>1. At("woken") = {}
      BY <1>3 DEF AfterRefresh, OneDrain, At
    <3> QED
      BY <1>3, <2>1, <3>1, EnterKeepsSlots DEF AfterRefresh
  <2>2. CASE task' = [task EXCEPT ![t] = NoTask] /\ UNCHANGED <<waiters, active, ahead>>
    BY <1>3, <1>d, <2>2, SlotsUntouched DEF AfterRefresh, At, NoTask
  <2> QED
    BY <1>3, <2>1, <2>2 DEF AfterRefresh
<1>4. ASSUME NEW t \in Tasks, Resume(t) PROVE QueueOK'
  BY <1>4, ResumeKeepsSlots
<1>5. ASSUME NEW t \in Tasks, NEW resolved \in BOOLEAN, NEW ok \in SaveOutcomes,
             NEW read \in LoadOutcomes, Verified(t, resolved, ok, read)
      PROVE  QueueOK'
  BY <1>5, LeaveKeepsSlots DEF Verified
<1>6. ASSUME NEW t \in Tasks, NEW resolved \in BOOLEAN, NEW ok \in SaveOutcomes,
             NEW read \in LoadOutcomes, Reconciled(t, resolved, ok, read)
      PROVE  QueueOK'
  BY <1>6, <1>d, SlotsUntouched DEF Reconciled, At, NoTask
<1>7. ASSUME NEW p \in Pkgs, NEW c \in Contents, Install(p, c) PROVE QueueOK'
  BY <1>7, SlotsUntouched DEF Install, chains, At
<1>10. ASSUME NEW p \in Pkgs, NEW c \in Contents, NEW ok, ScanTool(p, c, ok) PROVE QueueOK'
  BY <1>10, SlotsUntouched DEF ScanTool, chains, At
<1>8. ASSUME NEW read, Restart(read) PROVE QueueOK'
  <2>1. At("waiting")' = {} /\ At("woken")' = {} /\ At("verifying")' = {}
    BY <1>8 DEF Restart, At, NoTask
  <2>2. waiters' = <<>> /\ active' = 0 /\ DOMAIN waiters' = {}
    BY <1>8 DEF Restart
  <2>3. Cardinality(At("verifying")') = 0 /\ Cardinality(At("woken")') = 0
    BY <2>1, FS_EmptySet
  <2>4. active' + Cardinality(At("woken")') <= MaxActive
    BY <2>2, <2>3, TrustAssumption
  <2> QED
    BY <2>1, <2>2, <2>3, <2>4 DEF QueueOK
<1>9. CASE UNCHANGED trustVars
  BY <1>9, SlotsUntouched DEF trustVars, chains, At
<1> QED
  BY <1>1, <1>2, <1>3, <1>4, <1>5, <1>6, <1>7, <1>8, <1>9, <1>10 DEF TrustNext

-----------------------------------------------------------------------------
(* Records and denials.                                                    *)

\* A record that is not dropped is kept, marked, or replaced by the official
\* content of its version.
RecordsKept ==
    \A k \in Keys : k \notin forgotten' /\ store[k] # NoRecord =>
        /\ store'[k] # NoRecord
        /\ \/ store'[k] = store[k]
           \/ store'[k].hash \in Genuine /\ VersionOf[store'[k].hash] = k[2]
           \/ store'[k].hash = store[k].hash /\ store'[k].suspected

\* Chain t goes on with the job it had.
SameJob(t) ==
    /\ task[t] # NoTask
    /\ task'[t].pkg = task[t].pkg /\ task'[t].hash = task[t].hash
    /\ task'[t].stage = "reconciling" <=> task[t].stage = "reconciling"

\* Chain t was started by this step, on a record that is there.
NewJob(t) ==
    /\ store'[Key(task'[t].pkg, task'[t].hash)] # NoRecord
    /\ task'[t].stage # "reconciling"
       => store'[Key(task'[t].pkg, task'[t].hash)].hash = task'[t].hash

\* Two official contents of one version are the same.
LEMMA ChainsStay ==
  ASSUME TrustTypeOK, TrustTypeOK', ChainsFollowRecords, RecordsKept, forgotten \subseteq forgotten',
         \A t \in Tasks : task'[t] # NoTask => SameJob(t) \/ NewJob(t)
  PROVE  ChainsFollowRecords'
<1> SUFFICES ASSUME NEW t \in Tasks, task'[t] # NoTask, KeyOf(t)' \notin forgotten'
             PROVE  /\ store'[KeyOf(t)'] # NoRecord
                    /\ task'[t].stage # "reconciling" /\ task'[t].hash \in Genuine
                       => store'[KeyOf(t)'].hash = task'[t].hash
  BY DEF ChainsFollowRecords
<1>1. KeyOf(t)' = Key(task'[t].pkg, task'[t].hash)
  BY DEF KeyOf, Key
<1>2. CASE NewJob(t)
  BY <1>1, <1>2 DEF NewJob
<1>3. CASE SameJob(t)
  <2>1. task[t] \in Task /\ KeyOf(t) \in Keys /\ KeyOf(t)' = KeyOf(t)
    <3>1. task[t] \in Task
      BY <1>3 DEF SameJob, TrustTypeOK
    <3>2. task[t].stage # "idle"
      BY <3>1 DEF Task, Stage
    <3> QED
      BY <1>1, <1>3, <3>1, <3>2, JobType DEF SameJob, KeyOf
  <2>5. KeyOf(t) \notin forgotten' /\ KeyOf(t) \notin forgotten
    BY <2>1
  <2>2. store[KeyOf(t)] # NoRecord /\ store'[KeyOf(t)] # NoRecord
    BY <1>3, <2>1, <2>5 DEF ChainsFollowRecords, SameJob, RecordsKept
  <2>3. KeyOf(t)[2] = VersionOf[task[t].hash]
    BY DEF KeyOf, Key
  <2>4. ASSUME task'[t].stage # "reconciling", task'[t].hash \in Genuine
        PROVE  store'[KeyOf(t)].hash = task'[t].hash
    <3>1. store[KeyOf(t)].hash = task[t].hash
      BY <1>3, <2>4, <2>5 DEF ChainsFollowRecords, SameJob
    <3>2. CASE store'[KeyOf(t)].hash = store[KeyOf(t)].hash
      BY <1>3, <3>1, <3>2 DEF SameJob
    <3>3. CASE store'[KeyOf(t)].hash \in Genuine /\ VersionOf[store'[KeyOf(t)].hash] = KeyOf(t)[2]
      BY <1>3, <2>3, <2>4, <3>3, TrustAssumption DEF SameJob
    <3> QED
      BY <2>1, <2>2, <2>5, <3>2, <3>3 DEF RecordsKept
  <2> QED
    BY <2>1, <2>2, <2>4
<1> QED
  BY <1>2, <1>3

\* Denials stay on file, and a new one comes with its mark.
LEMMA DenialsStay ==
  ASSUME TrustTypeOK, DenialsOnFile, RecordsKept, forgotten \subseteq forgotten',
         NEW p \in Pkgs, NEW c \in Contents,
         \/ refuted' = refuted
         \/ /\ refuted' = refuted \cup {<<p, c>>}
            /\ c \notin Genuine
            /\ Key(p, c) \notin forgotten' => store'[Key(p, c)] # NoRecord /\ store'[Key(p, c)].suspected
  PROVE  DenialsOnFile'
<1> SUFFICES ASSUME NEW q \in Pkgs, NEW d \in Contents, <<q, d>> \in refuted'
             PROVE  /\ d \notin Genuine
                    /\ Key(q, d) \notin forgotten' =>
                          /\ store'[Key(q, d)] # NoRecord
                          /\ store'[Key(q, d)].hash = d => store'[Key(q, d)].suspected
  BY DEF DenialsOnFile, Key
<1>1. CASE <<q, d>> \in refuted
  <2>1. d \notin Genuine
    BY <1>1 DEF DenialsOnFile
  <2>2. ASSUME Key(q, d) \notin forgotten'
        PROVE  /\ store'[Key(q, d)] # NoRecord
               /\ store'[Key(q, d)].hash = d => store'[Key(q, d)].suspected
    <3>1. /\ store[Key(q, d)] # NoRecord
          /\ store[Key(q, d)].hash = d => store[Key(q, d)].suspected
      BY <1>1, <2>2 DEF DenialsOnFile
    <3>2. Key(q, d) \in Keys
      BY KeyInKeys
    <3> QED
      BY <2>1, <2>2, <3>1, <3>2 DEF RecordsKept
  <2> QED
    BY <2>1, <2>2
<1>2. CASE <<q, d>> \notin refuted
  <2>1. q = p /\ d = c
    BY <1>2
  <2> QED
    BY <1>2, <2>1
<1> QED
  BY <1>1, <1>2

\* A save with its reading of a store that differs in one record.
LEMMA OneRecord ==
  ASSUME TrustTypeOK, NEW k \in Keys, NEW rec \in Record, NEW ok, NEW read,
         SaveAndReload([store EXCEPT ![k] = rec], ok, read),
         \/ rec.hash \in Genuine /\ VersionOf[rec.hash] = k[2]
         \/ store[k] # NoRecord /\ rec.hash = store[k].hash /\ rec.suspected
  PROVE  /\ RecordsKept /\ forgotten \subseteq forgotten'
         /\ k \notin forgotten' => store'[k] = rec /\ rec # NoRecord
<1> DEFINE new == [store EXCEPT ![k] = rec]
<1>1. new \in [Keys -> Record \cup {NoRecord}] /\ new[k] = rec /\ \A j \in Keys : j # k => new[j] = store[j]
  BY DEF TrustTypeOK
<1>2. rec # NoRecord
  BY TrustAssumption DEF Record, NoRecord
<1> HIDE DEF new
<1>3. forgotten \subseteq forgotten' /\ \A j \in Keys : j \notin forgotten' => store'[j] = new[j]
  BY <1>1, Reloading DEF new
<1>4. ASSUME NEW j \in Keys, j \notin forgotten', store[j] # NoRecord
      PROVE  /\ store'[j] # NoRecord
             /\ \/ store'[j] = store[j]
                \/ store'[j].hash \in Genuine /\ VersionOf[store'[j].hash] = j[2]
                \/ store'[j].hash = store[j].hash /\ store'[j].suspected
  <2>1. store'[j] = new[j]
    BY <1>3, <1>4
  <2>2. CASE j = k
    BY <1>1, <1>2, <2>1, <2>2
  <2>3. CASE j # k
    BY <1>1, <1>4, <2>1, <2>3
  <2> QED
    BY <2>2, <2>3
<1>5. RecordsKept
  BY <1>4 DEF RecordsKept
<1> QED
  BY <1>1, <1>2, <1>3, <1>5

\* setRecordSuspected: it marks a record, or clears the mark of an official
\* content, if there is a record.
LEMMA SuspectKeeps ==
  ASSUME TrustTypeOK, NEW k \in Keys, NEW s \in BOOLEAN, NEW ok, NEW read, Suspect(k, s, ok, read),
         k \notin forgotten => store[k] # NoRecord /\ (~s => store[k].hash \in Genuine /\ VersionOf[store[k].hash] = k[2])
  PROVE  /\ RecordsKept /\ forgotten \subseteq forgotten'
         /\ k \notin forgotten' => store'[k] # NoRecord /\ store'[k].suspected = s
<1>1. CASE store[k] = NoRecord
  BY <1>1 DEF Suspect, RecordsKept, baseline
<1>2. CASE store[k] # NoRecord
  <2> DEFINE rec == [store[k] EXCEPT !.suspected = s]
             new == [store EXCEPT ![k] = rec]
  <2>1. store[k] \in Record
    BY <1>2 DEF TrustTypeOK
  <2>2. rec \in Record /\ rec.hash = store[k].hash /\ rec.suspected = s
    BY <2>1 DEF Record
  <2>3. SaveAndReload(new, ok, read)
    BY <1>2 DEF Suspect
  <2>4. new \in [Keys -> Record \cup {NoRecord}] /\ new[k] = rec
    BY <2>2 DEF TrustTypeOK
  <2>5. forgotten \subseteq forgotten' /\ \A j \in Keys : j \notin forgotten' => store'[j] = new[j]
    <3> HIDE DEF new, rec
    <3> QED
      BY <2>3, <2>4, Reloading
  <2>6. CASE s \/ k \notin forgotten
    <3>1. \/ rec.hash \in Genuine /\ VersionOf[rec.hash] = k[2]
          \/ store[k] # NoRecord /\ rec.hash = store[k].hash /\ rec.suspected
      BY <1>2, <2>2, <2>6
    <3>2. SaveAndReload([store EXCEPT ![k] = rec], ok, read)
      BY <2>3
    <3> HIDE DEF rec, new
    <3> QED
      BY <2>2, <3>1, <3>2, OneRecord
  <2>7. CASE k \in forgotten
    <3>1. \A j \in Keys : j # k => new[j] = store[j]
      BY DEF TrustTypeOK
    <3> HIDE DEF new, rec
    <3>2. RecordsKept
      BY <2>5, <2>7, <3>1 DEF RecordsKept
    <3> QED
      BY <2>5, <2>7, <3>2
  <2> QED
    BY <2>6, <2>7
<1> QED
  BY <1>1, <1>2

\* What an answer of the registry may do to the records.
LEMMA AnswerRecords ==
  ASSUME TrustTypeOK, QueueOK, ChainsFollowRecords, NEW t \in Tasks, NEW resolved \in BOOLEAN,
         NEW ok \in SaveOutcomes, NEW read \in LoadOutcomes,
         Verified(t, resolved, ok, read) \/ Reconciled(t, resolved, ok, read)
  PROVE  /\ RecordsKept
         /\ forgotten \subseteq forgotten'
         /\ \A u \in Tasks : task'[u] # NoTask => SameJob(u)
         /\ \/ refuted' = refuted
            \/ /\ refuted' = refuted \cup {<<task[t].pkg, task[t].hash>>}
               /\ task[t].hash \notin Genuine
               /\ KeyOf(t) \notin forgotten' => store'[KeyOf(t)] # NoRecord /\ store'[KeyOf(t)].suspected
<1> DEFINE k == KeyOf(t)
<1>0. DOMAIN task = Tasks
  BY DEF TrustTypeOK
<1>1. /\ task[t] \in Task /\ task[t].pkg \in Pkgs /\ task[t].hash \in Contents
      /\ k \in Keys /\ task[t].stage # "idle"
  BY JobType DEF Verified, Reconciled
<1>2. task[t] # NoTask /\ (k \notin forgotten => store[k] # NoRecord) /\ VersionOf[task[t].hash] = k[2]
  BY <1>1 DEF ChainsFollowRecords, NoTask, KeyOf, Key
<1>3. ASSUME UNCHANGED <<baseline, trusted, history>>
      PROVE  RecordsKept /\ forgotten \subseteq forgotten' /\ refuted' = refuted
  BY <1>3 DEF RecordsKept, baseline, history
<1>4. ASSUME Suspect(k, ~Proved(t), ok, read), Decide(t),
             Proved(t) /\ k \notin forgotten => store[k].hash = task[t].hash
      PROVE  /\ RecordsKept /\ forgotten \subseteq forgotten'
             /\ \/ refuted' = refuted
                \/ /\ refuted' = refuted \cup {<<task[t].pkg, task[t].hash>>}
                   /\ task[t].hash \notin Genuine
                   /\ k \notin forgotten' => store'[k] # NoRecord /\ store'[k].suspected
  <2>1. (~Proved(t)) \in BOOLEAN
    BY DEF Proved
  <2>2. k \notin forgotten =>
          /\ store[k] # NoRecord
          /\ ~(~Proved(t)) => store[k].hash \in Genuine /\ VersionOf[store[k].hash] = k[2]
    BY <1>2, <1>4 DEF Proved
  <2>3. /\ RecordsKept /\ forgotten \subseteq forgotten'
        /\ k \notin forgotten' => store'[k] # NoRecord /\ store'[k].suspected = (~Proved(t))
    <3> HIDE DEF k
    <3> QED
      BY <1>1, <1>2, <1>4, <2>1, <2>2, SuspectKeeps
  <2> QED
    BY <1>4, <2>3 DEF Decide, Proved
<1>5. CASE Verified(t, resolved, ok, read)
  <2>1. task[t].stage = "verifying" /\ Leave(t)
    BY <1>5 DEF Verified
  <2>2. \A u \in Tasks : task'[u] # NoTask => SameJob(u)
    <3>1. CASE waiters = <<>>
      BY <1>0, <2>1, <3>1 DEF Leave, SameJob
    <3>2. CASE waiters # <<>>
      <4> DEFINE w == Head(waiters)
      <4>1. task' = [task EXCEPT ![t] = NoTask, ![w].stage = "woken"]
        BY <2>1, <3>2 DEF Leave
      <4>2. w = waiters[1] /\ 1 \in DOMAIN waiters /\ w \in Tasks
        BY <3>2 DEF TrustTypeOK
      <4>3. task[w].stage = "waiting" /\ w # t
        BY <2>1, <4>2 DEF QueueOK
      <4>4. task[w] \in Task
        BY <4>2, <4>3, JobType
      <4>5. /\ task'[t] = NoTask /\ task'[w] = [task[w] EXCEPT !.stage = "woken"]
            /\ \A u \in Tasks : u # w /\ u # t => task'[u] = task[u]
        BY <1>0, <4>1, <4>2, <4>3
      <4>6. SameJob(w)
        BY <4>3, <4>4, <4>5 DEF SameJob, Task, NoTask
      <4> QED
        BY <4>5, <4>6 DEF SameJob
    <3> QED
      BY <3>1, <3>2
  <2>3. Proved(t) /\ k \notin forgotten => store[k].hash = task[t].hash
    BY <1>2, <2>1 DEF ChainsFollowRecords, Proved
  <2>4. \/ UNCHANGED <<baseline, trusted, history>>
        \/ Suspect(k, ~Proved(t), ok, read) /\ Decide(t)
    BY <1>5 DEF Verified
  <2> QED
    BY <1>3, <1>4, <2>2, <2>3, <2>4 DEF RecordsKept, baseline, history
<1>6. CASE Reconciled(t, resolved, ok, read)
  <2>1. task' = [task EXCEPT ![t] = NoTask]
    BY <1>6 DEF Reconciled
  <2>2. \A u \in Tasks : task'[u] # NoTask => SameJob(u)
    BY <1>0, <2>1 DEF SameJob
  <2>3. CASE /\ Proved(t) /\ Decide(t)
             /\ SaveAndReload([store EXCEPT ![k] = [hash |-> task[t].hash, suspected |-> FALSE]], ok, read)
    <3>1. [hash |-> task[t].hash, suspected |-> FALSE] \in Record
      BY <1>1 DEF Record
    <3>2. task[t].hash \in Genuine /\ VersionOf[task[t].hash] = k[2]
      BY <1>2, <2>3 DEF Proved
    <3>3. RecordsKept /\ forgotten \subseteq forgotten'
      <4> HIDE DEF k
      <4> QED
        BY <1>1, <2>3, <3>1, <3>2, OneRecord
    <3> QED
      BY <2>2, <2>3, <3>3 DEF Decide
  <2>4. CASE ~Proved(t) /\ Decide(t) /\ Suspect(k, TRUE, ok, read)
    <3>1. Suspect(k, ~Proved(t), ok, read)
      BY <2>4 DEF Suspect, Proved
    <3> QED
      BY <1>4, <2>2, <2>4, <3>1
  <2> QED
    BY <1>3, <1>6, <2>2, <2>3, <2>4 DEF Reconciled
<1> QED
  BY <1>5, <1>6

\* A load records what it has not seen, and starts chains on what is recorded.
LEMMA LoadRecords ==
  ASSUME TrustTypeOK, QueueOK, NEW p \in Pkgs, NEW ok \in SaveOutcomes, Load(p, ok)
  PROVE  /\ RecordsKept /\ UNCHANGED <<refuted, forgotten, proven>>
         /\ \A u \in Tasks : task'[u] # NoTask => SameJob(u) \/ NewJob(u)
<1> DEFINE c == installed[p]
<1>0. DOMAIN task = Tasks
  BY DEF TrustTypeOK
<1>1. c \in Contents /\ Key(p, c) \in Keys
  BY KeyInKeys DEF TrustTypeOK
<1>2. PICK t \in At("idle") : FirstSeen(t, p, c, ok) \/ Match(t, p, c) \/ Mismatch(t, p, c)
  BY LoadCases
<1>3. t \in Tasks
  BY DEF At
<1>4. UNCHANGED <<refuted, forgotten, proven>>
  BY DEF Load, history
<1>5. ASSUME NEW s \in Stage, task' = [task EXCEPT ![t] = [stage |-> s, pkg |-> p, hash |-> c]],
             store'[Key(p, c)] # NoRecord,
             s # "reconciling" => store'[Key(p, c)].hash = c
      PROVE  \A u \in Tasks : task'[u] # NoTask => SameJob(u) \/ NewJob(u)
  <2>1. task'[t] = [stage |-> s, pkg |-> p, hash |-> c]
    BY <1>0, <1>3, <1>5
  <2>2. NewJob(t)
    BY <1>5, <2>1 DEF NewJob
  <2>3. \A u \in Tasks : u # t => task'[u] = task[u]
    BY <1>0, <1>5
  <2> QED
    BY <2>2, <2>3 DEF SameJob
<1>6. ASSUME Chain(t, p, c), store'[Key(p, c)] # NoRecord, store'[Key(p, c)].hash = c
      PROVE  \A u \in Tasks : task'[u] # NoTask => SameJob(u) \/ NewJob(u)
  <2>1. \/ task' = task
        \/ \E s \in {"asking", "waiting", "verifying"} :
               task' = [task EXCEPT ![t] = [stage |-> s, pkg |-> p, hash |-> c]]
    BY <1>1, <1>3, <1>6, ChainType
  <2>2. {"asking", "waiting", "verifying"} \subseteq Stage
    BY DEF Stage
  <2>3. CASE task' = task
    BY <2>3 DEF SameJob
  <2> QED
    BY <1>5, <1>6, <2>1, <2>2, <2>3
<1>7. CASE FirstSeen(t, p, c, ok)
  <2>1. /\ store[Key(p, c)] = NoRecord
        /\ store' = [store EXCEPT ![Key(p, c)] = [hash |-> c, suspected |-> FALSE]]
        /\ Chain(t, p, c)
    BY <1>7 DEF FirstSeen
  <2>2. /\ store'[Key(p, c)] = [hash |-> c, suspected |-> FALSE]
        /\ \A k \in Keys : k # Key(p, c) => store'[k] = store[k]
    BY <1>1, <2>1 DEF TrustTypeOK
  <2>3. store'[Key(p, c)] # NoRecord /\ store'[Key(p, c)].hash = c
    BY <1>1, <2>2, TrustAssumption DEF NoRecord
  <2>4. RecordsKept
    BY <2>1, <2>2 DEF RecordsKept
  <2> QED
    BY <1>4, <1>6, <2>1, <2>3, <2>4
<1>8. CASE Match(t, p, c)
  <2>1. store' = store /\ store[Key(p, c)].hash = c
    BY <1>8 DEF Match, baseline
  <2>2. store[Key(p, c)] # NoRecord
    BY <1>1, <2>1, TrustAssumption DEF NoRecord
  <2>3. task' = task \/ Chain(t, p, c)
    BY <1>8 DEF Match, chains
  <2>4. RecordsKept
    BY <2>1 DEF RecordsKept
  <2>5. CASE task' = task
    BY <1>4, <2>4, <2>5 DEF SameJob
  <2> QED
    BY <1>4, <1>6, <2>1, <2>2, <2>3, <2>4, <2>5
<1>9. CASE Mismatch(t, p, c)
  <2>1. store' = store /\ store[Key(p, c)] # NoRecord
    BY <1>9 DEF Mismatch, baseline
  <2>2. \/ task' = task
        \/ task' = [task EXCEPT ![t] = [stage |-> "reconciling", pkg |-> p, hash |-> c]]
    BY <1>9 DEF Mismatch
  <2>3. RecordsKept /\ "reconciling" \in Stage
    BY <2>1 DEF RecordsKept, Stage
  <2>4. CASE task' = task
    BY <1>4, <2>3, <2>4 DEF SameJob
  <2> QED
    BY <1>4, <1>5, <2>1, <2>2, <2>3, <2>4
<1> QED
  BY <1>2, <1>7, <1>8, <1>9

\* An audit scan records what has no record and touches no other.
LEMMA ToolRecords ==
  ASSUME TrustTypeOK, NEW p \in Pkgs, NEW c \in Contents, NEW ok, ScanTool(p, c, ok)
  PROVE  RecordsKept
<1>1. Key(p, c) \in Keys
  BY KeyInKeys
<1>2. store[Key(p, c)] = NoRecord /\ \A k \in Keys : k # Key(p, c) => store'[k] = store[k]
  BY <1>1 DEF ScanTool, TrustTypeOK
<1> QED
  BY <1>2 DEF RecordsKept

-----------------------------------------------------------------------------
(* The invariant.                                                          *)

LEMMA RecordStep ==
  TrustTypeOK /\ TrustTypeOK' /\ QueueOK /\ ChainsFollowRecords /\ DenialsOnFile /\ [TrustNext]_trustVars
  => ChainsFollowRecords' /\ DenialsOnFile'
<1> SUFFICES ASSUME TrustTypeOK, TrustTypeOK', QueueOK, ChainsFollowRecords, DenialsOnFile, [TrustNext]_trustVars
             PROVE  ChainsFollowRecords' /\ DenialsOnFile'
  OBVIOUS
<1>d. DOMAIN task = Tasks
  BY DEF TrustTypeOK
<1>0. ASSUME store' = store, UNCHANGED <<refuted, forgotten>>,
             \A u \in Tasks : task'[u] # NoTask => SameJob(u)
      PROVE  ChainsFollowRecords' /\ DenialsOnFile'
  <2>1. RecordsKept
    BY <1>0 DEF RecordsKept
  <2>2. DenialsOnFile'
    BY <1>0 DEF DenialsOnFile, Key
  <2> QED
    BY <1>0, <2>1, <2>2, ChainsStay
<1>1. ASSUME NEW p \in Pkgs, NEW ok \in SaveOutcomes, Load(p, ok)
      PROVE  ChainsFollowRecords' /\ DenialsOnFile'
  <2>1. /\ RecordsKept /\ UNCHANGED <<refuted, forgotten, proven>>
        /\ \A u \in Tasks : task'[u] # NoTask => SameJob(u) \/ NewJob(u)
    BY <1>1, LoadRecords
  <2>2. ChainsFollowRecords'
    BY <2>1, ChainsStay
  <2>3. installed[p] \in Contents
    BY DEF TrustTypeOK
  <2>4. DenialsOnFile'
    BY <2>1, <2>3, DenialsStay
  <2> QED
    BY <2>2, <2>4
<1>2. ASSUME NEW found, NEW ok, RefreshDone(found, ok)
      PROVE  ChainsFollowRecords' /\ DenialsOnFile'
  <2>1. ASSUME NEW u \in Tasks, task'[u] # NoTask PROVE SameJob(u)
    <3>1. CASE task[u].stage = "asking"
      <4>1. task[u] \in Task
        BY <3>1, JobType
      <4>2. task'[u] = [task[u] EXCEPT !.stage = "ready"]
        BY <1>2, <3>1 DEF RefreshDone
      <4> QED
        BY <3>1, <4>1, <4>2 DEF SameJob, Task, NoTask
    <3>2. CASE task[u].stage # "asking"
      BY <1>2, <2>1, <3>2 DEF RefreshDone, SameJob
    <3> QED
      BY <3>1, <3>2
  <2> QED
    BY <1>0, <1>2, <2>1 DEF RefreshDone, baseline, history
<1>3. ASSUME NEW t \in Tasks, AfterRefresh(t)
      PROVE  ChainsFollowRecords' /\ DenialsOnFile'
  <2>1. task[t].stage = "ready" /\ task[t] \in Task /\ task[t].pkg \in Pkgs /\ task[t].hash \in Contents
    BY <1>3, JobType DEF AfterRefresh
  <2>2. CASE task' = [task EXCEPT ![t] = NoTask]
    BY <1>0, <1>3, <1>d, <2>2 DEF AfterRefresh, SameJob, baseline, history
  <2>3. ASSUME NEW s \in {"waiting", "verifying"},
               task' = [task EXCEPT ![t] = [stage |-> s, pkg |-> task[t].pkg, hash |-> task[t].hash]]
        PROVE  ChainsFollowRecords' /\ DenialsOnFile'
    <3>1. task'[t] = [stage |-> s, pkg |-> task[t].pkg, hash |-> task[t].hash]
          /\ \A u \in Tasks : u # t => task'[u] = task[u]
      BY <1>d, <2>3
    <3>2. SameJob(t)
      BY <2>1, <2>3, <3>1 DEF SameJob, NoTask
    <3> QED
      BY <1>0, <1>3, <3>1, <3>2 DEF AfterRefresh, SameJob, baseline, history
  <2>4. CASE Enter(t, task[t].pkg, task[t].hash)
    BY <2>1, <2>3, <2>4, EnterType
  <2> QED
    BY <1>3, <2>2, <2>4 DEF AfterRefresh
<1>4. ASSUME NEW t \in Tasks, Resume(t)
      PROVE  ChainsFollowRecords' /\ DenialsOnFile'
  <2>1. task[t].stage = "woken" /\ task[t] \in Task
    BY <1>4, JobType DEF Resume
  <2>2. task'[t] = [task[t] EXCEPT !.stage = "verifying"]
        /\ \A u \in Tasks : u # t => task'[u] = task[u]
    BY <1>4, <1>d DEF Resume
  <2>3. SameJob(t)
    BY <2>1, <2>2 DEF SameJob, Task, NoTask
  <2> QED
    BY <1>0, <1>4, <2>2, <2>3 DEF Resume, SameJob, baseline, history
<1>5. ASSUME NEW t \in Tasks, NEW resolved \in BOOLEAN, NEW ok \in SaveOutcomes,
             NEW read \in LoadOutcomes,
             Verified(t, resolved, ok, read) \/ Reconciled(t, resolved, ok, read)
      PROVE  ChainsFollowRecords' /\ DenialsOnFile'
  <2>1. task[t].pkg \in Pkgs /\ task[t].hash \in Contents
    BY <1>5, JobType DEF Verified, Reconciled
  <2>2. /\ RecordsKept /\ forgotten \subseteq forgotten'
        /\ \A u \in Tasks : task'[u] # NoTask => SameJob(u)
        /\ \/ refuted' = refuted
           \/ /\ refuted' = refuted \cup {<<task[t].pkg, task[t].hash>>}
              /\ task[t].hash \notin Genuine
              /\ KeyOf(t) \notin forgotten' => store'[KeyOf(t)] # NoRecord /\ store'[KeyOf(t)].suspected
    BY <1>5, AnswerRecords
  <2>3. ChainsFollowRecords'
    BY <2>2, ChainsStay
  <2>4. DenialsOnFile'
    BY <2>1, <2>2, DenialsStay DEF KeyOf
  <2> QED
    BY <2>3, <2>4
<1>6. ASSUME NEW p \in Pkgs, NEW c \in Contents, Install(p, c)
      PROVE  ChainsFollowRecords' /\ DenialsOnFile'
  BY <1>0, <1>6 DEF Install, baseline, chains, history, SameJob
<1>9. ASSUME NEW p \in Pkgs, NEW c \in Contents, NEW ok, ScanTool(p, c, ok)
      PROVE  ChainsFollowRecords' /\ DenialsOnFile'
  <2>1. RecordsKept
    BY <1>9, ToolRecords
  <2>2. \A u \in Tasks : task'[u] # NoTask => SameJob(u)
    BY <1>9 DEF ScanTool, chains, SameJob
  <2>3. UNCHANGED <<refuted, forgotten>>
    BY <1>9 DEF ScanTool, history
  <2>4. ChainsFollowRecords'
    BY <2>1, <2>2, <2>3, ChainsStay
  <2>5. DenialsOnFile'
    BY <2>1, <2>3, DenialsStay
  <2> QED
    BY <2>4, <2>5
<1>7. ASSUME NEW read, Restart(read) PROVE ChainsFollowRecords' /\ DenialsOnFile'
  <2>1. ChainsFollowRecords'
    BY <1>7 DEF Restart, ChainsFollowRecords
  <2>2. ASSUME NEW p \in Pkgs, NEW c \in Contents, <<p, c>> \in refuted', Key(p, c) \notin forgotten'
        PROVE  Key(p, c) \notin forgotten /\ store'[Key(p, c)] = store[Key(p, c)] /\ <<p, c>> \in refuted
    BY <1>7, <2>2, KeyInKeys DEF Restart, Drops
  <2>3. ASSUME NEW p \in Pkgs, NEW c \in Contents, <<p, c>> \in refuted'
        PROVE  c \notin Genuine
    BY <1>7, <2>3 DEF Restart, DenialsOnFile
  <2>4. DenialsOnFile'
    BY <2>2, <2>3 DEF DenialsOnFile, Key
  <2> QED
    BY <2>1, <2>4
<1>8. CASE UNCHANGED trustVars
  BY <1>0, <1>8 DEF trustVars, baseline, chains, history, SameJob
<1> QED
  BY <1>1, <1>2, <1>3, <1>4, <1>5, <1>6, <1>7, <1>8, <1>9 DEF TrustNext

\* What the registry confirmed is trusted, and trust has its evidence.
LEMMA EvidenceStep ==
  TrustTypeOK /\ QueueOK /\ proven \subseteq trusted /\ TrustNeedsEvidence /\ [TrustNext]_trustVars
  => proven' \subseteq trusted' /\ TrustNeedsEvidence'
<1> SUFFICES ASSUME TrustTypeOK, QueueOK, proven \subseteq trusted, TrustNeedsEvidence, [TrustNext]_trustVars
             PROVE  proven' \subseteq trusted' /\ TrustNeedsEvidence'
  OBVIOUS
<1>1. ASSUME NEW p \in Pkgs, NEW ok \in SaveOutcomes, Load(p, ok)
      PROVE  proven' \subseteq trusted' /\ TrustNeedsEvidence'
  <2>1. trusted' = trusted \/ (trusted' = trusted \cup {p} /\ p \in catalog)
    BY <1>1, LoadCases DEF FirstSeen, Match, Mismatch, Vouches
  <2> QED
    BY <1>1, <2>1 DEF Load, history, TrustNeedsEvidence
<1>2. ASSUME NEW t \in Tasks, Decide(t), UNCHANGED catalog
      PROVE  proven' \subseteq trusted' /\ TrustNeedsEvidence'
  BY <1>2 DEF Decide, TrustNeedsEvidence
<1>3. ASSUME UNCHANGED <<trusted, proven>>, catalog \subseteq catalog'
      PROVE  proven' \subseteq trusted' /\ TrustNeedsEvidence'
  BY <1>3 DEF TrustNeedsEvidence
<1>4. ASSUME NEW t \in Tasks, NEW resolved, NEW ok, NEW read,
             Verified(t, resolved, ok, read) \/ Reconciled(t, resolved, ok, read)
      PROVE  proven' \subseteq trusted' /\ TrustNeedsEvidence'
  BY <1>2, <1>3, <1>4 DEF Verified, Reconciled, names, history
<1>5. ASSUME NEW read, Restart(read) PROVE proven' \subseteq trusted' /\ TrustNeedsEvidence'
  BY <1>5 DEF Restart, TrustNeedsEvidence
<1>6. ASSUME \/ \E found, ok : RefreshDone(found, ok)
             \/ \E t \in Tasks : AfterRefresh(t) \/ Resume(t)
             \/ \E p \in Pkgs, c \in Contents : Install(p, c)
             \/ \E p \in Pkgs, c \in Contents, ok \in SaveOutcomes : ScanTool(p, c, ok)
             \/ UNCHANGED trustVars
      PROVE  proven' \subseteq trusted' /\ TrustNeedsEvidence'
  BY <1>3, <1>6 DEF RefreshDone, AfterRefresh, Resume, ScanTool, Install, trustVars, names, history
<1> QED
  BY <1>1, <1>4, <1>5, <1>6 DEF TrustNext

\* The invariant holds in every reachable state.
THEOREM TrustInvariant == TrustSpec => []TrustInv
<1>1. TrustInit => TrustInv
  <2> SUFFICES ASSUME TrustInit PROVE TrustInv
    OBVIOUS
  <2>1. TrustTypeOK /\ QueueOK
    BY InitTypes
  <2>2. ChainsFollowRecords /\ OneDrain
    BY DEF TrustInit, ChainsFollowRecords, OneDrain, At, NoTask
  <2>3. DenialsOnFile /\ proven \subseteq trusted /\ TrustNeedsEvidence
    BY DEF TrustInit, DenialsOnFile, TrustNeedsEvidence
  <2> QED
    BY <2>1, <2>2, <2>3 DEF TrustInv
<1>2. TrustInv /\ [TrustNext]_trustVars => TrustInv'
  <2> SUFFICES ASSUME TrustInv, [TrustNext]_trustVars PROVE TrustInv'
    OBVIOUS
  <2>1. TrustTypeOK /\ QueueOK /\ OneDrain
    BY DEF TrustInv
  <2>2. TrustTypeOK' /\ QueueOK' /\ OneDrain'
    BY <2>1, TypeStep, SlotStep, DrainStep
  <2>3. ChainsFollowRecords' /\ DenialsOnFile'
    BY <2>1, <2>2, RecordStep DEF TrustInv
  <2>4. (proven \subseteq trusted)' /\ TrustNeedsEvidence'
    BY <2>1, EvidenceStep DEF TrustInv
  <2> QED
    BY <2>2, <2>3, <2>4 DEF TrustInv
<1> QED
  BY <1>1, <1>2, PTL DEF TrustSpec

\* Types are kept by every step of the gate and of what follows it.
THEOREM TrustTypeCorrect == TrustSpec => []TrustTypeOK
<1>1. TrustInv => TrustTypeOK
  BY DEF TrustInv
<1> QED
  BY <1>1, TrustInvariant, PTL

\* For any number of chains and slots, the counter of withVerifySlot equals the
\* verifications at the registry, the limit holds, and nobody queues while a
\* slot is free.
THEOREM SlotsAreKept == TrustSpec => []SlotsKept
<1>1. TrustInv => SlotsKept
  <2> SUFFICES ASSUME TrustTypeOK, QueueOK PROVE SlotsKept
    BY DEF TrustInv
  <2>1. At("waiting") = {waiters[i] : i \in DOMAIN waiters}
    <3>1. \A i \in DOMAIN waiters : waiters[i] \in At("waiting")
      BY DEF TrustTypeOK, QueueOK, At
    <3>2. \A t \in At("waiting") : \E i \in DOMAIN waiters : waiters[i] = t
      BY DEF QueueOK
    <3> QED
      BY <3>1, <3>2
  <2> QED
    BY <2>1 DEF SlotsKept, QueueOK
<1> QED
  BY <1>1, TrustInvariant, PTL

\* No name outside the catalog is trusted on the word of the local baseline.
THEOREM TrustHasEvidence == TrustSpec => []TrustNeedsEvidence
<1>1. TrustInv => TrustNeedsEvidence
  BY DEF TrustInv
<1> QED
  BY <1>1, TrustInvariant, PTL

\* Bytes the registry has denied are not trusted by being loaded again, as long
\* as no restart and no failed reading has dropped the record of their version.
THEOREM DeniedBytesStayOut == TrustSpec => RefutedStayOut
<1> DEFINE Step ==
      \A p \in Pkgs :
         /\ p \in trusted' \ trusted /\ <<p, installed[p]>> \in refuted
         /\ proven' = proven
         => IsAcked(p, installed[p]) \/ Key(p, installed[p]) \in forgotten
<1>1. TrustInv /\ [TrustNext]_trustVars => [Step]_trustVars
  <2> SUFFICES ASSUME TrustInv, TrustNext, NEW p \in Pkgs, p \in trusted', p \notin trusted,
                      <<p, installed[p]>> \in refuted, proven' = proven,
                      Key(p, installed[p]) \notin forgotten
               PROVE  IsAcked(p, installed[p])
    BY DEF trustVars
  <2>1. TrustTypeOK /\ QueueOK /\ DenialsOnFile /\ proven \subseteq trusted
    BY DEF TrustInv
  <2>2. ASSUME NEW t \in Tasks, Decide(t) PROVE FALSE
    <3>1. Proved(t) /\ task[t].pkg = p
      BY <2>2 DEF Decide
    <3>2. p \in proven'
      BY <2>2, <3>1 DEF Decide
    <3> QED
      BY <2>1, <3>2
  <2>3. ASSUME NEW t \in Tasks, NEW resolved, NEW ok, NEW read,
               Verified(t, resolved, ok, read) \/ Reconciled(t, resolved, ok, read)
        PROVE  FALSE
    BY <2>2, <2>3 DEF Verified, Reconciled
  <2>4. PICK q \in Pkgs, ok \in SaveOutcomes : Load(q, ok)
    BY <2>3 DEF TrustNext, RefreshDone, AfterRefresh, Resume, ScanTool, Install, Restart
  <2>5. PICK t \in At("idle") : Match(t, q, installed[q])
    BY <2>1, <2>4, LoadCases DEF FirstSeen, Mismatch
  <2>6. q = p /\ Vouches(p, installed[p]) /\ store[Key(p, installed[p])].hash = installed[p]
    BY <2>5 DEF Match
  <2>7. installed[p] \in Contents
    BY <2>1 DEF TrustTypeOK
  <2>8. store[Key(p, installed[p])].suspected
    BY <2>1, <2>6, <2>7 DEF DenialsOnFile
  <2> QED
    BY <2>6, <2>8 DEF Vouches
<1> QED
  BY <1>1, TrustInvariant, PTL DEF TrustSpec, RefutedStayOut

\* A mark leaves a record only when the registry confirms bytes of that version
\* or when a restart or a failed reading drops the record.
THEOREM MarksStick == TrustSpec => MarkSticks
<1> DEFINE Step ==
      \A k \in Keys :
         store[k].suspected /\ ~store'[k].suspected =>
            \/ store'[k].hash \in Genuine /\ k[1] \in proven'
            \/ k \in forgotten'
<1>1. TrustInv /\ [TrustNext]_trustVars => [Step]_trustVars
  <2> SUFFICES ASSUME TrustInv, TrustNext, NEW k \in Keys, store[k].suspected, ~store'[k].suspected,
                      k \notin forgotten'
               PROVE  store'[k].hash \in Genuine /\ k[1] \in proven'
    BY DEF trustVars
  <2>1. TrustTypeOK /\ QueueOK /\ ChainsFollowRecords
    BY DEF TrustInv
  <2>2. store[k] # NoRecord /\ store[k] \in Record /\ store'[k] # store[k]
    BY <2>1 DEF TrustTypeOK, NoRecord
  <2>3. ASSUME NEW p \in Pkgs, NEW ok \in SaveOutcomes, Load(p, ok) PROVE FALSE
    <3>1. installed[p] \in Contents
      BY <2>1 DEF TrustTypeOK
    <3>2. \E t \in Tasks : FirstSeen(t, p, installed[p], ok)
      BY <2>1, <2>2, <2>3, LoadCases DEF Match, Mismatch, baseline, At
    <3>3. store' = [store EXCEPT ![Key(p, installed[p])] = [hash |-> installed[p], suspected |-> FALSE]]
          /\ store[Key(p, installed[p])] = NoRecord
      BY <3>2 DEF FirstSeen
    <3> QED
      BY <2>1, <2>2, <3>3 DEF TrustTypeOK
  <2>4. ASSUME NEW t \in Tasks, KeyOf(t) \in Keys, NEW s \in BOOLEAN, NEW ok, NEW read, Suspect(KeyOf(t), s, ok, read)
        PROVE  k = KeyOf(t) /\ store[k].hash = store'[k].hash /\ ~s
    <3> DEFINE rec == [store[KeyOf(t)] EXCEPT !.suspected = s]
               new == [store EXCEPT ![KeyOf(t)] = rec]
    <3>1. store[KeyOf(t)] # NoRecord /\ SaveAndReload(new, ok, read)
      BY <2>2, <2>4 DEF Suspect, baseline
    <3>2. rec \in Record
      BY <2>1, <2>4, <3>1 DEF TrustTypeOK, Record
    <3>3. /\ new \in [Keys -> Record \cup {NoRecord}]
          /\ new[KeyOf(t)] = rec /\ \A j \in Keys : j # KeyOf(t) => new[j] = store[j]
      BY <2>1, <2>4, <3>2 DEF TrustTypeOK
    <3>4. store'[k] = new[k]
      <4> HIDE DEF new, rec
      <4> QED
        BY <2>1, <3>1, <3>3, Reloading
    <3>5. k = KeyOf(t)
      BY <2>2, <3>3, <3>4
    <3>6. store'[k] = [store[k] EXCEPT !.suspected = s]
      BY <3>3, <3>4, <3>5
    <3> QED
      BY <2>2, <3>5, <3>6 DEF Record
  <2>5. ASSUME NEW t \in Tasks, task[t].stage # "idle", Decide(t), Proved(t), k = KeyOf(t),
               store'[k].hash = task[t].hash
        PROVE  store'[k].hash \in Genuine /\ k[1] \in proven'
    BY <2>5 DEF Decide, Proved, KeyOf, Key
  <2>6. ASSUME NEW t \in Tasks, NEW resolved \in BOOLEAN, NEW ok \in SaveOutcomes,
             NEW read \in LoadOutcomes, Verified(t, resolved, ok, read)
        PROVE  store'[k].hash \in Genuine /\ k[1] \in proven'
    <3>1. Suspect(KeyOf(t), ~Proved(t), ok, read) /\ Decide(t) /\ task[t].stage = "verifying"
      BY <2>2, <2>6 DEF Verified, baseline
    <3>4. KeyOf(t) \in Keys /\ (~Proved(t)) \in BOOLEAN
      BY <2>1, <3>1, JobType DEF Proved
    <3>2. k = KeyOf(t) /\ store[k].hash = store'[k].hash /\ ~(~Proved(t))
      BY <2>4, <3>1, <3>4
    <3>5. forgotten \subseteq forgotten'
      BY <2>1, <3>1, <3>4, SuspectType
    <3>3. store[KeyOf(t)].hash = task[t].hash
      BY <2>1, <3>1, <3>2, <3>5 DEF ChainsFollowRecords, Proved, NoTask
    <3> QED
      BY <2>5, <3>1, <3>2, <3>3
  <2>7. ASSUME NEW t \in Tasks, NEW resolved \in BOOLEAN, NEW ok \in SaveOutcomes,
             NEW read \in LoadOutcomes, Reconciled(t, resolved, ok, read)
        PROVE  store'[k].hash \in Genuine /\ k[1] \in proven'
    <3>0. task[t].stage = "reconciling"
      BY <2>7 DEF Reconciled
    <3>4. KeyOf(t) \in Keys /\ task[t].hash \in Contents
      BY <2>1, <3>0, JobType
    <3>1. ~Suspect(KeyOf(t), TRUE, ok, read)
      BY <2>4, <3>4
    <3> DEFINE rec == [hash |-> task[t].hash, suspected |-> FALSE]
               new == [store EXCEPT ![KeyOf(t)] = rec]
    <3>2. Proved(t) /\ Decide(t) /\ SaveAndReload(new, ok, read)
      BY <2>2, <2>7, <3>1 DEF Reconciled, baseline
    <3>5. rec \in Record
      BY <3>4 DEF Record
    <3>6. /\ new \in [Keys -> Record \cup {NoRecord}]
          /\ new[KeyOf(t)] = rec /\ \A j \in Keys : j # KeyOf(t) => new[j] = store[j]
      BY <2>1, <3>4, <3>5 DEF TrustTypeOK
    <3>7. store'[k] = new[k]
      <4> HIDE DEF new, rec
      <4> QED
        BY <2>1, <3>2, <3>6, Reloading
    <3>3. k = KeyOf(t) /\ store'[k] = rec
      BY <2>2, <3>6, <3>7
    <3> QED
      BY <2>5, <3>0, <3>2, <3>3
  <2>8. ASSUME NEW read, Restart(read) PROVE FALSE
    BY <2>2, <2>8 DEF Restart, Drops
  <2>10. ASSUME NEW p \in Pkgs, NEW c \in Contents, NEW ok, ScanTool(p, c, ok) PROVE FALSE
    BY <2>1, <2>2, <2>10 DEF ScanTool, TrustTypeOK
  <2>9. ASSUME \/ \E found, ok : RefreshDone(found, ok)
               \/ \E t \in Tasks : AfterRefresh(t) \/ Resume(t)
               \/ \E p \in Pkgs, c \in Contents : Install(p, c)
        PROVE  FALSE
    BY <2>2, <2>9 DEF RefreshDone, AfterRefresh, Resume, Install, baseline
  <2> QED
    BY <2>3, <2>6, <2>7, <2>8, <2>9, <2>10 DEF TrustNext
<1> QED
  BY <1>1, TrustInvariant, PTL DEF TrustSpec, MarkSticks

=============================================================================
