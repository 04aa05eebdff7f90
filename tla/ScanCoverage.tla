---------------------------- MODULE ScanCoverage ----------------------------
(***************************************************************************)
(* What a scan says it has covered: guard/coverage.ts (the rows of one     *)
(* scan) and domain/coverage.ts (their collapse into one result for every  *)
(* surface, and the aggregate over several subjects).  Reasons, dates and  *)
(* versions are left out: they do not decide a result.                     *)
(***************************************************************************)
EXTENDS Integers, FiniteSets, FiniteSetsExt

CONSTANT NoOsv            \* the report has no statistics of the advisory phase

RuntimeSurfaces == {"runtime_fs", "runtime_net", "runtime_spawn"}

Surfaces == RuntimeSurfaces \cup
    {"file_tree", "deps_direct", "deps_transitive", "intel_osv",
     "intel_registry", "runtime_hook_health"}

\* The results from the best to the worst: RESULT_RANK.
RankedResults == <<"covered", "unsupported", "excluded", "unknown", "partial", "failed">>

Rank(result) == CHOOSE n \in DOMAIN RankedResults : RankedResults[n] = result

Worse(a, b) == IF Rank(a) >= Rank(b) THEN a ELSE b

Row(surface, result) == [surface |-> surface, result |-> result]

(***************************************************************************)
(* The statistics [phase, targets, attempted, answered] are clamped so     *)
(* that no count exceeds the one before it; what cannot be read counts as  *)
(* absent, an unknown phase as overrun.                                    *)
(***************************************************************************)
Counts(osv) ==
    LET attempted == Min({osv.attempted, osv.targets})
    IN  [phase |-> IF osv.phase \in {"ran", "skipped"} THEN osv.phase ELSE "overran",
         targets |-> osv.targets, attempted |-> attempted,
         answered |-> Min({osv.answered, attempted})]

DirectRow(sync, osv) ==
    Row("deps_direct",
        CASE sync                                                        -> "excluded"
          [] ~sync /\ osv = NoOsv                                        -> "covered"
          [] ~sync /\ osv # NoOsv ->
                LET n == Counts(osv)
                IN  CASE n.phase = "skipped"                             -> "unknown"
                      [] n.phase # "skipped" /\ n.attempted = 0 ->
                            IF n.phase = "ran" /\ n.targets = 0 THEN "covered" ELSE "unknown"
                      [] OTHER -> IF n.targets > n.attempted THEN "partial" ELSE "covered")

\* Mutant: without statistics the lookup counts as complete.
IntelRowTrusting(sync, osv) == Row("intel_osv", IF sync THEN "excluded" ELSE "covered")

IntelRow(sync, osv) ==
    Row("intel_osv",
        CASE sync                                                        -> "excluded"
          [] ~sync /\ osv = NoOsv                                        -> "partial"
          [] ~sync /\ osv # NoOsv ->
                LET n == Counts(osv)
                IN  CASE n.phase = "skipped"                             -> "unknown"
                      [] n.phase # "skipped" /\ n.attempted = 0 ->
                            IF n.phase = "ran" /\ n.targets = 0 THEN "excluded" ELSE "unknown"
                      [] OTHER ->
                            IF n.phase = "ran" /\ n.answered = n.attempted /\ n.attempted = n.targets
                            THEN "covered" ELSE "partial")

StaticRow(i) ==
    Row("file_tree", CASE i.failed                                       -> "failed"
                       [] ~i.failed /\ i.sources = 0                     -> "partial"
                       [] ~i.failed /\ i.sources > 0 /\ i.skipped > 0    -> "partial"
                       [] OTHER                                          -> "covered")

AdvisoryRows(i) ==
    IF i.osvEnabled THEN {DirectRow(i.sync, i.osv), IntelRow(i.sync, i.osv)}
                    ELSE {Row("deps_direct", "excluded"), Row("intel_osv", "excluded")}

(***************************************************************************)
(* The hooks: `checks` says for each hooked surface whether a wrapper is   *)
(* "absent", "broken" or "intact".  A surface without hooks has no row.    *)
(***************************************************************************)
HookRows(i) ==
    {Row(s, IF i.checks[s] = "intact" THEN "covered" ELSE "failed") :
        s \in {t \in RuntimeSurfaces : /\ i.checks[t] # "absent"
                                       /\ t = "runtime_net" => i.egress}}
    \cup (IF i.egress THEN {} ELSE {Row("runtime_net", "unsupported")})

\* Named ESM imports bypass the hooks: they spoil a surface the hooks cover.
\* `esm` holds the surfaces the imports name, all three when unnamed.
EsmRows(i) ==
    IF i.guard # "watch" THEN {}
    ELSE {Row(s, "partial") : s \in {t \in i.esm : Row(t, "covered") \in HookRows(i)}}

HealthRow(i) ==
    Row("runtime_hook_health",
        CASE \A s \in RuntimeSurfaces : i.checks[s] = "absent" -> "unknown"
          [] \E s \in RuntimeSurfaces : i.checks[s] = "broken" -> "failed"
          [] OTHER                                             -> "covered")

TransitiveRow(on) == Row("deps_transitive", IF on THEN "covered" ELSE "excluded")

\* All rows of one scan, by the place where it was made.
ScanRows(i) ==
    {StaticRow(i)} \cup AdvisoryRows(i) \cup
    CASE i.scope = "tool"  -> {}
      [] i.scope = "gate"  -> {Row("deps_transitive", "unsupported"), Row("intel_registry", "unsupported")}
      [] i.scope = "guard" ->
            {TransitiveRow(i.transitive), Row("intel_registry", "unknown")} \cup
            IF i.guard = "off"
            THEN {Row(s, "unsupported") : s \in RuntimeSurfaces \cup {"runtime_hook_health"}}
            ELSE HookRows(i) \cup EsmRows(i) \cup {HealthRow(i)}

\* One result per surface, the worst of its rows; unknown when there is none.
Collapsed(rows) ==
    [s \in Surfaces |->
        LET results == {r.result : r \in {x \in rows : x.surface = s}}
        IN  IF results = {} THEN "unknown"
            ELSE CHOOSE r \in results : \A x \in results : Rank(r) >= Rank(x)]

Covers(i) == Collapsed(ScanRows(i))

\* The board's view over all subjects it knows.
Aggregate(covers) ==
    [s \in Surfaces |->
        IF covers = {} THEN "unknown"
        ELSE LET results == {c[s] : c \in covers}
             IN  CHOOSE r \in results : \A x \in results : Rank(r) >= Rank(x)]

=============================================================================
