# Verification of dsh-plugin-vet in TLA+

dsh-plugin-vet is a security companion for the DSH host: a plugin that scans
other plugins before and while they run, watches the host process for what a
plugin does at runtime, keeps a board of alarms with a shield in the web UI,
and decides which official packages may be trusted.  It is TypeScript, runs in
one Node or Bun process beside the plugins it watches, starts two kinds of
child processes (a scanner and a *sentinel*), and keeps a dozen JSON files
under `~/.dsh`.

This directory holds TLA+ models of its stateful parts, the TLC configurations
that check them on small instances, and proofs, checked by TLAPS, that the
main safety properties hold for every value of the parameters.  Paths below
are relative to the repository root (`src/guard/status.ts` and so on).

- [1. The system](#1-the-system)
- [2. Plan](#2-plan)
- [3. The modules and the code they model](#3-the-modules-and-the-code-they-model)
- [4. Runs, bounds and fairness](#4-runs-bounds-and-fairness)
- [5. What is proved](#5-what-is-proved)
- [6. Disagreements between the code and what it says](#6-disagreements-between-the-code-and-what-it-says)
- [7. Not modelled](#7-not-modelled)

How to run: `tlc -config MCVetStatus.cfg MCVetStatus` (one line per run, see
section 4) and `tlapm VetStatusProofs.tla` (section 5).  The deliberately
wrong operators in the modules, each with a comment starting with "Mutant:" or
"Mutated:", are there to show that a property can fail: replacing the body of the operator
named in `PROJECT.json` under `mutants` by the wrong one makes the run named
there fail.

## 1. The system

The parts, grouped by how they run.  "State" is what lives between two calls.

### 1.1 Alarm board and panel

| part | state | operations | what is hard, and what must hold |
|---|---|---|---|
| Alarm board `guard/status.ts`, `alarm-emit.ts`, `scan-verdict.ts` | ring of at most `alarmMax` rows, member sets of advisory rows, folds of this process | record, expire, trimToMax, noteScan, anchorGroup, dropStaleVerdicts, clearScanVerdict, dismiss, restore, snapshot | every guard writes into it in any order; reports of a group merge within a window and replace one another after it; several packages share an advisory row. One row per group, at most `alarmMax`; red is not pushed out by yellow; a fold holds until the group turns red; an advisory row lists exactly the packages it still explains |
| Fold list `guard/dismissed-alerts.ts` | `dismissed-alerts.json`, a cache of its names | load, persist, restore, prune to 200 | a write may fail, a read may fail, the cache and the file may differ. A fold outlives a restart iff it was written |
| Panel feed `guard/status-route.ts`, `update-check.ts`, `update-card.ts`, `shield-shape.ts`, `local-peer.ts`, client | cached audit summary, single-flight update check with a time to live, the configuration file it rewrites | GET status, POST dismiss / restore / config / scan | two requests race for one file; an answer of an old check arrives after a new one |
| Coverage, posture, statistics, summaries, metrics `guard/coverage.ts`, `posture.ts`, `stats.ts`, `scan-summaries.ts`, `audit-summary.ts`, `snapshot.ts`, `metrics.ts` | counters and last results, some on disk | note, read, prune, join into lists | size limits, drift between snapshots; lists joined from files that are written at different moments follow the last scan |

### 1.2 Load gate and trust

| part | state | operations | what is hard, and what must hold |
|---|---|---|---|
| Load gate `guards/internal-plugin.ts` | verification slots and their queue; everything below | load of a plugin: classify, allow / block, start checks; third-party baseline; archive gate | a load decides at once, the registry answers later, other loads and replaced bytes come in between. Only listed or confirmed packages are trusted; a slot is neither lost nor doubled |
| Content baseline `guards/content-baseline.ts` | `content-baseline.json`: hash and mark per package version, its cache | check, record, mark as suspected, save, prune, stamp | a failed write, a second writer, a restart between marking and writing. A mark is not lost by loading again |
| Official catalog `guards/official-catalog.ts` and its generated seed | names shipped, overlay on disk, one refresh in flight | load, refresh from the registry, persist | partial answers and time-outs |
| Registry check `guards/registry-verify.ts` | one request in flight per version | fetch metadata, fetch tarball, hash | answers shared by several chains |
| Trust anchor `guard/runtime-attrib.ts` | set of trusted names | mark, ask | read by every runtime guard to silence a package |
| Audit archive `audit/archive.ts` | archived verdicts on disk | append, look up, prune | decides whether a load is let through without a new scan |
| Tool gate `guards/tool-execute.ts`, scan tools `tools/*.ts`, gate CLI `gate*.ts` | receipts | scan a payload before a tool runs; audit a package on request; exit status | a scan that fails or times out must not let the payload pass in deny mode |

### 1.3 Runtime guards

| part | state | operations | what is hard, and what must hold |
|---|---|---|---|
| Hook wrappers `guard/runtime-patch.ts`, `runtime-hooks.ts`, `runtime-ops.ts`, `runtime-net.ts` | the patched functions of fs, net, http, child_process; one wrapper per copy of the module | call, dispose | several layers over one function, removed in any order; attribution by stack trace, which a plugin may disable; a decision before the call and observations after it |
| Confirm-to-block `guard/confirm-block.ts`, receipts `receipt-oracle.ts`, `domain/receipt.ts` | plugins with a confirmed destructive signal, credential paths; attempt counters, last receipts | decide, mark, note attempt, note forwarded | what was blocked was not forwarded |
| Alarm sink and filters `guard/runtime-sink.ts`, `runtime-classify.ts`, `runtime-denoise.ts`, `runtime-count.ts` | first-sight sets, byte counters | classify, merge, attach counters to streams | callbacks of streams that end long after the call |
| Hook heartbeat `guard/runtime-heartbeat.ts` | timer, last reported state | tick | a hook that was removed or covered by another |
| Exfiltration ledger `guard/exfil-ledger.ts` | per plugin: windows of reads, writes, network events, counters | record fs, record net, derive alarms | sliding windows, thresholds, alarms that must come once and must stop |
| Canaries `guard/honeypot.ts`, `canary.ts` | lure files on disk, their marks in memory | create, match | what is on disk outlives what is in memory |
| Sentinel lifecycle `guard/runtime-guard.ts`, `runtime-sidecar.ts`, entry of `runtime-watch.ts` | pid in `process.env`; per copy: switch, installation, child, restart budget, timer | install, dispose, switch, exit, respawn, kill | two copies of the module, a child that ends late, pids that are reused, a host that dies. One sentinel per host; none after a switch off; a loss is reported |
| Sentinel sampling `guard/runtime-watch.ts`, `darwin-sysinfo.ts` | warm-up, windows of samples, streaks | tick | growth and sustained thresholds; one alarm per episode |
| Version, capability and configuration baselines `guard/version-diff.ts`, `capability-diff.ts`, `config-diff.ts`, `store-stamp.ts`, `contract.ts`, `forensics.ts` | JSON files with a writer stamp | compare, record, prune | two processes write one file; a restart between compare and record |

### 1.4 Scanner

| part | state | operations | what is hard, and what must hold |
|---|---|---|---|
| Scanner client `scanner/client.ts` | running scans, slots, the child | scan, time out, exit | a time-out races with an answer; the child dies with requests open. Every request is answered exactly once, and no failure reads as "clean" |
| Requests `scanner/scan-request.ts`, `package-sources.ts` | none | walk a package | limits on files and bytes |
| Engine `scanner-bin/engine.ts`, `score.ts`, `capability.ts`, `index.ts` | budgets of one scan | phases, verdict | a budget that runs out must lower the coverage and not the severity |
| Cache and advisories `scanner-bin/cache.ts`, `osv.ts` | verdicts by hash, advisory answers | look up, store, prune, query in batches | stale entries, partial answers |
| Rules `scanner-bin/rules/*.ts`, `ast.ts`, `decode.ts` | none | match syntax trees | pure pattern matching |
| Domain algebra `domain/*.ts` | none | qualify, decide, project, validate | total functions over small sets |

### 1.5 How they interact

The host loads a plugin and calls the load gate; the gate asks the scanner
(a child process) and the baseline (a file), lets the load go on or stops it,
and leaves registry questions to callbacks.  Verdicts and everything the
runtime hooks, the ledger, the sentinel and the baselines find are recorded on
the board, most of them through `emitAlarm`.  Hooks run inside the calls of
the watched plugins, ask the trust anchor whether to stay silent, and may
refuse the call.  The sentinel is a child that writes lines to a pipe.  The
panel polls the board and sends folds back.  All host code is one thread: a
handler runs to its end before the next, and interleaving happens at awaits,
callbacks, timers, process exits and between processes that share files.

## 2. Plan

Modules in the order in which they were written; the most consequential
behaviour first: what the user is shown, whom the guards trust, whether the
watchers are there, and then what is scanned, gated, stored and shown.

| # | modules | model | state |
|---|---|---|---|
| 1 | `VetStatus` | alarm board and fold list | checked, proved |
| 2 | `OfficialTrust` | load decision, baseline, catalog, registry checks, trust anchor | checked, proved |
| 3 | `Sentinel`, then `Sampling` on top of it | registry, takeover, restart and end of the sentinel; what it measures while it lives | checked, proved |
| 4 | `RuntimeHooks` | wrapper layers of several copies over one function, confirm-to-block, heartbeat, canaries | checked, proved |
| 5 | `ExfilLedger` | windows and alarms of the exfiltration ledger | checked, proved |
| 6 | `ScanCoverage`, `ScanEngine`, `ScannerClient`, `ScanPromise` | a scan from the request to the answer, and what a caller may rely on | checked, proved, with a refinement |
| 7 | `GateDomain`, `PluginGate`, `ToolGuard` | the gates: loads, tool calls, the command line, and the pure judgements they share | checked, proved |
| 8 | `VersionDiff`, `SharedStores`, `AuditLists` | capability and content baselines and scan summaries as files that two processes write, and the lists joined from them | checked, proved |
| 9 | `PatchFile`, `GuardSwitch`, `UpdateCheck`, `ShieldPanel` | the switch and its configuration file, the update check, the panel that polls | checked, proved |
| 10 | `OpClassify`, `Contracts`, `Projection`, `OpSink` | from an operation of a plugin to the rows about it and their colours | checked, proved |

**Composition.** `Sampling` extends `Sentinel`: the windows die with the
process.  `ScannerClient` extends `ScanEngine` (host and child processes) and
instantiates `ScanPromise`; `PluginGate` and `ToolGuard` use a scan only as
what that promise allows, and run beside each other (`ToolGuard` extends
`PluginGate`).  `AuditLists` extends `SharedStores`, which extends
`VersionDiff`.  `ShieldPanel` extends `GuardSwitch` (which extends `PatchFile`)
and `UpdateCheck`.  `OpSink` extends `OpClassify`, `Contracts` and
`Projection`.  Between the others the seams are sets of
inputs: what a hook records is a `RuntimeAlarm` of the board, `trusted` of the
hooks is `officialTrusted` of the load gate, where any name that may be
verified appears at any time.

**Abstract specifications.** Written: a request that is answered once, by a
failure or by a report about bytes the package had meanwhile (`ScanPromise`,
implemented by `ScannerClient`).  Worth stating later: a counting semaphore
with a queue for the slots of `OfficialTrust`; a bounded map with merging and
eviction for the board.

**Theorems.** Proved: section 5, every safety property and every action property
of the passing runs, and the refinement of `ScanPromise`.  Next: the other two
abstract specifications above, as refinements.  Liveness stays with TLC.

## 3. The modules and the code they model

`PROJECT.json` maps every definition to its lines.  What follows explains the
correspondence and the abstractions.

### 3.1 `VetStatus`: the board

| action | code |
|---|---|
| `RuntimeAlarm` | `emitAlarm` and `VetStatus.record` called by a runtime guard |
| `NoteVerdict` | `noteScan` with `anchorGroup`: stale rows of the package go, the verdict is recorded, the membership follows |
| `NoteClean` | `clearScanVerdict` |
| `Dismiss`, `Restore` | the handlers of the panel, with `persistentlyDismiss` and `restorePersistentDismissal` |
| `Snapshot` | `snapshot()`, which expires rows |
| `Tick`, `Restart` | time; the end of the process and the next start |

The array of the code is a set of rows with a field `pos`, its index; time is
the age of a row in units of one tick; messages and targets are left out.
`record` is one operator, `Recorded`, that follows the code's order: expire,
find the row of the group, merge within the window or replace, trim.  Every
action that calls `record` contains that whole effect, including the folds an
escalation removes in memory and on disk (`FoldsAfter`, `DiskAfter`).  A write
of the fold list succeeds or fails (`SaveOutcomes`).  `affected` is a history
variable: the advisory row the latest scan of a package put it on.

### 3.2 `OfficialTrust`: the load gate

| action | code |
|---|---|
| `Load` | the synchronous part of a load in `installInternalPluginGuard`: `classifyOfficial`, then on first sight or mismatch a chain that waits for the catalog |
| `RefreshDone` | `refreshOfficialCatalogFromRegistry` settles: any subset of what the registry lists, or a failure |
| `AfterRefresh`, `Resume` | the callbacks that run then: drop out, take a slot, or queue (`withVerifySlot`) |
| `Verified`, `Reconciled` | `verifyFirstSeenOfficial` and `reconcileMismatch` after the registry's answer, including marking, saving, trusting, leaving the slot and waking a waiter |
| `ScanTool` | `classifyTarget` of an audit scan, which records a baseline for what it scans |
| `Install`, `Restart` | other programs replacing the bytes; a new process with what it can read from disk |

The bytes of a package are one value, which stands for their hash too.  A
chain of callbacks is a record with a stage.  JavaScript runs a job to its end
and the microtasks it queued before anything else: actions that start a new
job require `Drained`, which says that no such microtask is left.  Requests to
the registry are shared (`inflight`), which `ahead` keeps: answers reach the
chains in the order they asked.  A save that succeeds is followed by a reading
of the file (`SaveAndReload`), and that reading, like the one at a start, may
fail: the code then holds an empty store (`Loaded`), and the next save writes
it over the file.  `refuted`, `proven` and `forgotten` (the keys whose record
was dropped that way, or by a restart after a failed write) are history
variables for the properties.

### 3.3 `Sentinel`: the watcher process

| action | code |
|---|---|
| `Install`, `InstallFails` | `installRuntimeGuard` in watch mode, from `apply()` or the panel's switch; the previous installation of the copy is disposed first |
| `Dispose`, `SwitchOff` | `disposeActiveGuard`; any other mode, which also stops a sentinel that another copy registered |
| `ExitEvent`, `Respawn`, `Slow`, `Recover` | the exit handler with `decideRespawn`, the five second timer, the three second quick-exit rule, the 30 minute window of the budget |
| `Start`, `Leave`, `Tick`, `PipeCloses` | `sidecarMain` in the child: read the parent, look for siblings, watch, end |
| `Terminate`, `Crash`, `Recycle`, `HostDeath`, `HostPidReused` | the system: signals take effect late, processes die, pids are reused |

The host runs several copies of the module (a hot reload, or two installs)
which share nothing but `DSH_VET_SIDECAR_PID` in the environment.  A process
that ended keeps its pid until the event loop delivers its exit event, as a
zombie does; `kill(pid, 0)` succeeds for it and its command line is empty.  A
stopped installation remains until its child and its timer are through, since
its handlers still run.

### 3.4 `RuntimeHooks`: wrappers, refusals, lures

| action | code |
|---|---|
| `Install`, `InstallFails`, `Dispose` | `installT2` and its disposers: `patchModule`, `patchNetworkModule` and the wrappers of fetch and dgram; the previous layer of the copy goes first; a function that cannot be replaced takes everything back |
| `Call` | one call of a patched function: every wrapper from the outermost on decides (`decideBlock`), reports, forwards and observes |
| `BodyRead` | the body of a request that was sent, read and searched for canaries later |
| `Heartbeat` | `hookHeartbeat` at its interval |
| `Wrap`, `Replace`, `Undo` | other plugins doing the same to the same function |
| `Trust`, `Tamper`, `LuresDeleted`, `Restart` | a verified package; `Error.prepareStackTrace` replaced or put back; lures deleted; a new process |

All patched functions are patched and restored together, so `slot`, the
sequence of layers a caller finds, stands for each of them.  A layer records
what it found when it was put there (`under`), as the closure does; the
disposer puts that back, whatever came on top since.  A call is one action in
closed form: nothing else runs during it, and `MarkedAt` accounts for the one
thing an outer layer changes for an inner one, a mark set by a report made on
the way down.  The operations of a call are the classes the decision tells
apart (`Ops`); paths, hosts and the ransom signature of the ledger are inputs.

### 3.5 `ExfilLedger`: signatures of theft and destruction

| action | code |
|---|---|
| `Observe` | `observeFs` and `observeNet` with everything they call: `prune`, the tokens, the windows, `exfilChecks`, `destroyChecks`, `spawnNetChecks` |
| `MarkSuspected` | `markSuspected`, called when a canary leaks |
| `Sweep` | `prune` run by an event of another plugin |
| `Tick`, `Restart` | time; the ledger lives in memory |

Plugins share nothing but that sweep, so the module follows one.  An array is
a set of entries numbered by arrival, which is what `splice` and `shift` see as
long as the clock does not go back.  A path is a value; a path in a build
directory is an event marked as noise; an encrypting rename is a kind of event
of its own.  The lazy pruning of `readTimes` beyond 256 paths is a choice: the
old reads may go or stay, and the properties may not notice.  `log` is a
history variable with every event of the process, and the properties compare
the alarms with it, never with the row.

### 3.6 `Sampling`: what the sentinel measures

| action | code |
|---|---|
| `SampleStep` | the tick of `sidecarMain`: `readProcSample`, `analyzeSample`, `sustainReached`, `detectGrowth`, and the lines it prints |
| `LifeStep` | a step of `Sentinel`; a new sentinel begins with empty windows |
| `Rest` | nothing more happens in a bounded world |

Time is counted in ticks since the sentinel started.  A reading is a record of
memory, children and descriptors, `-1` where the system could not be asked; a
tick that reads nothing passes without a sample.  `OverSince` is the streak
above the memory limit, which the code keeps as a time.  The parsing of `ps`,
`lsof` and `/proc` is an input.

### 3.7 `ScanCoverage`, `ScanEngine`, `ScannerClient`, `ScanPromise`: a scan

| action | code |
|---|---|
| `Call`, `Finish` | `acquireSlot`, spawn, timer, stdin; `finish` with the release of the slot and the pump of the queue, in one step |
| `StdinFails`, `Timeout`, `Response`, `CloseTwice`, `Close` | the handlers of one request, in any order |
| `CallSync`, `SyncReturns` | `scanSync`: no slot, and the host stands still |
| `ReadKey`, `WalkFile`, `WalkOver`, `WalkOverStored`, `WalkDone` | the scanner process: hash and cache look-up, the walk file by file against a budget, storing a full report |
| `OsvSkip`, `OsvStart`, `Query`, `DirectDone`, `RadarDone`, `Overrun` | the advisory phase, its budget, the radar behind it |
| `Exit`, `Break` | the answer is printed; the process crashes or hangs |
| `Edit`, `Foreign` | the package is edited; another host writes the shared cache |

A file is its kind and its content, the rules are the function `FileFindings`
from a file to classes of findings, and a kind of content makes a rule throw
(`Throws`).  The bytes of the package are one disk, since all calls of the
model scan the same package; that is where the cache, the slots and the edits
meet.  A dependency is whether it is the host's own, whether its version is
exact, and the advisories known of it; several may share one.  `Named` is the
loop over an answer: an advisory is named once, under the first dependency that
has it, and an answer names no more than `MaxNamed`.  `ScanCoverage` turns a
report into rows as `guard/coverage.ts` does.

`ScanPromise` has no processes, slots, budgets or cache: `Ask`, `Change`,
`Answer`.  An answer is a failure or a report that explains itself by one
state of the package since the request; the mapping (`Promise == INSTANCE
ScanPromise WITH ...`) reads the history of disks and the answers of
`ScannerClient`.

### 3.8 `GateDomain`, `PluginGate`, `ToolGuard`: the gates

| action | code |
|---|---|
| `LoadLocal`, `RefuseUnaudited`, `Begin` | the load handler of `installInternalPluginGuard` up to the first await: paths, the audit gate, the class of the package |
| `Snapshot`, `FinishFailed`, `FinishDrifted`, `FinishJudged` | the snapshot, the scan and `finish()`: in deny mode before the load, in report mode after it |
| `RunGate` | one run of the command line gate |
| `Arrive`, `Scanned`, `Forward`, `Block` | the tool guard: the call comes, each payload is scanned behind an await, the tool runs or a receipt is written |
| `Rewrite`, `FileAudit`, `Reconfigure` | files, audit records and settings change meanwhile |

`GateDomain` holds the operators without state, each translated from one
function: qualification by audit records, severity, decision, receipts,
comparison of snapshots, posture.  The bytes of a package are one value; its
verdict is that value too (a content named "critical" is one a scan calls
critical).  A scan is `ScanPromise`: `ReportsOf` says what it may answer.  The
settings are read where the code reads them: the mode once when the load or
call arrives, the snapshot and the digest at different moments.

### 3.9 `VersionDiff`, `SharedStores`, `AuditLists`: files that two processes write

| action | code |
|---|---|
| `LoadCaps`, `SaveCaps` | the two halves of `recordScan`: read and compare; add, prune, write, tell |
| `Show` | `vet_diff`, `vet_label` |
| `ReadBase`, `SeePackage`, `Mark`, `Reload` | `getBaseline`, first sight, `setRecordSuspected` and the reload behind it |
| `Upgrade`, `Edit`, `Restart` | the package is upgraded; somebody edits or removes a file; a process ends |

A read or a write may fail (`fault`).  The code takes a failed read for an
empty store and does not notice a failed write.  A file is its records and its
stamp; `Noted` and `Rewrite` are what `store-stamp.ts` makes of bytes that are
not one's own.  A manifest is the set of what it names, one name for each
kind.  `saved`, `lost` and `touch` are history variables: what ever reached
the disk, what left it, and who touched a file since a process wrote it.

`AuditLists` adds the summaries file and the lists the panel makes of it:

| action | code |
|---|---|
| `NoteScan`, `SaveSummary` | the two halves of `recordScanSummary`, called at the end of a scan at load (`finish()`) or by the gate (`noteGateSummary`) |
| `Record`, `EndRecord`, `SkipRecord` | the rest of `finish()`: `recordVersionScan`, or nothing for a package without files and manifest |
| `Install`, `Stop`, `EditCaps` | the steps of `SharedStores` between which a scan may stand |

`Seen` and `Shown` are `buildAuditSummary` for one plugin: its record taken
from capabilities and summary, its place in the list of pending audits with the
reason, and whether it counts as new.  The audit archive is the set of versions
that have a file (`Audited`).  `last` (the finding put on file last) and
`spoiled` (something failed, or somebody wrote in between) are history
variables.

### 3.10 `PatchFile`, `GuardSwitch`, `UpdateCheck`, `ShieldPanel`: the switch and the panel

| action | code |
|---|---|
| `Refuse`, `Unread`, `Declined`, `Already`, `Invalid` | the early answers of a toggle or tier request: an unfit request, an unreadable file, a cut document, a file that says so already, a result that does not parse |
| `Begin`, `Commit`, `WriteFails` | a request that rewrites: read and plan, rename the new file into place or fail, take effect at once (`applyRuntimeGuardImmediate`), answer |
| `Save` | the user's editor, also between the read and the rename |
| `Apply`, `RegisterRoute`, `Dispose`, `Crash` | a start of the plugin in its two steps, its end, the end of the process |
| `MaybeCheckForUpdate`, `AnswerArrives`, `FailedFreely`, `UpdateRestart`, `Publish`, `ClockMoves` | one question a day; the answer, its loss, the file |
| `Poll`, `Serve`, `Show`, `Click`, `Told`, `PostElsewhere`, `Reload` | the page: a poll leaves, is answered, arrives; a button; another page |
| `CountersLoad`, `HostGoes` | `stats.ts` at the first answer after a start |

`PatchFile` has the line surgery of `status-route.ts` on documents that are
lists of entries, with the differences the code sees: vet's entry as a block,
inline or bare; entries with a tag the strict reader refuses; a document cut by
dashes, or not parsable.  The operators keep the code's order of attempts:
splice a line, else parse and dump, else the rebuilt file.  `Reconstructed`
puts the switched key into a config that was parsed; when nothing could be
parsed, `Rescued` says what is written: the guard, or `config: {}` in place of
a tier.  Texts, indentation and
comments are not modelled.  Versions of dsh are sets in the update check, and
the host is in report mode.

### 3.11 `OpClassify`, `Contracts`, `Projection`, `OpSink`: from an operation to its rows

| action | code |
|---|---|
| `Call` | a wrapper of `runtime-patch.ts` or `runtime-net.ts` around one operation: classify, attribute, explain, refuse, report, watch the body for canaries; and what `runtime-sink.ts` does with the report |
| `EditContract`, `ScanFiles` | the contract file and the manifest of the code change |
| `Verify`, `Tamper` | a package is verified; a plugin replaces the stack hooks |

A path is the sequence of its segments and a segment is the token of its class
of names ("secret", "rm", "lock"), so that the tests on paths are tests on
sequences; a command is the set of its words.  `Harm` is a definition of its
own, written from what the user loses, so that the properties do not repeat
the classification they judge.  A row passes through `Emitted`, which is
`emitAlarm` with the registry of `domain/kinds.ts`: of most codes the registry
decides the colour, of some the detector, and `OutputMode` is the setting that
turns the registry off.

## 4. Runs, bounds and fairness

| run | what it asks | bounds and why they are enough |
|---|---|---|
| `board` | is red protected, are folds and escalations right, advisory members exact | three groups over a board of two rows, so that every third group overflows it; one advisory shared by two packages and one verdict of a package alone; an alarm that may be yellow or red; a window and a time to live of one tick, so that a row passes through "merges", "is replaced" and "is gone"; a fold list of one name, so that pruning happens; writes may fail |
| `trust` | who is trusted, and do marks stay | a listed and an unlisted package, official and other bytes of one version, two chains, one slot, failing writes, readings of the baseline that fail after a save or at a start, restarts, one acknowledged hash.  What follows after the records of both packages were dropped is left out (`NotAllDropped`): the properties promise nothing of a dropped record, and such records only become more |
| `trust_queue` | is everybody who queues for a slot served | one package with three versions and four chains for one slot: a queue of three, two chains that share a request |
| `sentinel` | one watcher, off means off, losses reported, the guard served; what is measured is what is told | two worlds.  In one nothing is measured: two copies, two installations and two pids at a time, so that a takeover meets a predecessor that is still ending; a budget of one restart and one fault (crash or failed spawn), so that the budget runs out; pids may be reused; the host may die.  In the other the guard was just switched on, one thing happens to it, and five ticks pass: a warm-up of one, memory that must stay high for two, a growth window of two, so that each boundary has a sample on both sides |
| `hooks` | is who was found destructive stopped and nobody else, and does a guard whose wrapper is gone say so | two copies and two layers at a time: each copy above and below the other, a foreign patch above, below or instead, a disposed layer that comes back; one plugin, which may also be verified, beside the host; family 3 and 4 set to block, so that every reason to refuse occurs; one generation of lures |
| `ledger` | is every alarm backed by what happened, and does what meets a threshold, in counts or in order, raise one (`AttacksSeen`) | four events among nine, six ticks: windows of one and two ticks and a time to live of four, so that an entry passes through every window and a row through its end; thresholds of two, one for a suspect, so that every signature, ransom included, is reached; arrays of two entries, so that they overflow; two hosts, one never named by a tool |
| `scan` | slots, cache, advisories, the promise, and an answer for everyone | two calls that want the one slot, one with the radar and one with advisories alone, and a synchronous call beside them; one package of two files, the first built output, the second edited to a text on which a rule throws; a report of this host, of another, and none in the cache; two targets to ask about, the package and an exact dependency, which share one of two advisories; beside them a dependency of the host's own, one with a range and one past the limit of two, whose advisories count for nothing; an answer names two, so that it is just full |
| `guards` | what deny mode lets pass, what is covered, what receipts say, which mode decides | three worlds: two overlapping tool calls (one with two payloads) beside one load; three loads without calls: a third-party plugin, an official package of the same last name, a path; and that plugin beside one without a directory.  The plugin is rewritten up to twice, so that it may be changed for good, or changed and put back between two looks at it.  The settings alternate between report and deny with audits required |
| `stores` | upgrades compared with the right version, no record lost without a reason, rewrites told as what they were, the panel's lists in step with the last scan | two processes built with different rules; four versions (gaining, exchanging and losing capabilities, the last unreadable), one audited; two records and one summary kept, so that pruning happens; nine scenarios bound scans, gate runs, baseline steps, faults, edits and restarts so that each kind of trouble meets as many scans as fit.  The stores do not depend on the summaries, so five scenarios leave the summaries out and four the baseline and the panel's history |
| `audit_doubt` | does a suspicious plugin stand out among the pending audits | the same; expected violation, section 6 |
| `panel` | off means off, the entries of others, answers, the order of the page, one question a day | documents of every kind (absent, empty, cut, broken with and without others, vet's entry in each form); five worlds bound posts, polls, saves, faults, starts, days and events: two posts with a save and a fault between; restarts; three polls that overtake each other; three days |
| `sink` | is nothing an unverified plugin destroys hidden by an exemption, is a false contract called so | a third-party plugin and an official one that share a contract file; 40 operations, one or two for each exemption and each order of tests; five steps, so that a contract, its contradiction, its repair and the row about it fit |

Bounds that exist in the model only: `MaxCount` caps the report counter of a
row (the code never compares it), `Tasks` the number of chains open at once,
`MaxFaults` the crashes and failed spawns of one behaviour, `Insts` and `Pids`
the installations and pids that exist at a time, `Worlds` the moves and ticks
of a measured sentinel, `Layers` the wrappers and
`MaxLures` the generations of lures, `MaxEvents` and
`MaxTime` the events and ticks of one ledger, `Calls` and `Execs` the requests
and tool calls, `MaxEdits` the replacements of bytes, `Scenarios` and the
`left` of a panel's world what may happen in one behaviour, `MaxClock` the
days and `MaxSteps` the steps of `sink`.  `AlarmMax`, `Window`, `Ttl`,
`DismissedMax`, `MaxActive`, `Budget`, `MaxConcurrent`, `MaxDirectDeps`,
`MaxNamed`, `MaxKept`, `MostKept`, `NewFor` and the limits of the sentinel are constants of
the code with small values.

Deadlock is checked in `board`, `trust`, `trust_queue`, `sentinel`, `hooks`
and `ledger`: in these systems something can always happen (a scan, a load, a
call, a restart; when the host is dead, its pid may still pass to another
process and back; `Rest` says that a bounded world of `Sampling` is over).  It
is off in `scan`, `guards`, `stores`, `audit_doubt`, `panel` and `sink`,
whose calls, scenarios and steps are finite: when the last call is answered or the
bound is used up, the behaviour is over.  That no call of `scan` is stuck before that is
its liveness property.

`TypeOK` is stated in the modules with state and proved for `VetStatus`,
`OfficialTrust`, `Sentinel`, `RuntimeHooks`, `ExfilLedger`, `ScannerClient`,
`PluginGate` with `ToolGuard`, `ShieldPanel`, `OpSink` (`SinkTypeOK`) and, as
`StoresType` and `ListsType`, `SharedStores` and `AuditLists`; the standing runs check the
other properties.

**Fairness.**  Safety runs need none.  In `trust_queue`, `Fairness` says that the
callbacks of a settled promise run and that every registry check settles: each
fetch and each `tar` of a check has a time-out in the code.  Loads, refreshes
and restarts are not forced.  In `sentinel`, `SamplingSpec` takes the fairness
of `Sentinel`: a
started process runs, a signal arrives, the sentinel's own interval timer fires, and
that the event loop delivers exits and timers.  A user, a fault, the clock
window of the budget, the closing of the pipe and the measuring are not forced.  In `hooks`,
`FairSpec` says that the heartbeat's interval timer fires.  In `scan`,
`FairSpec` says that a request's timer fires and that a synchronous scan
returns at the latest with its own time-out.  Nothing is asked of the engine,
which may hang for ever, nor of the end of a killed process.

What the liveness properties show: every queued verification gets its turn; a
guard that is on and alone gets a watching sentinel, also when the new one has
to stand down for a dying predecessor first; a sentinel that watched a host
ends when the host does; every scan that was asked for is answered, also when
its process hangs and others wait for its slot.

## 5. What is proved

Proofs are in `VetStatusProofs`, `GuardProofs` (about `OfficialTrust`,
`PluginGate` and `ToolGuard`), `SentinelProofs` (also about `Sampling`),
`RuntimeHooksProofs`, `ExfilLedgerProofs`, `ScannerClientProofs` (also about
`ScanEngine`, and the refinement of `ScanPromise`), `PanelProofs` (about
`ShieldPanel` with `PatchFile`, `GuardSwitch` and `UpdateCheck`, and about
`OpSink` with `OpClassify`, `Contracts` and `Projection`) and `StoresProofs`
(about `SharedStores`, with `VersionDiff`, and `AuditLists`).
They hold for all sets of alarms, packages, contents, copies, layers, pids,
chains, calls, plugins, documents and readings and for all limits that satisfy
the assumptions of the modules, which TLC evaluates on every run.  What these
assume, beyond types and limits that are not zero:

- `BoardAssumption`: the value that stands for "no advisory" is no id.
- `SamplingAssumption`: a reading has a resident size; there are a copy, an
  installation and a pid, as a guard that is on needs them.
- `LedgerAssumption`: thresholds, also those of a suspect
  (`exfil-ledger.ts:304`), are within the cap of 2048 entries, and every window
  is shorter than the time after which an idle row goes.  Above the cap an
  array could never hold what its threshold counts.
- `StoresAssumption`, `ListsAssumption`: the value that stands for no host is
  no host, there is a first version, and verdicts are of the three kinds of
  `scanner/protocol.ts:9`.
- `SinkAssumption`: an operation is one of the file system, of processes or of
  the network, and an official name is the name of a plugin.
- `GateAssumption`, `ToolAssumption`: a plugin has bytes at the start, and the
  settings are those `config.ts` accepts; a payload is a sequence of verdicts.
- `WorldsAssumption`: a document holds at most one entry of vet.  The code
  rewrites the first it finds and leaves a second where it is, so what a start
  makes of two is not what the switch said.
- `ClockAssumption`: a day has a length, and the clock begins at zero or later.

Two theorems carry a condition in their statement.  `CacheIsFaithful` and
`PromiseIsKept` assume `~Torn`: the scanner reads each file twice, once for the
key of the cache and once for the rules, and a package that is edited between
the two gets a report that mixes both and is stored under the old key (section
6).  The run `scan` is made under the same condition; the other properties of
the client are proved without it.

| theorem | says | argument |
|---|---|---|
| `BoardInvariant` | `IInv` is inductive | types; positions number the rows from 0 (so that "the oldest" exists and trimming removes exactly one); one row per group; at most `AlarmMax` rows |
| `BoardTypeCorrect`, `BoardStaysBounded` | `TypeOK`, `BoardBounded` | parts of `IInv` |
| `RedRowsProtected` | `RedOutlivesNoise` | one lemma per helper of `record` says which rows it may remove; trimming needs the numbering |
| `FoldsStick`, `EscalationsResurface` | `FoldSticks`, `EscalationResurfaces` | every report is one of three kinds of step (`ReportStep`, `StillStep` or nothing): it records one row, the others come from rows of their own group with no other colour (`CameFrom`), and the folds change for the recorded group alone and only when it turns red |
| `AdvisoryRowsMatch` | `RowsMatchScans` | the invariant relates each advisory row to the latest scans of the packages and to the swept members (`MatchAt`, `SweptMembers`): a scan takes its package off every other row before it joins one |
| `TrustInvariant` | `TrustInv` is inductive | types; the queue lists exactly the waiting chains; a record exists for every chain at the registry; a denial is on file unless its record was dropped by a restart or a failed reading; what is proved is trusted; trust has evidence |
| `TrustTypeCorrect`, `SlotsAreKept`, `TrustHasEvidence`, `DeniedBytesStayOut`, `MarksStick` | `TrustTypeOK`, `SlotsKept`, `TrustNeedsEvidence`, `RefutedStayOut`, `MarkSticks` | a step that saves and reloads either holds what it wrote or counts every lost record among the forgotten, so a denial or a mark that is gone without a confirmation is of a forgotten record.  `SlotsKept` is not inductive alone: that one job drains before the next (`OneDrain`) is what keeps two chains from being woken into one slot |
| `SentinelInvariant` | `SentinelInv` is inductive | types; one watcher; a running sentinel that was not told to end is the registered one (`Registered`) and the child of a live installation (`Owned`); an unattended installation has said so (`ToldEarly`) |
| `SentinelTypeCorrect`, `OneSentinelWatches`, `SwitchedOffMeansOff`, `LostSentinelIsReported` | `TypeOK`, `OneWatcher`, `OffIsOff`, `LossIsVisible` | `OffIsOff` follows from `Owned`: without a live installation nothing owns a running sentinel, so each was told |
| `AlarmsWereMeasured` | `AlarmsAreMeasured` | the log says what the sampler remembers (`Knows`): where the run of high samples at its end begins, that the window is its end from the first sample inside on (found by the well-foundedness of the naturals), what was told since memory last fell.  One lemma per variable says how it grows with one sample |
| `SamplingIsSafe` | the invariants of `Sentinel` under `SamplingSpec` | sampling leaves the process table alone, and a guard that was just switched on satisfies `SentinelInv` |
| `HooksType`, `HooksConfirmedIsStopped`, `HooksNoFalseIntercept` | `TypeOK`, `ConfirmedIsStopped`, `NoFalseIntercept` | the invariant adds that an installed layer belongs to its copy (`OwnLayers`), which the collection of unreachable layers and every restore must keep, and that marks are exactly the findings.  A call that some layer would stop is stopped by the first that would: the one place where the well-foundedness of the naturals is needed |
| `LedgerInvariant` | `LedgerInv` is inductive | arrays within the cap, their entries numbered differently (`Array`); every time and host entry of a row goes back to an event of the log (`Origin`); an alarm to what the row remembers (`Justified`) |
| `LedgerType`, `LedgerSequenceIsReal` | `TypeOK`, `SequenceIsReal` | the cap holds after a push because all but the oldest kept entry are newer than it, and the oldest is kept only if fewer than `Cap` are |
| `BackingInvariant`, `LedgerDestructionIsReal` | `DestructionIsReal` | every entry stands on an event of the log (`Grounded`); a counted path is counted again only after the window (`Apart`); an alarm is read off arrays that were just swept (`Fresh`).  So the entries of an array are different events of the window, or on different paths.  For bytes this needs a theory of sums over sets: they exist, any element may be taken first, they grow with the set and do not depend on names; each from a smallest counterexample |
| `KeptInvariant`, `LedgerAttacksSeen` | `AttacksSeen` | the latest `Cap` events of a kind have their entries while they are in the window (`Keeps`): a push loses an entry only for `Cap` newer ones; a row goes only when its last event is out of every window; time, noise and other events take nothing.  If enough events are in the window, enough of them are among the latest `Cap`, as the log is in the order of time and thresholds are within the cap (`HeldEnough`) |
| `ClientInvariant` | `ClientInv` is inductive | types; a call, its process, its slot and its answer are in step (`Lifecycle`); the holders of slots are as many as the counter says, and the queue lists the waiting calls once (`SlotInv`) |
| `SlotsAreExact`, `AdvisoriesAreKept` | `SlotsExact`, `AdvisoriesKept` | releasing and pumping in one step keeps the holders as many as they were or one fewer; a look-up with an answer to every query has seen every advisory known of what it asked about, or as many as an answer has room for, whichever dependencies share them (`LookupsAddUp`); a report claims the surface only then |
| `CacheIsFaithful`, `PromiseIsKept` | `CacheFaithful`, `Promised` | under `~Torn` a walk has found what the rules find in the files it passed, as they are (`WalksTrue`), and a report under way is explained by bytes its caller may expect (`ReportsTrue`), also one that came from the cache; initial states map to initial states, and each action to `Ask`, `Change`, `Answer` or a stutter of `ScanPromise` |
| `Invariant`, `TypeCorrect` | `Inv` is inductive, `TypeOK` | `GateInv` of the loads and `ToolInv` of the calls: what each keeps of the settings it came under, and the step it is at |
| `DenyModeHolds`, `CoverageIsEarned` | `DenyHolds`, `CoverIsEarned` | `Fresh`: if the two snapshots agree and nothing was put back, the scan has read the bytes the package now holds and nothing else, so `finish()` judges what it lets load; who is named for a failed scan was judged and covers nothing (`FailureShown`) |
| `ReceiptsAreTrue`, `ModeHasDecided` | `ReceiptsTrue`, `ModeDecides` | numbers are given in order and never twice; what a call has found so far is at least the worst of the payloads it passed (`Weighed`) |
| `ShieldInvariant`, `ShieldTypeCorrect` | `ShieldInv` is inductive, `TypeOK` | one invariant for the switch, one for the question, one for the page |
| `SwitchedOffIsOff`, `AnswersHold` | `OffMeansOff`, `AnswerHolds` | `SoundWrite`: a write under way holds a document, keeps what it must of the one it read, and a start makes of that document the guard that goes with the answer, and the tier of the answer unless the file was rescued; so the switch, which applies the guard at once, and the next start agree on it |
| `OthersAreKept` | `OthersKept` | one lemma per attempt of the surgery (splice, reparse, rebuild): it takes vet's entry out and puts one in (`RemoveAt`), so that the entries of others are the same sequence |
| `NewestIsShown`, `RegistryAskedOnceADay` | `NewestShown`, `AskedOnceADay` | polls are numbered (`PollsDiffer`) and an answer is shown only if its poll is newer (`NewestIsNewer`); unless a mark was lost, memory and file both hold the last question (`Recent`) |
| `StoresInvariant` | `StoresInv` is inductive | types; saved records are dated apart, those on the disk were saved, those saved and not lost are on the disk, and each scan in flight was compared with the latest it could see (`RecordsInv`); who wrote or edited each file since its host did (`TamperInv`) |
| `UpgradesAreTold`, `TamperIsNamed` | `UpgradeTold`, `TamperNamed` | `Compared` stays true while time passes, since what is saved later has a later date (`ComparedLater`); a note of a process names exactly the hands that touched the file between its own write and its reading (`Trace`) |
| `HistoryIsKept` | `HistoryKept` | what pruning removes is older than the `MaxKept` records it keeps: the records newer than a kept one are counted, and fewer than `MaxKept` (`NewestStayed`) |
| `AllInvariant`, `ListsAreRight` | `ListsFollowScans` | a job in progress is of the installed version; a summary of the plugin is the last finding, and newer than every capability record or of the same version (`Onward`); it leaves the file only for one other package, when one is all that is kept (`OtherLeavesRoom`) |
| `HarmIsNotHidden` | `PluginNotHidden` | what is precious is sensitive (`PreciousIsSensitive`), so one of the tests of the classification is met, whatever comes first (`FsAlarm`), and each that can be met is worth a row of the colour asked for (`TestsAre`); then, with honest hooks, no exemption is for a plugin that is not verified, and with replaced hooks the replacement is told in red |
| `DistrustIsTold` | `DistrustTold` | whoever is remembered as told was told (`DistrustInv`) |
| `SinkTypeCorrect` | `SinkTypeOK` | only plugins get into the sink's memories: rows for nobody are of the detectors' kinds (`AlarmsAreDetected`) |

Attempts that failed for a reason changed the models three times: in `Noted`
of the ledger, `PickAction` of `GateDomain` and `SpecFor` of `Projection` two
cases of a `CASE` overlapped, which leaves the choice open where the code tries
one after the other; the cases are now disjoint, in the code's order.

Only model-checked: the liveness properties (`VerificationServed`,
`GuardServed`, `WatcherFollowsHost`, `StrippedIsReported`, `EveryoneAnswered`),
which are out of the prover's reach.  Every other property of a passing run is
stated by a theorem.

## 6. Disagreements between the code and what it says

One is a run that TLC must find violated, and the entry under `findings`:

- `audit_doubt`: `buildAuditSummary` takes in the capability records first and
  a scan summary only when it is newer (`audit-summary.ts:125`), but a scan at
  load writes its summary before its capability record
  (`internal-plugin.ts:879`, :923) and renews that record every time.  So the
  verdict of such a scan is never taken in: a suspicious or critical plugin is
  listed with the ordinary reason, although :127 says that the verdict follows
  the latest news and :164 that those reasons stand out.

The others were met while modelling.  The models contain the behaviour, and
the properties are stated so that they say what the code does keep; the notes of
the hazards in `PROJECT.json` give the places.

*Board and trust.*
- The count of an advisory row is said to be the number of packages still
  affected (`status.ts:280`, :335); a package whose next scan moves it to
  another verdict leaves the row and stays in the count (:287).
- A second load of the same bytes before the registry answers is a plain match
  and trusts the name (`internal-plugin.ts:249`); the denial that follows marks
  the record and does not withdraw the name.
- A denied mismatch marks the record that holds the official hash (:383);
  reinstalling the official bytes matches it, starts no check, and the mark,
  which was to end when the bytes are official again (:220), stays.
- A reading of `content-baseline.json` that fails is an empty store
  (`content-baseline.ts:256-259`), also in the reload behind a successful save
  (:230), and the next save writes that over the file.  Bytes the registry
  denied are then seen for the first time again and a second load trusts them;
  marks vanish without a confirmation, although `internal-plugin.ts:420` says
  that they must stick and the comment of `setRecordSuspected`
  (`content-baseline.ts:218-222`) thinks of failed writes alone.

*Runtime guards.*
- A host that dies while its sentinel starts leaves a sentinel that takes the
  adopting process for its host (`runtime-watch.ts:337`).
- Growth alarms are not held back by the warm-up (`runtime-watch.ts:413`,
  against :38-41); "continuously" spans samples that could not be read.
- A lure that exists is not written again and its canary, which lives in
  memory, not registered again (`honeypot.ts:67`): after a restart a leaked
  lure goes unseen.
- The yellow exfiltration alarm is said not to stay lit, but the check compares
  the read with the send and never with the present (`exfil-ledger.ts:486`).
- An unattributed write to a persistence or install target is silent while one
  to a less precious path is yellow (`runtime-sink.ts:165`); so is an
  unattributed rename from a staging path onto a sensitive file.
- `forensics.ts` says that touched lures and ransom arm it; the sink arms it
  for canary leaks only (`runtime-sink.ts:277`), and `arm` does not try again
  when it failed (found by reading; forensics is not modelled).
- `contract.ts:10` says that a violation is yellow; the sink emits info (:200).
- A shell's words are looked for in the first 200 characters only.

*Scans and gates.*
- With the transitive radar the advisory phase is called "ran" before the
  radar starts, and the hard time-out drops the direct findings too
  (`engine.ts:885`, :999, against `protocol.ts:190-196`).
- `deps_transitive` is covered whenever it was asked for (`coverage.ts:178`),
  though the load gate never asks the scanner for it
  (`internal-plugin.ts:1009`); absent statistics count as covered
  (`coverage.ts:270`).
- An advisory that several dependencies share is named once, under the first
  (`engine.ts:945`), and no more than ten are named (:950), while `intel_osv`
  counts as covered: which other dependency has it is not told.
- The files are hashed for the cache and read again in the walk
  (`engine.ts:565`, :607): an edit between the two stores a mixture under the old key.
- One rule that throws fails the whole scan; the walk ends at the first file
  it had to skip for the budget.
- The arguments of a tool are scanned before an await and used after it.
- A summary of `@foo/bar` is filed under `bar` (`scan-plugin.ts:231`), and a
  changed result with the same verdict is not written again.
- The audit digest, the snapshot and the scan read the bytes at different
  moments (`internal-plugin.ts:519`, :1023); replaced and put back (`returned` in
  `PluginGate`; `detectDrift` compares two moments, `snapshot.ts:150`), or outside the
  snapshot (`snapshot.ts:28`), they are not noticed.  Without scannable files, or with
  `autoScan` off, deny mode loads unscanned.  Two names may share an archive file
  (`archive.ts:75`).

*Stores and panel.*
- An entry with a tag that js-yaml does not know makes the strict parse of a
  well-formed file fail; with an inline config of vet in it the switch then
  writes a file that holds vet alone (`status-route.ts:112`), although the
  comment at :640 says that other entries are kept and :93-101 keeps that path
  for broken syntax.
- `recordScan` renews the time of a record at every scan and a summary is
  rewritten when the rules change, so the first sight of a plugin
  (`audit-summary.ts:124`) moves and an old plugin without an audit counts as
  new within 72 hours again (:161, against :20); two processes that save
  summaries at once lose one.
- `recordScan` is a read and a write that another process may come between; a
  failed read is an empty store and is written back; the counters are called
  saved when they were not (`stats.ts:184`), and a failed first read is shown
  as zeros.
- One rewrite is told per scan; an edit after another vet's write is taken for
  that vet's.  An edit of `baseline.json` from outside is told only at a
  reload, which follows a mark.
- With an inline config, switching off answers ok and leaves the file as it
  was, and enabling lowers `paranoid` to `hardened`, against
  `status-route.ts:542`; switching off answers ok when the file cannot be
  read (:557).
- With an inline config in a file that does not parse, a tier is written as
  `config: {}` (`status-route.ts:125-143`): the answer names the tier, and the
  next start reads "standard", with the guard on.  The rebuilt file also drops
  what vet's entry has beside its config (:143), which `more` of `PatchFile`,
  the other keys of that config, does not tell apart.
- A tier is two lines, and the refusal of the second is ignored (:665); the
  temporary file has no pid (:382); a read, a change and a rename may overwrite a
  user's save; comments between vet's block and the next entry are deleted
  (:294); the page never clears its own tier (`Shield.tsx:366`).
- A switch from watch to watch that fails leaves the configuration at watch
  with nothing installed (`runtime-guard.ts:730`).
- Answers slower than the polling interval are all dropped and the page stands
  still (`Shield.tsx:171`).

## 7. Not modelled

`PROJECT.json` lists every part with its status.  Out of scope for good: the
rules of the scanner and stack parsing (string matching; they
become functions of a file, and inputs such as "this call is attributed to that
plugin"), rendering, texts and markup, host metrics, the generated catalog
seed, build and release scripts, the file-system walk that lists what to scan,
path helpers, the reports and the static self scan.

Left out of the modules above: the LRU of coverage subjects on the board, the
migration of old fold names and a fold list that cannot be read later than at
start; the drift record of third-party packages beyond first sight; platforms
without a sentinel and unreadable process tables; a clock that is set back, and
the search for keys in texts, in the ledger; scores and extracted capabilities
of a scan, the shape check of a cached report; scores and texts of a summary, and
the order of the lists made from them; the validation of domain records, and of
their projections all but that of alarms; the difference of configurations before and after a
change; the copies of evidence that forensics keeps; the building of scan requests; the check of the peer of a request; the
update check of a host in deny mode (nothing is asked there).
