---------------------------- MODULE OfficialTrust ----------------------------
(***************************************************************************)
(* How a package named @deepseek-ai/* comes to be trusted: the load gate   *)
(* (guards/internal-plugin.ts), the content baseline it keeps on disk      *)
(* (guards/content-baseline.ts), the catalog of official names             *)
(* (guards/official-catalog.ts), the registry checks that run behind the   *)
(* load (guards/registry-verify.ts) and the trust anchor that silences the *)
(* runtime guards (guard/runtime-attrib.ts).                               *)
(*                                                                         *)
(* A load decides at once from the baseline; what it cannot decide it      *)
(* leaves to a chain of callbacks: wait for the catalog refresh, wait for  *)
(* one of MaxActive slots, ask the registry, act on the answer.  Loads,    *)
(* answers, replaced bytes and restarts interleave.  Callbacks queued by a *)
(* finished promise run before the next load (one thread, run to           *)
(* completion): Drained.                                                   *)
(*                                                                         *)
(* A package's bytes are one member of Contents, and so is their hash.     *)
(* Alarms, scanning, blocking and the allowlist are left out: they read    *)
(* this state and do not change it.                                        *)
(***************************************************************************)
EXTENDS Naturals, Sequences, FiniteSets

CONSTANTS
    Pkgs,         \* packages under the official scope
    Contents,     \* what may be installed under a package's name
    Versions,
    VersionOf,    \* [Contents -> Versions]: the version the bytes declare
    Genuine,      \* the contents the registry serves for their version
    Seed,         \* names in the shipped catalog
    Published,    \* names the registry's scope search may return
    Acked,        \* acknowledged-package-hashes: <<package, content>>
    Online,       \* TRUE in report mode; deny mode starts no network check
    Tasks,        \* names of callback chains; bounds how many are open
    MaxActive,    \* VERIFY_MAX_CONCURRENCY, 4
    SaveOutcomes, \* what writing the baseline or the catalog may return
    LoadOutcomes  \* whether reading the baseline may succeed or fail

Keys == Pkgs \X Versions

ASSUME TrustAssumption ==
    /\ VersionOf \in [Contents -> Versions]
    /\ Genuine \subseteq Contents
    /\ \A c, d \in Genuine : VersionOf[c] = VersionOf[d] => c = d  \* npm: immutable
    /\ "none" \notin Contents
    /\ Seed \subseteq Pkgs /\ Published \subseteq Pkgs
    /\ Acked \subseteq Pkgs \X Contents
    /\ Online \in BOOLEAN
    /\ SaveOutcomes \subseteq BOOLEAN /\ LoadOutcomes \subseteq BOOLEAN
    /\ IsFiniteSet(Tasks)
    /\ MaxActive \in Nat \ {0}

VARIABLES
    installed,   \* package -> the content on disk
    store,       \* baselineCache: key -> record
    saved,       \* content-baseline.json
    trusted,     \* officialTrusted: names whose alarms are silenced
    catalog,     \* catalogCache
    overlay,     \* official-catalog.json
    refreshing,  \* refreshInflight is set
    task,        \* callback chains
    waiters,     \* verifyWaiters
    active,      \* verifyActive
    ahead,       \* chain -> chains whose registry request it shares (inflight)
                 \*   and that asked before it
    refuted,     \* history: <<package, content>> the registry has denied
    proven,      \* history: names the registry confirmed in this process
    forgotten    \* history: keys whose latest record a restart or a failed
                 \*   reading of the baseline dropped

baseline == <<store, saved>>
names    == <<catalog, overlay, refreshing>>
chains   == <<task, waiters, active, ahead>>
history  == <<refuted, proven, forgotten>>
trustVars == <<installed, baseline, trusted, names, chains, history>>

NoRecord == [hash |-> "none", suspected |-> FALSE]
Record   == [hash : Contents, suspected : BOOLEAN]

\* asking: for the catalog; ready: its answer is in; waiting: for a slot;
\* woken: given a slot; verifying, reconciling: at the registry.
Stage  == {"asking", "ready", "waiting", "woken", "verifying", "reconciling"}
NoTask == [stage |-> "idle"]
Task   == [stage : Stage, pkg : Pkgs, hash : Contents]

At(s) == {t \in Tasks : task[t].stage = s}

\* No callback of a settled promise is left to run.  Chains that share one
\* registry answer run one after another, so a chain may be woken in between.
Drained == At("ready") = {} /\ At("woken") = {}

Key(p, c)   == <<p, VersionOf[c]>>
KeyOf(t)    == Key(task[t].pkg, task[t].hash)
IsAcked(p, c) == <<p, c>> \in Acked

\* saveBaseline: the whole store, or nothing.
Save(ok) == saved' = IF ok THEN store' ELSE saved

\* loadBaseline: a file that is missing, cannot be read or is no JSON is an
\* empty store.
Loaded(file, read) == IF read THEN file ELSE [k \in Keys |-> NoRecord]

\* What was held and is not what was loaded is forgotten; the next save writes
\* that over the file.
Drops(held) == forgotten' = forgotten \cup {k \in Keys : store'[k] # held[k]}

\* A save that succeeds is followed by a reading of the file (refreshBaseline).
SaveAndReload(new, ok, read) ==
    /\ saved' = IF ok THEN new ELSE saved
    /\ store' = IF ok THEN Loaded(new, read) ELSE new
    /\ Drops(new)

-----------------------------------------------------------------------------
(* verifyAgainstRegistry: one request at a time serves every chain that    *)
(* asks for the same version; they get its answer in the order they asked. *)
(* (A chain here may get another answer than the one before it, as if it   *)
(* had asked a moment later.)                                              *)

AskRegistry(t, k) ==
    ahead' = [ahead EXCEPT ![t] = {u \in At("verifying") \cup At("reconciling") : KeyOf(u) = k}]

Answered(t) == ahead[t] = {} /\ At("ready") = {}

Forget(t) == ahead' = [u \in Tasks |-> ahead[u] \ {t}]

-----------------------------------------------------------------------------
(* The slots of withVerifySlot.                                            *)

\* A chain asks for a slot: it queues, or counts itself in and asks the
\* registry.
Enter(t, p, c) ==
    LET chain(s) == [stage |-> s, pkg |-> p, hash |-> c]
    IN  \/ /\ active >= MaxActive
           /\ task' = [task EXCEPT ![t] = chain("waiting")]
           /\ waiters' = Append(waiters, t)
           /\ UNCHANGED <<active, ahead>>
        \/ /\ active < MaxActive
           /\ task' = [task EXCEPT ![t] = chain("verifying")]
           /\ active' = active + 1
           /\ waiters' = waiters
           /\ AskRegistry(t, Key(p, c))

\* Mutated: the slot is returned only when nobody waits.
LeaveSilently(t) ==
    /\ active' = active - 1
    /\ waiters' = waiters
    /\ task' = [task EXCEPT ![t] = NoTask]
    /\ Forget(t)

\* A chain is done: its slot is counted out and the first waiter is woken.
Leave(t) ==
    /\ active' = active - 1
    /\ Forget(t)
    /\ IF waiters = <<>>
       THEN /\ task' = [task EXCEPT ![t] = NoTask]
            /\ waiters' = waiters
       ELSE /\ task' = [task EXCEPT ![t] = NoTask, ![Head(waiters)].stage = "woken"]
            /\ waiters' = Tail(waiters)

\* The woken chain counts itself in.
Resume(t) ==
    /\ task[t].stage = "woken"
    /\ task' = [task EXCEPT ![t].stage = "verifying"]
    /\ active' = active + 1
    /\ AskRegistry(t, KeyOf(t))
    /\ UNCHANGED <<installed, baseline, trusted, names, waiters, history>>

-----------------------------------------------------------------------------
(* The load gate.                                                          *)

\* A load outside the catalog asks the registry for the scope's names.
AskCatalog(p) == refreshing' = (refreshing \/ (Online /\ p \notin catalog))

Chain(t, p, c) ==
    IF ~Online THEN UNCHANGED chains
    ELSE IF p \in catalog THEN Enter(t, p, c)
    ELSE /\ task' = [task EXCEPT ![t] = [stage |-> "asking", pkg |-> p, hash |-> c]]
         /\ UNCHANGED <<waiters, active, ahead>>

\* Mutated: other bytes than those on record are recorded again.
FirstSeenAgain(t, p, c, ok) ==
    /\ store[Key(p, c)].hash # c
    /\ store' = [store EXCEPT ![Key(p, c)] = [hash |-> c, suspected |-> FALSE]]
    /\ Save(ok)
    /\ Chain(t, p, c)
    /\ UNCHANGED trusted

\* No record of this version: record it, and check the bytes behind the load.
FirstSeen(t, p, c, ok) ==
    /\ store[Key(p, c)] = NoRecord
    /\ store' = [store EXCEPT ![Key(p, c)] = [hash |-> c, suspected |-> FALSE]]
    /\ Save(ok)
    /\ Chain(t, p, c)
    /\ UNCHANGED trusted

\* Mutated: the mark is not read.
VouchesAlways(p, c) == p \in catalog

\* Mutated: the baseline vouches for names outside the catalog too.
VouchesForAll(p, c) == ~store[Key(p, c)].suspected \/ IsAcked(p, c)

\* A matching record vouches for the name, unless the registry denied it.
Vouches(p, c) == p \in catalog /\ (~store[Key(p, c)].suspected \/ IsAcked(p, c))

\* The bytes are those on record.
Match(t, p, c) ==
    /\ store[Key(p, c)].hash = c
    /\ trusted' = IF Vouches(p, c) THEN trusted \cup {p} ELSE trusted
    /\ IF p \in catalog THEN UNCHANGED chains ELSE Chain(t, p, c)
    /\ UNCHANGED baseline

\* Other bytes than those on record: declared by the user, or reconciled with
\* the registry (no slot is needed for that).
Mismatch(t, p, c) ==
    /\ store[Key(p, c)] # NoRecord /\ store[Key(p, c)].hash # c
    /\ IF Online /\ ~IsAcked(p, c)
       THEN /\ task' = [task EXCEPT ![t] = [stage |-> "reconciling", pkg |-> p, hash |-> c]]
            /\ AskRegistry(t, Key(p, c))
       ELSE UNCHANGED <<task, ahead>>
    /\ UNCHANGED <<baseline, trusted, waiters, active>>

\* The internal/plugin handler.  A free chain is a bound of the model.
Load(p, ok) ==
    /\ Drained
    /\ At("idle") # {}
    /\ LET t == CHOOSE t \in Tasks : task[t].stage = "idle"
           c == installed[p]
       IN  FirstSeen(t, p, c, ok) \/ Match(t, p, c) \/ Mismatch(t, p, c)
    /\ AskCatalog(p)
    /\ UNCHANGED <<installed, catalog, overlay, history>>

\* classifyTarget, for a directory that an audit scan is pointed at: bytes of a
\* version without a record become its record, and nothing checks them later.
ScanTool(p, c, ok) ==
    /\ Drained
    /\ store[Key(p, c)] = NoRecord
    /\ store' = [store EXCEPT ![Key(p, c)] = [hash |-> c, suspected |-> FALSE]]
    /\ Save(ok)
    /\ UNCHANGED <<installed, trusted, names, chains, history>>

-----------------------------------------------------------------------------
(* What follows a load.                                                    *)

\* refreshOfficialCatalogFromRegistry: one enumeration serves every chain that
\* asks; an empty result (or no network) leaves the catalog as it is.
RefreshDone(found, ok) ==
    /\ Drained /\ refreshing
    /\ refreshing' = FALSE
    /\ catalog' = catalog \cup found
    /\ overlay' = IF ok /\ ~(found \subseteq catalog) THEN catalog \cup found ELSE overlay
    /\ task' = [t \in Tasks |-> IF task[t].stage = "asking" THEN [task[t] EXCEPT !.stage = "ready"]
                                                            ELSE task[t]]
    /\ UNCHANGED <<installed, baseline, trusted, waiters, active, ahead, history>>

\* The callback of a load that asked for the catalog: verify a listed name.
AfterRefresh(t) ==
    /\ task[t].stage = "ready"
    /\ IF task[t].pkg \in catalog
       THEN Enter(t, task[t].pkg, task[t].hash)
       ELSE /\ task' = [task EXCEPT ![t] = NoTask]
            /\ UNCHANGED <<waiters, active, ahead>>
    /\ UNCHANGED <<installed, baseline, trusted, names, history>>

\* setRecordSuspected: a missing record has nothing to mark.
Suspect(k, s, ok, read) ==
    \/ store[k] = NoRecord /\ UNCHANGED <<baseline, forgotten>>
    \/ store[k] # NoRecord /\ SaveAndReload([store EXCEPT ![k].suspected = s], ok, read)

Proved(t) == task[t].hash \in Genuine

\* What the registry's answer does to the trust anchor.
Decide(t) ==
    /\ trusted' = IF Proved(t) THEN trusted \cup {task[t].pkg} ELSE trusted
    /\ proven' = IF Proved(t) THEN proven \cup {task[t].pkg} ELSE proven
    /\ refuted' = IF Proved(t) THEN refuted ELSE refuted \cup {<<task[t].pkg, task[t].hash>>}

\* verifyFirstSeenOfficial is answered, or the answer is unavailable (offline,
\* a timeout, an unusable tarball); the slot is given back either way.
Verified(t, resolved, ok, read) ==
    /\ task[t].stage = "verifying" /\ Answered(t)
    /\ IF resolved THEN Suspect(KeyOf(t), ~Proved(t), ok, read) /\ Decide(t)
                   ELSE UNCHANGED <<baseline, trusted, history>>
    /\ Leave(t)
    /\ UNCHANGED <<installed, names>>

\* reconcileMismatch: registry bytes become the record, others mark the record
\* that is there.  The first case writes the same store twice, and reads the
\* file in between if the first write succeeded; ok: one of the two succeeded.
Reconciled(t, resolved, ok, read) ==
    LET k == KeyOf(t) IN
    /\ task[t].stage = "reconciling" /\ Answered(t)
    /\ \/ ~resolved /\ UNCHANGED <<baseline, trusted, history>>
       \/ /\ resolved /\ Proved(t)
          /\ SaveAndReload([store EXCEPT ![k] = [hash |-> task[t].hash, suspected |-> FALSE]], ok, read)
          /\ Decide(t)
       \/ resolved /\ ~Proved(t) /\ Suspect(k, TRUE, ok, read) /\ Decide(t)
    /\ task' = [task EXCEPT ![t] = NoTask]
    /\ Forget(t)
    /\ UNCHANGED <<installed, names, waiters, active>>

-----------------------------------------------------------------------------
(* The machine the gate runs on.                                           *)

\* An update, a local patch or a forgery replaces the bytes of a package.
Install(p, c) ==
    /\ installed[p] # c
    /\ installed' = [installed EXCEPT ![p] = c]
    /\ UNCHANGED <<baseline, trusted, names, chains, history>>

\* The process ends and starts again with what it can read from disk.
Restart(read) ==
    /\ store' = Loaded(saved, read) /\ trusted' = {}
    /\ catalog' = Seed \cup overlay /\ refreshing' = FALSE
    /\ task' = [t \in Tasks |-> NoTask] /\ waiters' = <<>> /\ active' = 0
    /\ ahead' = [t \in Tasks |-> {}]
    /\ proven' = {}
    /\ Drops(store)
    /\ UNCHANGED <<installed, saved, overlay, refuted>>

TrustInit ==
    /\ installed \in [Pkgs -> Contents]
    /\ store = [k \in Keys |-> NoRecord] /\ saved = store
    /\ trusted = {}
    /\ catalog = Seed /\ overlay = {} /\ refreshing = FALSE
    /\ task = [t \in Tasks |-> NoTask] /\ waiters = <<>> /\ active = 0
    /\ ahead = [t \in Tasks |-> {}]
    /\ refuted = {} /\ proven = {} /\ forgotten = {}

TrustNext ==
    \/ \E p \in Pkgs, ok \in SaveOutcomes : Load(p, ok)
    \/ \E found \in SUBSET Published, ok \in SaveOutcomes : RefreshDone(found, ok)
    \/ \E t \in Tasks : AfterRefresh(t)
    \/ \E t \in Tasks : Resume(t)
    \/ \E t \in Tasks, resolved \in BOOLEAN, ok \in SaveOutcomes, read \in LoadOutcomes :
            Verified(t, resolved, ok, read)
    \/ \E t \in Tasks, resolved \in BOOLEAN, ok \in SaveOutcomes, read \in LoadOutcomes :
            Reconciled(t, resolved, ok, read)
    \/ \E p \in Pkgs, c \in Contents, ok \in SaveOutcomes : ScanTool(p, c, ok)
    \/ \E p \in Pkgs, c \in Contents : Install(p, c)
    \/ \E read \in LoadOutcomes : Restart(read)

\* Every fetch and every tar of a verification has a timeout, and the callbacks
\* of a settled promise are in the microtask queue: all of them happen.
Fairness ==
    \A t \in Tasks :
        /\ WF_trustVars(Resume(t))
        /\ WF_trustVars(AfterRefresh(t))
        /\ WF_trustVars(\E resolved \in BOOLEAN, ok \in SaveOutcomes, read \in LoadOutcomes :
                            Verified(t, resolved, ok, read))
        /\ WF_trustVars(\E resolved \in BOOLEAN, ok \in SaveOutcomes, read \in LoadOutcomes :
                            Reconciled(t, resolved, ok, read))

TrustSpec == TrustInit /\ [][TrustNext]_trustVars
FairSpec  == TrustSpec /\ Fairness

-----------------------------------------------------------------------------
(* Properties                                                              *)

\* Type invariant.
TrustTypeOK ==
    /\ installed \in [Pkgs -> Contents]
    /\ store \in [Keys -> Record \cup {NoRecord}]
    /\ saved \in [Keys -> Record \cup {NoRecord}]
    /\ trusted \subseteq Pkgs /\ proven \subseteq Pkgs
    /\ catalog \subseteq Pkgs /\ overlay \subseteq Pkgs /\ refreshing \in BOOLEAN
    /\ task \in [Tasks -> Task \cup {NoTask}]
    /\ waiters \in Seq(Tasks) /\ active \in Nat
    /\ ahead \in [Tasks -> SUBSET Tasks]
    /\ refuted \subseteq Pkgs \X Contents /\ forgotten \subseteq Keys

\* Slots are neither lost nor exceeded: the counter equals the verifications
\* at the registry, never passes the limit with those just woken, and nobody
\* queues while a slot is free.  (withVerifySlot 446-460)
SlotsKept ==
    /\ active = Cardinality(At("verifying"))
    /\ active + Cardinality(At("woken")) <= MaxActive
    /\ At("waiting") = {waiters[i] : i \in DOMAIN waiters}
    /\ waiters # <<>> => active + Cardinality(At("woken")) = MaxActive

\* No name outside the catalog is trusted on the word of the local baseline:
\* a trusted name is listed, or the registry confirmed its bytes.
\* (classifyOfficial 205-246, reconcileMismatch 345-355)
TrustNeedsEvidence == trusted \subseteq catalog \cup proven

\* Bytes the registry has denied never become trusted by being loaded again,
\* in this process or a later one, unless the user declared them or the record
\* of their version was dropped: by a restart after a write that failed, or by
\* a reading of the baseline that failed, at a start or after a save.
\* (classifyOfficial 205-246, setRecordSuspected 223-232, loadBaseline 242-260)
RefutedStayOut ==
    [][ \A p \in Pkgs :
            /\ p \in trusted' \ trusted /\ <<p, installed[p]>> \in refuted
            /\ proven' = proven
            => IsAcked(p, installed[p]) \/ Key(p, installed[p]) \in forgotten ]_trustVars

\* A mark leaves a record only when the registry confirms bytes of that
\* version, or when a restart or a failed reading has dropped that record: no
\* order of loads, answers and replaced bytes clears it.  (setRecordSuspected
\* 223-232, verifyFirstSeenOfficial 398-440, loadBaseline 242-260)
MarkSticks ==
    [][ \A k \in Keys :
            store[k].suspected /\ ~store'[k].suspected =>
                \/ store'[k].hash \in Genuine /\ k[1] \in proven'
                \/ k \in forgotten' ]_trustVars

\* Every queued verification gets its turn.  (withVerifySlot 446-460)
VerificationServed ==
    \A t \in Tasks : task[t].stage = "waiting" ~> task[t].stage # "waiting"

=============================================================================
