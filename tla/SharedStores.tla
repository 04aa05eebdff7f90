---------------------------- MODULE SharedStores ----------------------------
(***************************************************************************)
(* Two files under ~/.dsh/vet that every vet process reads and writes:     *)
(* capabilities.json (what each scanned version of a plugin could do) and  *)
(* baseline.json (the bytes first seen of each package, with the registry  *)
(* mark of an official one).  guard/version-diff.ts, guards/content-       *)
(* baseline.ts, guard/store-stamp.ts and their calls in internal-plugin.ts.*)
(*                                                                         *)
(* A process finishes a scan in one turn of its own event loop, but two    *)
(* processes interleave between a load and the save that follows it.       *)
(* Saves rename a whole file into place.  Either may fail; the code takes  *)
(* a failed read for an empty store and a failed save for nothing.  A      *)
(* process may die, and the files may be edited from outside.              *)
(*                                                                         *)
(* One plugin is upgraded through its versions; one official package "core"*)
(* has a baseline record that a registry check marks and clears.           *)
(***************************************************************************)
EXTENDS VersionDiff

CONSTANTS
    Hosts,        \* processes with vet inside (a second instance, the CLI)
    Versions,     \* of the plugin, in order of release: 1..n
    Can,          \* version -> its manifest
    Audited,      \* versions with an audit record
    Sourceless,   \* versions in which the scan finds no code to read
    MaxKept,      \* VERSION_DIFF_MAX_KEPT
    Scenarios     \* bounds: how many scans, baseline steps, faults, edits, restarts;
                  \* scans by a gate, and whether there are lists (AuditLists)

NoOne == "no one"

ASSUME StoresAssumption ==
    /\ NoOne \notin Hosts /\ Can \in [Versions -> Manifests]
    /\ 1 \in Versions /\ Versions = 1..Cardinality(Versions)
    /\ Audited \subseteq Versions /\ Sourceless \subseteq Versions /\ MaxKept \in Nat \ {0}
    /\ Scenarios \subseteq [{"scans", "gates", "lists", "marks", "faults", "edits", "restarts"} -> Nat]

Missing == [recs |-> {}, writer |-> NoOne, at |-> 0]     \* absent or not JSON

VARIABLES
    installed,    \* the version of the plugin on disk
    caps,         \* capabilities.json: [recs, writer, at]
    base,         \* baseline.json: [recs, writer, at]; recs: [name, suspected]
    wrote,        \* host -> file -> what it last wrote there (writtenStoreHashes)
    tamper,       \* host -> file -> the stamp of an unexplained content, or none
    cached,       \* host -> baselineCache: its records, or Unread
    doing,        \* host -> what it is in the middle of
    told,         \* what the last finished scan said
    clock,        \* scans recorded; Date.now() of a record
    budget,       \* what remains of the bounds
    \* history of who did what, for the properties
    saved,        \* records that reached the disk, ever
    lost,         \* versions whose record left the disk, ever
    touch         \* host -> file -> who changed the file since this host wrote it

stores  == <<caps, base, wrote, tamper, cached>>
history == <<saved, lost, touch>>
vars == <<installed, stores, doing, told, clock, budget, history>>

Files == {"caps", "base"}
NoTamper == [seen |-> FALSE, writer |-> NoOne, who |-> {}]
Idle     == [op |-> "none"]
Unread   == {[name |-> "unread", suspected |-> FALSE]}
Silent   == [host |-> NoOne, by |-> NoOne]

\* ---- reading and writing ----

\* A step uses up some of the bounds; a failure among them.
Spend(what, fault) ==
    /\ budget[what] > 0 /\ (fault => budget.faults > 0)
    /\ budget' = [budget EXCEPT ![what] = @ - 1, !.faults = IF fault THEN @ - 1 ELSE @]

Fault(fault) == IF fault THEN Spend("faults", FALSE) ELSE UNCHANGED budget

\* loadCapabilities, loadBaseline: bytes other than this process's own are noted
\* with their stamp; what cannot be read is noted without one, if it had written.
Noted(h, file, content, readable) ==
    IF wrote[h][file].writer = NoOne THEN tamper[h][file]
    ELSE IF ~readable
         THEN [seen |-> TRUE, writer |-> NoOne, who |-> touch[h][file] \cup {"fault"}]
    ELSE IF content # wrote[h][file]
         THEN [seen |-> TRUE, writer |-> content.writer, who |-> touch[h][file]]
    ELSE tamper[h][file]

\* A read fails when the file is missing or not JSON, and when it just fails.
Readable(content, fault) == content.at # 0 /\ ~fault
Records(content, fault)  == IF Readable(content, fault) THEN content.recs ELSE {}

\* Mutant: the stamp is not read.
RewriteUnstamped(h, noted) == "unexplained"

\* classifyStoreRewrite
Rewrite(h, noted) ==
    IF noted.writer \in Hosts \ {h} THEN "foreign-vet" ELSE "unexplained"

FreeOf(h) == doing[h].op = "none"

Touched(file, who, own) ==
    [g \in Hosts |-> [touch[g] EXCEPT ![file] = IF g = own THEN {} ELSE @ \cup {who}]]

\* ---- a scan of the plugin ----

\* recordScan, first half: the records are read and compared.  A version without
\* code and without capabilities is not recorded.
LoadCaps(h, fault) ==
    /\ FreeOf(h) /\ Spend("scans", fault)
    /\ ~(installed \in Sourceless /\ EmptyManifest(Can[installed]))
    /\ LET recs  == Records(caps, fault)
           other == Others(recs, installed)
           prev  == IF other = {} THEN [version |-> 0, at |-> 0, can |-> {}] ELSE Latest(other)
       IN  doing' = [doing EXCEPT ![h] =
              [op |-> "scan", to |-> installed, recs |-> recs, prev |-> prev,
               alarm |-> IF other = {} THEN ColdAlarm(Can[installed], installed \in Audited)
                         ELSE UpgradeAlarm(prev.can, Can[installed]),
               seen |-> caps, misread |-> fault, at |-> clock,
               who |-> IF wrote[h].caps.writer = NoOne THEN {} ELSE touch[h].caps]]
    /\ tamper' = [tamper EXCEPT ![h].caps = Noted(h, "caps", caps, Readable(caps, fault))]
    /\ UNCHANGED <<installed, caps, base, wrote, cached, told, clock, history>>

\* What a scan says of the files: the capabilities first, the baseline only when
\* there is nothing to say of those; either note is taken once.
TellStore(h) ==
    LET file == IF tamper[h].caps.seen THEN "caps" ELSE "base"
        note == tamper[h][file]
    IN  IF ~note.seen THEN [store |-> "nothing", file |-> "none", who |-> {}]
        ELSE [store |-> Rewrite(h, note), file |-> file, who |-> note.who]

\* recordScan, second half: the record is added, the oldest are pruned, the file is
\* written; a failed write changes nothing and is not noticed.
SaveCaps(h, fault) ==
    /\ doing[h].op = "scan" /\ Fault(fault)
    /\ LET d    == doing[h]
           new  == [version |-> d.to, at |-> clock + 1, can |-> Can[d.to]]
           next == [recs |-> Pruned(WithRecord(d.recs, new), MaxKept), writer |-> h, at |-> clock + 1]
           said == TellStore(h)
       IN  /\ IF fault THEN UNCHANGED <<caps, wrote, saved, lost, touch>>
              ELSE /\ caps' = next /\ wrote' = [wrote EXCEPT ![h].caps = next]
                   /\ saved' = saved \cup {new} /\ lost' = lost \cup (saved \ next.recs)
                   /\ touch' = Touched("caps", h, h)
           /\ told' = [host |-> h, to |-> d.to, prev |-> d.prev, alarm |-> d.alarm, at |-> d.at,
                       misread |-> d.misread, store |-> said.store, file |-> said.file,
                       who |-> said.who, capsWho |-> d.who]
           /\ tamper' = IF said.file = "none" THEN tamper
                        ELSE [tamper EXCEPT ![h][said.file] = NoTamper]
    /\ clock' = clock + 1 /\ doing' = [doing EXCEPT ![h] = Idle]
    /\ UNCHANGED <<installed, base, cached>>

\* history and label: vet_diff and vet_label read the file as a scan does; what they
\* note of a rewrite waits for the next scan.
Show(h, fault) ==
    /\ FreeOf(h) /\ Spend("scans", fault)
    /\ told' = [host |-> NoOne, by |-> h, at |-> clock, misread |-> fault,
                shown |-> History(Records(caps, fault))]
    /\ tamper' = [tamper EXCEPT ![h].caps = Noted(h, "caps", caps, Readable(caps, fault))]
    /\ UNCHANGED <<installed, caps, base, wrote, cached, doing, clock, history>>

Upgrade(v) ==
    /\ v \in Versions \ {installed} /\ installed' = v
    /\ UNCHANGED <<stores, doing, told, clock, budget, history>>

\* ---- the baseline ----

\* getBaseline: read once, kept for the life of the process.
ReadBase(h, fault) ==
    /\ FreeOf(h) /\ cached[h] = Unread /\ Spend("marks", fault)
    /\ cached' = [cached EXCEPT ![h] = Records(base, fault)]
    /\ UNCHANGED <<installed, caps, base, wrote, tamper, doing, told, clock, saved, lost>>
    /\ touch' = [touch EXCEPT ![h].base = IF fault THEN @ \cup {"fault"} ELSE @]

\* saveBaseline of the kept records, which stay changed if it fails.
SaveBase(h, recs, fault) ==
    /\ cached' = [cached EXCEPT ![h] = recs]
    /\ IF fault THEN UNCHANGED <<base, wrote, touch>>
       ELSE LET file == [recs |-> recs, writer |-> h, at |-> base.at + 1]
            IN  /\ base' = file /\ wrote' = [wrote EXCEPT ![h].base = file]
                /\ touch' = Touched("base", h, h)
    /\ UNCHANGED <<installed, caps, tamper, told, clock, saved, lost>>

Names(recs) == {r.name : r \in recs}

\* recordBaseline: the store as it is kept, with the record of this package.
FirstSeen(recs, name) == recs \cup {[name |-> name, suspected |-> FALSE]}

\* A package seen for the first time is recorded and saved (checkThirdPartyBaseline,
\* classifyOfficial).
SeePackage(h, name, fault) ==
    /\ FreeOf(h) /\ cached[h] # Unread /\ name \notin Names(cached[h])
    /\ Spend("marks", fault)
    /\ SaveBase(h, FirstSeen(cached[h], name), fault)
    /\ UNCHANGED doing

\* setRecordSuspected: nothing when there is no record; a mark that was written is
\* followed by a reload.
Mark(h, mark, fault) ==
    /\ FreeOf(h) /\ cached[h] # Unread /\ "core" \in Names(cached[h])
    /\ Spend("marks", fault)
    /\ SaveBase(h, {r \in cached[h] : r.name # "core"} \cup {[name |-> "core", suspected |-> mark]}, fault)
    /\ doing' = [doing EXCEPT ![h].op = IF fault THEN @ ELSE "reload"]

\* refreshBaseline
Reload(h, fault) ==
    /\ doing[h].op = "reload" /\ Fault(fault)
    /\ cached' = [cached EXCEPT ![h] = Records(base, fault)]
    /\ tamper' = [tamper EXCEPT ![h].base = Noted(h, "base", base, Readable(base, fault))]
    /\ touch' = [touch EXCEPT ![h].base = IF fault THEN @ \cup {"fault"} ELSE @]
    /\ doing' = [doing EXCEPT ![h] = Idle]
    /\ UNCHANGED <<installed, caps, base, wrote, told, clock, saved, lost>>

\* ---- the world outside ----

\* Someone edits a file: takes records out and leaves the stamp, or removes it.
Edit(file, wipe) ==
    /\ Spend("edits", FALSE)
    /\ IF file = "caps"
       THEN /\ caps.recs # {} /\ UNCHANGED base
            /\ caps' = IF wipe THEN Missing ELSE [caps EXCEPT !.recs = {}]
            /\ lost' = lost \cup saved
       ELSE /\ base.recs # {} /\ UNCHANGED <<caps, lost>>
            /\ base' = IF wipe THEN Missing ELSE [base EXCEPT !.recs = {}]
    /\ touch' = Touched(file, "outsider", NoOne)
    /\ UNCHANGED <<installed, wrote, tamper, cached, doing, told, clock, saved>>

Restart(h) ==
    /\ Spend("restarts", FALSE)
    /\ wrote'  = [wrote EXCEPT ![h] = [f \in Files |-> Missing]]
    /\ tamper' = [tamper EXCEPT ![h] = [f \in Files |-> NoTamper]]
    /\ cached' = [cached EXCEPT ![h] = Unread]
    /\ doing'  = [doing EXCEPT ![h] = Idle]
    /\ UNCHANGED <<installed, caps, base, told, clock, history>>

Init ==
    /\ installed = 1 /\ caps = Missing /\ base = Missing
    /\ wrote = [h \in Hosts |-> [f \in Files |-> Missing]]
    /\ tamper = [h \in Hosts |-> [f \in Files |-> NoTamper]]
    /\ cached = [h \in Hosts |-> Unread]
    /\ doing = [h \in Hosts |-> Idle]
    /\ told = Silent /\ clock = 0
    /\ budget \in Scenarios
    /\ saved = {} /\ lost = {}
    /\ touch = [h \in Hosts |-> [f \in Files |-> {}]]

Next ==
    \/ \E v \in Versions : Upgrade(v)
    \/ \E h \in Hosts, fault \in BOOLEAN :
          \/ LoadCaps(h, fault)
          \/ SaveCaps(h, fault)
          \/ Show(h, fault)
          \/ Reload(h, fault)
          \/ ReadBase(h, fault)
          \/ \E name \in {"plug", "core"} : SeePackage(h, name, fault)
          \/ \E mark \in BOOLEAN : Mark(h, mark, fault)
    \/ \E h \in Hosts : Restart(h)
    \/ \E file \in Files, wipe \in BOOLEAN : Edit(file, wipe)

Spec == Init /\ [][Next]_vars

(***************************************************************************)
(* Properties.                                                             *)
(***************************************************************************)

\* An upgrade is measured against the version scanned last before it: no record of
\* another version, newer than the one compared with, was on the disk when the scan
\* began, unless it had been lost there or the read failed.
UpgradeTold ==
    told.host # NoOne /\ ~told.misread =>
        /\ told.prev.version # told.to
        /\ \A r \in saved : r.version # told.to /\ told.prev.at < r.at /\ r.at <= told.at => r \in lost
        /\ told.prev.version # 0 =>
              told.alarm = UpgradeAlarm(Can[told.prev.version], Can[told.to])

\* A scan drops a version's record from the disk only for a reason: the read before
\* it failed, the file was written by someone else in between, or a thousand newer
\* ones are kept; the version just scanned always stays.
HistoryKept ==
    [][\A h \in Hosts : told' # told /\ told'.host = h /\ caps' # caps =>
         /\ \E r \in caps'.recs : r.version = told'.to /\ r.at = clock'
         /\ \A r \in caps.recs : r \notin caps'.recs =>
            \/ doing[h].misread \/ doing[h].seen # caps
            \/ \E s \in caps'.recs : s.version = r.version
            \/ Cardinality(caps'.recs) = MaxKept /\ \A s \in caps'.recs : s.at > r.at]_vars

\* What a scan says of a rewritten store is so: an unexplained rewrite means an
\* outsider or a failed read since this process wrote the file, another vet means
\* another vet wrote it, and silence means nobody touched the capabilities.
TamperNamed ==
    told.host # NoOne =>
        /\ told.store = "unexplained" => told.who \cap {"outsider", "fault"} # {}
        /\ told.store = "foreign-vet" => told.who \cap (Hosts \ {told.host}) # {}
        /\ told.file # "caps" => told.capsWho = {}

=============================================================================
