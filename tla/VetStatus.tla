------------------------------ MODULE VetStatus ------------------------------
(***************************************************************************)
(* The shield's alarm board: class VetStatus of guard/status.ts together   *)
(* with the on-disk fold list of guard/dismissed-alerts.ts it writes to.   *)
(*                                                                         *)
(* Every guard records its alarms here.  The board is a bounded buffer     *)
(* that merges reports of one group, forgets rows after a time to live,    *)
(* protects red rows when it overflows, folds what the user ignored (now   *)
(* and after a restart), and keeps for every advisory row the packages the *)
(* advisory still affects.                                                 *)
(*                                                                         *)
(* Time is kept as ages, one unit per Tick: a row's age is now - row.at.   *)
(* The array of the code is a set of rows whose pos is the array index     *)
(* (0 = newest, inserted by unshift).  Messages, targets and the domain    *)
(* projection of an alarm are left out: no decision below reads them.      *)
(***************************************************************************)
EXTENDS Naturals, FiniteSets

CONSTANTS
    Ids,           \* alarm ids
    Groups,        \* merge keys (an alarm without mergeKey is its own group)
    GroupOf,       \* [Ids -> Groups]: mergeKey ?? id
    Severities,    \* [Ids -> SUBSET Severity]: what an id may be raised with
    Plugins,       \* packages the load gate scans
    OwnIds,        \* [Plugins -> SUBSET Ids]: verdict rows of one package
    AggIds,        \* ids of advisory rows shared by packages
    AlarmMax,      \* alarmMax, 20 by default
    Window,        \* dedupeWindowMs, in ticks
    Ttl,           \* alarmTtlMs, in ticks
    DismissedMax,  \* DISMISSED_MAX_KEPT, 200
    SaveOutcomes,  \* what writing the fold list to disk may return
    MaxCount       \* bound of the model on a row's report counter

Severity == {"info", "yellow", "red"}

\* A package whose latest scan is on no advisory row; no alarm has this id.
NoAdvisory == "no advisory"

\* The ids of scan verdicts; every other id belongs to a runtime guard.
VerdictIds == AggIds \cup UNION {OwnIds[p] : p \in Plugins}

\* What a fold is stored under: dismiss() stores the group of a live row, or
\* the id it was given when no row has that id.
Names == Ids \cup Groups

ASSUME BoardAssumption ==
    /\ GroupOf \in [Ids -> Groups]
    /\ Severities \in [Ids -> SUBSET Severity]
    /\ OwnIds \in [Plugins -> SUBSET Ids]
    /\ AggIds \subseteq Ids /\ NoAdvisory \notin Ids
    /\ IsFiniteSet(Plugins)
    /\ AlarmMax \in Nat \ {0} /\ MaxCount \in Nat \ {0}
    /\ Window \in Nat /\ Ttl \in Nat \ {0} /\ DismissedMax \in Nat \ {0}
    /\ SaveOutcomes \subseteq BOOLEAN

VARIABLES
    alarms,     \* the rows of the board
    members,    \* groupMembers: advisory row -> packages it still affects
    dismissed,  \* dismissedIds: folds of this process
    disk,       \* dismissed-alerts.json: [name, pos], pos 0 = latest
    cached,     \* cachedIds: the fold list as this process read it
    affected    \* history: package -> the advisory row its last scan put it on

vars == <<alarms, members, dismissed, disk, cached, affected>>

Row == [id : Ids, group : Groups, sev : Severity, age : 0..(Ttl + 1),
        count : Nat \ {0}, pos : Nat]

-----------------------------------------------------------------------------
(* Newest-first lists as sets of records with a field pos.                 *)

Renumber(S) == {[r EXCEPT !.pos = Cardinality({q \in S : q.pos < r.pos})] : r \in S}

\* unshift: x becomes the newest.
Push(S, x) == {[x EXCEPT !.pos = 0]} \cup {[r EXCEPT !.pos = @ + 1] : r \in S}

Oldest(S) == CHOOSE r \in S : \A q \in S : q.pos <= r.pos
Newest(S) == CHOOSE r \in S : \A q \in S : r.pos <= q.pos

Rows(A, g)   == {r \in A : r.group = g}
RowsOf(A, i) == {r \in A : r.id = i}

-----------------------------------------------------------------------------
(* The fold list (dismissed-alerts.ts).                                    *)

DiskNames(D) == {e.name : e \in D}

\* persistentlyDismiss: the cache follows a successful write only; the prune
\* that keeps the latest DismissedMax names does not reach the cache.
FoldOnDisk(n, ok) ==
    LET listed == Push(Renumber({e \in disk : e.name # n}), [name |-> n, pos |-> 0])
    IN  /\ disk' = IF ok THEN {e \in listed : e.pos < DismissedMax} ELSE disk
        /\ cached' = IF ok THEN cached \cup {n} ELSE cached

\* restorePersistentDismissal.
UnfoldOnDisk(n, ok) ==
    /\ disk' = IF ok THEN Renumber({e \in disk : e.name # n}) ELSE disk
    /\ cached' = IF ok THEN cached \ {n} ELSE cached

\* isFold of snapshot(): memory or disk, under the group of the row.
Folded(g) == g \in dismissed \cup cached

Active == {r \in alarms : ~Folded(r.group)}

\* The colour of the shield.
Level == IF \E r \in Active : r.sev = "red" THEN "red"
         ELSE IF \E r \in Active : r.sev = "yellow" THEN "yellow" ELSE "green"

-----------------------------------------------------------------------------
(* expire(): rows past their time to live go, and with them the memory     *)
(* folds and the member sets no row stands for any more.                   *)

Unexpired(A) == Renumber({r \in A : r.age <= Ttl})

\* Mutated: a fold stored under the merge key of its row is dropped.
FoldsOfIds(A, D) == {n \in D : \E r \in A : n = r.id}

FoldsOf(A, D) == {n \in D : \E r \in A : n \in {r.id, r.group}}

MembersOf(A, M) == [a \in AggIds |-> IF RowsOf(A, a) = {} THEN {} ELSE M[a]]

-----------------------------------------------------------------------------
(* record()                                                                *)

\* Mutated: length = alarmMax, the oldest row goes whatever its colour.
TrimTail(A) ==
    IF Cardinality(A) <= AlarmMax THEN A ELSE Renumber(A \ {Oldest(A)})

\* trimToMax: the oldest row that is not red goes; the oldest row if all are.
TrimToMax(A) ==
    LET calm == {r \in A : r.sev # "red"}
    IN  IF Cardinality(A) <= AlarmMax THEN A
        ELSE Renumber(A \ {IF calm = {} THEN Oldest(A) ELSE Oldest(calm)})

\* The row of group g, in the window or not, that an incoming alarm meets.
Recent(A, g) == {r \in Rows(A, g) : r.age < Window}

\* Mutated: only a row inside the merge window is compared.
EscalatesInWindow(A, g, sev) == sev = "red" /\ Recent(A, g) # {} /\ Newest(Rows(A, g)).sev # "red"

\* A red report of a group whose live row is not red takes back the fold.
Escalates(A, g, sev) == sev = "red" /\ Rows(A, g) # {} /\ Newest(Rows(A, g)).sev # "red"

Merged(r, sev) == [r EXCEPT !.count = @ + 1, !.age = 0,
                            !.sev = IF sev = "red" THEN "red" ELSE @]

NewRow(i, sev) == [id |-> i, group |-> GroupOf[i], sev |-> sev, age |-> 0,
                   count |-> 1, pos |-> 0]

\* The board after record(): merge into the recent row of the group, or
\* replace the group's row by a new one and trim.
Recorded(A, i, sev) ==
    LET g == GroupOf[i] IN
    IF Recent(A, g) # {}
    THEN LET r == Newest(Recent(A, g)) IN (A \ {r}) \cup {Merged(r, sev)}
    ELSE TrimToMax(Push(Renumber(A \ Rows(A, g)), NewRow(i, sev)))

\* The folds after record(): of this process, then on disk.
FoldsAfter(A, i, sev) ==
    IF Escalates(A, GroupOf[i], sev) THEN FoldsOf(A, dismissed) \ {GroupOf[i]}
                                     ELSE FoldsOf(A, dismissed)

DiskAfter(A, i, sev, ok) ==
    IF Escalates(A, GroupOf[i], sev) /\ GroupOf[i] \in cached
    THEN UnfoldOnDisk(GroupOf[i], ok)
    ELSE UNCHANGED <<disk, cached>>

\* The report counter of the model stays below its bound.
CountFits(A, g) == \A r \in Rows(A, g) : r.count < MaxCount

\* History: a package leaves `affected` when the row it was on is gone.
StillOn(A, aff) == [p \in Plugins |-> IF aff[p] # NoAdvisory /\ RowsOf(A, aff[p]) = {}
                                      THEN NoAdvisory ELSE aff[p]]

\* A runtime guard reports: record() alone.
RuntimeAlarm(i, sev, ok) ==
    LET live == Unexpired(alarms)
        next == Recorded(live, i, sev)
    IN  /\ i \notin VerdictIds
        /\ sev \in Severities[i]
        /\ CountFits(live, GroupOf[i])
        /\ alarms' = next
        /\ members' = MembersOf(live, members)
        /\ dismissed' = FoldsAfter(live, i, sev)
        /\ DiskAfter(live, i, sev, ok)
        /\ affected' = StillOn(next, StillOn(live, affected))

-----------------------------------------------------------------------------
(* noteScan(): a finished scan of package p.                               *)

\* dropStaleVerdicts: rows of p's own earlier verdicts, unless folded.
StaleVerdicts(A, p, keep, folds) ==
    {r \in A : r.id \in OwnIds[p] \ keep /\ r.group \notin folds}

\* A row without packages is withdrawn whole, folded or not.
Orphans(M, p, keep) == {a \in AggIds \ keep : M[a] = {p}}

\* Mutated: the membership is registered before record(), whose expire()
\* then drops the member set of the row that is not there yet.
JoinedEarly(live, p, i) ==
    MembersOf(live, [a \in AggIds |-> IF a = i THEN members[a] \cup {p} ELSE members[a] \ {p}])

\* anchorGroup: p leaves every other advisory row and joins row i.
Joined(live, p, i) ==
    LET M == MembersOf(live, members)
    IN  [a \in AggIds |-> IF a = i THEN M[a] \cup {p} ELSE M[a] \ {p}]

Counted(A, i, n) == {IF r.id = i THEN [r EXCEPT !.count = n] ELSE r : r \in A}

\* The scan is not clean: record the verdict under id i, then anchor p to it.
NoteVerdict(p, i, sev, ok) ==
    LET live  == Unexpired(alarms)
        next  == Recorded(live, i, sev)
        folds == FoldsAfter(live, i, sev)
        gone  == StaleVerdicts(next, p, {i}, folds \cup cached')
                 \cup {r \in next : r.id \in Orphans(MembersOf(live, members), p, {i})}
        rows  == Renumber(next \ gone)
        all   == Joined(live, p, i)
    IN  /\ i \in OwnIds[p] \cup AggIds
        /\ sev \in Severities[i]
        /\ i \in AggIds \/ CountFits(live, GroupOf[i])
        /\ DiskAfter(live, i, sev, ok)
        /\ dismissed' = folds
        /\ members' = all
        /\ alarms' = IF i \in AggIds THEN Counted(rows, i, Cardinality(all[i])) ELSE rows
        /\ affected' = [StillOn(rows, StillOn(live, affected)) EXCEPT
               ![p] = IF i \in AggIds /\ RowsOf(rows, i) # {} THEN i ELSE NoAdvisory]

\* The scan is clean (clearScanVerdict): p's own rows go unless folded, p
\* leaves its advisory rows, and their counts follow.
NoteClean(p) ==
    LET gone == StaleVerdicts(alarms, p, {}, dismissed \cup cached)
                \cup {r \in alarms : r.id \in Orphans(members, p, {})}
        left == [a \in AggIds |-> members[a] \ {p}]
        rows == Renumber(alarms \ gone)
        shrunk(r) == r.id \in AggIds /\ p \in members[r.id]
    IN  /\ members' = left
        /\ alarms' = {IF shrunk(r) THEN [r EXCEPT !.count = Cardinality(left[r.id])] ELSE r : r \in rows}
        /\ affected' = [StillOn(rows, affected) EXCEPT ![p] = NoAdvisory]
        /\ UNCHANGED <<dismissed, disk, cached>>

-----------------------------------------------------------------------------
(* The panel, the clock and the process.                                   *)

\* The name dismiss() and restore() use: the group of the row with this id.
\* The panel polls, so the row may be gone by the time its id arrives.
FoldName(A, i) == IF RowsOf(A, i) = {} THEN i ELSE Newest(RowsOf(A, i)).group

Dismiss(i, ok) ==
    /\ dismissed' = dismissed \cup {FoldName(alarms, i)}
    /\ FoldOnDisk(FoldName(alarms, i), ok)
    /\ UNCHANGED <<alarms, members, affected>>

Restore(i, ok) ==
    /\ dismissed' = dismissed \ {i, FoldName(alarms, i)}
    /\ UnfoldOnDisk(FoldName(alarms, i), ok)
    /\ UNCHANGED <<alarms, members, affected>>

\* The panel's poll: snapshot() expires before it derives the level.
Snapshot ==
    LET live == Unexpired(alarms)
    IN  /\ alarms' = live
        /\ members' = MembersOf(live, members)
        /\ dismissed' = FoldsOf(live, dismissed)
        /\ affected' = StillOn(live, affected)
        /\ UNCHANGED <<disk, cached>>

Tick ==
    /\ \E r \in alarms : r.age <= Ttl
    /\ alarms' = {[r EXCEPT !.age = IF @ <= Ttl THEN @ + 1 ELSE @] : r \in alarms}
    /\ UNCHANGED <<members, dismissed, disk, cached, affected>>

\* The process ends: only the file is left, and the next one reads it.  (The
\* code reads it at the first snapshot, before the panel can fold anything.)
Restart ==
    /\ alarms' = {} /\ dismissed' = {}
    /\ members' = [a \in AggIds |-> {}]
    /\ affected' = [p \in Plugins |-> NoAdvisory]
    /\ cached' = DiskNames(disk)
    /\ UNCHANGED disk

Init ==
    /\ alarms = {} /\ dismissed = {} /\ disk = {} /\ cached = {}
    /\ members = [a \in AggIds |-> {}]
    /\ affected = [p \in Plugins |-> NoAdvisory]

Next ==
    \/ \E i \in Ids, sev \in Severity, ok \in SaveOutcomes : RuntimeAlarm(i, sev, ok)
    \/ \E p \in Plugins, i \in VerdictIds, sev \in Severity, ok \in SaveOutcomes :
           NoteVerdict(p, i, sev, ok)
    \/ \E p \in Plugins : NoteClean(p)
    \/ \E i \in Ids, ok \in SaveOutcomes : Dismiss(i, ok)
    \/ \E i \in Ids, ok \in SaveOutcomes : Restore(i, ok)
    \/ Snapshot
    \/ Tick
    \/ Restart

Spec == Init /\ [][Next]_vars

-----------------------------------------------------------------------------
(* Properties                                                              *)

\* A scan of p may withdraw p's own rows and the rows only p is left on.
Withdrawable(r, p) == r.id \in OwnIds[p] \/ (r.id \in AggIds /\ members[r.id] = {p})

ScanOf(p) ==
    \/ NoteClean(p)
    \/ \E i \in VerdictIds, sev \in Severity, ok \in SaveOutcomes : NoteVerdict(p, i, sev, ok)

\* Type invariant.
TypeOK ==
    /\ alarms \subseteq Row
    /\ members \in [AggIds -> SUBSET Plugins]
    /\ dismissed \subseteq Names
    /\ cached \subseteq Names
    /\ disk \subseteq [name : Names, pos : Nat]
    /\ affected \in [Plugins -> AggIds \cup {NoAdvisory}]

\* The board is a buffer of at most AlarmMax rows with one row per group:
\* no storm, merge, replacement or withdrawal leaves a second row or an
\* extra one.  (record 196-206, trimToMax 215-229)
BoardBounded ==
    /\ Cardinality(alarms) <= AlarmMax
    /\ \A r, q \in alarms : r.group = q.group => r = q

\* A red row is never pushed out by noise: while it is within its time to
\* live its group leaves the board only when a full board is red throughout, when a
\* scan of one of its packages withdraws the verdict it stands for, or with
\* the process.  (trimToMax 209-214, dropStaleVerdicts 309-317)
RedOutlivesNoise ==
    [][ \A r \in alarms :
            r.sev = "red" /\ r.age <= Ttl /\ Rows(alarms', r.group) = {} =>
                \/ Cardinality(alarms) = AlarmMax /\ \A q \in alarms' : q.sev = "red"
                \/ \E p \in Plugins : Withdrawable(r, p) /\ ScanOf(p)
                \/ Restart ]_vars

\* What the user ignored stays ignored while its row lives: across merges,
\* replacements by another id of the group, scans and failed disk writes, a
\* folded group comes back only by the user's restore or because it turned
\* red.  (dismiss 121-134, record 166-184)
FoldSticks ==
    [][ \A r \in alarms :
            /\ Folded(r.group) /\ r.age <= Ttl
            /\ Rows(alarms', r.group) # {} /\ ~Folded(r.group)'
            => \/ r.sev # "red" /\ \E q \in Rows(alarms', r.group) : q.sev = "red"
               \/ \E i \in Ids, ok \in SaveOutcomes : Restore(i, ok) ]_vars

\* Ignoring a finding is no consent to its escalation: when a live row turns
\* red it is visible again.  The one excuse is a disk that refuses to forget
\* the fold.  (record 166-184)
EscalationResurfaces ==
    [][ \A r \in alarms, q \in alarms' :
            /\ r.group = q.group /\ r.age <= Ttl
            /\ r.sev # "red" /\ q.sev = "red"
            => \/ Level' = "red" /\ q \in Active'
               \/ q.group \in cached \cap cached' /\ disk' = disk ]_vars

\* An advisory row lists exactly the packages whose latest scan it explains,
\* and no row stays when its last package is gone: a late or repeated clean
\* scan of one package never withdraws the warning about another.
\* (noteScan 270-273, anchorGroup 276-301, clearScanVerdict 325-339)
RowsMatchScans ==
    \A a \in AggIds : RowsOf(alarms, a) # {} =>
        /\ members[a] = {p \in Plugins : affected[p] = a}
        /\ members[a] # {}

=============================================================================
