---------------------------- MODULE ScannerClient ----------------------------
(***************************************************************************)
(* The host's side of a scan (scanner/client.ts): two slots, a queue for   *)
(* whoever finds none free, one process and one timer for each scan, and a *)
(* synchronous variant that takes no slot but stops the whole host until   *)
(* its process has ended.  A promise that is resolved leaves its slot, and *)
(* the queue is pumped, before any other callback of the host runs: one    *)
(* step (Finish).  The engines run beside the host and beside each other.  *)
(***************************************************************************)
EXTENDS ScanEngine, FiniteSetsExt, SequencesExt

CONSTANTS
    MaxConcurrent,   \* MAX_CONCURRENT_SCANS
    SyncCalls,       \* calls made with scanSync
    StartDisks,      \* what the package holds at first
    Edits,           \* <<file, content>>: the changes somebody may make to it
    Failed           \* the answer { ok: false }

ASSUME ClientAssumption ==
    /\ MaxConcurrent \in Nat \ {0}
    /\ SyncCalls \subseteq Calls
    /\ StartDisks \subseteq Disks
    /\ Edits \subseteq Files \X Contents

VARIABLES
    phase,      \* call -> "idle", "queued", "running", "answered"
    queue,      \* scanQueue
    active,     \* activeScans
    sync,       \* the synchronous call the host is stopped in, if any
    since,      \* history: waiting call -> the disks there were since the call
    answer      \* answered calls -> what they were told

client == <<phase, queue, active, sync>>
vars == <<disk, cache, child, scan, phase, queue, active, sync, since, answer>>

ClientInit ==
    /\ EngineInit /\ disk \in StartDisks
    /\ phase = [c \in Calls |-> "idle"]
    /\ queue = <<>> /\ active = 0 /\ sync = {}
    /\ since = [c \in Calls |-> {}]
    /\ answer = [c \in {} |-> Failed]

Answered == DOMAIN answer

Answers(c, a) == answer' = [x \in Answered \cup {c} |-> IF x = c THEN a ELSE answer[x]]

\* A synchronous call stops every callback of the host.
HostIsFree == sync = {}

\* ---- a call ----

\* The processes of the calls cs start on their requests.
Spawned(kids, cs) == [c \in Calls |-> IF c \in cs THEN "running" ELSE kids[c]]
Begun(scans, cs) == [c \in Calls |-> IF c \in cs THEN [phase |-> "start"] ELSE scans[c]]

\* withScanSlot: at once when a slot is free, behind the others when not.
Call(c) ==
    /\ HostIsFree /\ c \notin SyncCalls /\ phase[c] = "idle"
    /\ since' = [since EXCEPT ![c] = {disk}]
    /\ IF active < MaxConcurrent
       THEN /\ active' = active + 1
            /\ phase' = [phase EXCEPT ![c] = "running"]
            /\ child' = Spawned(child, {c}) /\ scan' = Begun(scan, {c})
            /\ UNCHANGED queue
       ELSE /\ queue' = Append(queue, c)
            /\ phase' = [phase EXCEPT ![c] = "queued"]
            /\ UNCHANGED <<active, child, scan>>
    /\ UNCHANGED <<disk, cache, sync, answer>>

\* ---- the end of a scan ----

\* Mutant: whoever ends a scan leaves the queue alone.
RoomNever(n, q) == 0

\* pumpScanQueue, with n slots taken: as many of the queue as there is room.
Room(n, q) == Min({MaxConcurrent - n, Len(q)})

(***************************************************************************)
(* The promise of c is resolved with a, its slot is freed, the queue is    *)
(* pumped.  kids: the processes, as the callback leaves them.              *)
(***************************************************************************)
Finish(c, a, kids) ==
    LET k == Room(active - 1, queue)
        next == ToSet(SubSeq(queue, 1, k))
    IN  /\ Answers(c, a)
        /\ since' = [since EXCEPT ![c] = {}]
        /\ active' = active - 1 + k
        /\ queue' = SubSeq(queue, k + 1, Len(queue))
        /\ phase' = [x \in Calls |-> IF x = c THEN "answered"
                                     ELSE IF x \in next THEN "running" ELSE phase[x]]
        /\ child' = Spawned(kids, next)
        /\ scan' = Begun([scan EXCEPT ![c] = NoScan], next)

\* SIGKILL: a process that has ended stays ended, its close is still to come.
Killed(c) == IF child[c] = "running" THEN [child EXCEPT ![c] = "killed"] ELSE child

\* The request cannot be written to the process.
StdinFails(c) ==
    /\ HostIsFree /\ c \notin SyncCalls /\ phase[c] = "running"
    /\ child[c] = "running" /\ scan[c].phase = "start"
    /\ Finish(c, Failed, Killed(c))
    /\ UNCHANGED <<disk, cache, sync>>

\* The timer fires, before or after the process has ended.
Timeout(c) ==
    /\ HostIsFree /\ c \notin SyncCalls /\ phase[c] = "running"
    /\ Finish(c, Failed, Killed(c))
    /\ UNCHANGED <<disk, cache, sync>>

\* What an ended process has answered: one that broke or was killed exits
\* with another status than 0, and an engine that failed says so.
Response(c) ==
    IF child[c] = "exited" /\ scan[c].phase = "out" THEN scan[c].report ELSE Failed

\* Mutant: no `done` flag, a late close frees the slot once more.
CloseTwice(c) ==
    /\ HostIsFree /\ c \notin SyncCalls
    /\ child[c] \in {"exited", "broken", "killed"}
    /\ Finish(c, Response(c), [child EXCEPT ![c] = "gone"])
    /\ UNCHANGED <<disk, cache, sync>>

Close(c) ==
    /\ HostIsFree /\ c \notin SyncCalls
    /\ child[c] \in {"exited", "broken", "killed"}
    /\ LET kids == [child EXCEPT ![c] = "gone"]
       IN  IF phase[c] = "running"
           THEN Finish(c, Response(c), kids)
           ELSE child' = kids /\ UNCHANGED <<scan, phase, queue, active, since, answer>>
    /\ UNCHANGED <<disk, cache, sync>>

\* ---- the synchronous variant ----

CallSync(c) ==
    /\ HostIsFree /\ c \in SyncCalls /\ phase[c] = "idle"
    /\ since' = [since EXCEPT ![c] = {disk}]
    /\ sync' = {c}
    /\ phase' = [phase EXCEPT ![c] = "running"]
    /\ child' = Spawned(child, {c}) /\ scan' = Begun(scan, {c})
    /\ UNCHANGED <<disk, cache, queue, active, answer>>

\* The process has ended, or spawnSync kills it at the time-out.
SyncReturns(c) ==
    /\ sync = {c}
    /\ \/ child[c] # "running" /\ Answers(c, Response(c))
       \/ child[c] = "running" /\ Answers(c, Failed)
    /\ sync' = {}
    /\ phase' = [phase EXCEPT ![c] = "answered"]
    /\ child' = [child EXCEPT ![c] = "gone"]
    /\ scan' = [scan EXCEPT ![c] = NoScan]
    /\ since' = [since EXCEPT ![c] = {}]
    /\ UNCHANGED <<disk, cache, queue, active>>

\* ---- the world ----

Walking(c) == child[c] = "running" /\ scan[c].phase = "walk"

\* Somebody changes a file of the package.
Edit ==
    /\ Torn \/ \A c \in Calls : ~Walking(c)
    /\ \E e \in Edits :
        /\ disk[e[1]] # e[2]
        /\ disk' = [disk EXCEPT ![e[1]] = e[2]]
    /\ since' = [c \in Calls |-> IF phase[c] \in {"queued", "running"}
                                 THEN since[c] \cup {disk'} ELSE {}]
    /\ UNCHANGED <<cache, child, scan, phase, queue, active, sync, answer>>

Engine(c) == EngineStep(c) /\ UNCHANGED <<client, since, answer>>

Foreign == ForeignWrite /\ UNCHANGED <<disk, child, scan, client, since, answer>>

Next ==
    \/ \E c \in Calls : Call(c) \/ StdinFails(c) \/ Timeout(c) \/ Close(c)
                        \/ CallSync(c) \/ SyncReturns(c) \/ Engine(c)
    \/ Edit \/ Foreign

Spec == ClientInit /\ [][Next]_vars

\* Timers fire and a process that has ended is closed; nothing is asked of
\* the engine, which may hang.
FairSpec == Spec /\ \A c \in Calls : WF_vars(Timeout(c)) /\ WF_vars(SyncReturns(c))

\* ---- properties ----

TypeOK ==
    /\ disk \in Disks
    /\ child \in [Calls -> {"none", "running", "exited", "broken", "killed", "gone"}]
    /\ phase \in [Calls -> {"idle", "queued", "running", "answered"}]
    /\ queue \in Seq(Calls \ SyncCalls)
    /\ active \in 0..MaxConcurrent
    /\ sync \subseteq SyncCalls /\ Cardinality(sync) <= 1
    /\ since \in [Calls -> SUBSET Disks]
    /\ Answered \subseteq Calls

OnSlot == {c \in Calls \ SyncCalls : phase[c] = "running"}

(***************************************************************************)
(* withScanSlot and pumpScanQueue: the counter of taken slots is exact     *)
(* whatever way a scan ended and however late its process closes; no more  *)
(* than two scanner processes that nobody has killed work beside the host; *)
(* each queued call waits once, and nobody waits while a slot is free.     *)
(***************************************************************************)
SlotsExact ==
    /\ active = Cardinality(OnSlot)
    /\ {c \in Calls \ SyncCalls : child[c] = "running"} \subseteq OnSlot
    /\ ToSet(queue) = {c \in Calls : phase[c] = "queued"}
    /\ Len(queue) = Cardinality(ToSet(queue))
    /\ queue # <<>> => active = MaxConcurrent

(***************************************************************************)
(* cache.ts: what the cache holds under the bytes of a package is the      *)
(* report of a full walk of these bytes, for the family it was made for;   *)
(* a walk cut off by its budget leaves nothing behind.                     *)
(***************************************************************************)
CacheFaithful ==
    \A e \in cache : e.own =>
        e.report.found = UNION {FileFindings(Kind[f], e.bytes[f], e.official) : f \in Files}

\* The answer claims the direct dependencies were all looked up.
ClaimsAdvisories(r) == r # Failed /\ r.osv # NoOsv /\ IntelRow(FALSE, r.osv).result = "covered"

(***************************************************************************)
(* When the statistics of an answer make intel_osv a covered surface, the  *)
(* answer names every advisory known of the package and the dependencies   *)
(* asked about, or as many as it has room for: neither a failed query, a   *)
(* budget that ran out nor an advisory that several of them share is taken *)
(* for "nothing known".  Of calls with the transitive radar it is not      *)
(* true: its overrun drops the direct findings.                            *)
(***************************************************************************)
AllNamed(vulns) ==
    LET known == KnownOf(Targets)
    IN  IF Cardinality(known) <= MaxNamed THEN vulns = known ELSE Cardinality(vulns) = MaxNamed

AdvisoriesKept ==
    \A c \in Answered \ RadarCalls : ClaimsAdvisories(answer[c]) => AllNamed(answer[c].vulns)

\* A report is true of d for call c: it invents nothing, and says so when it
\* leaves something out.
ReportExplains(c, d, r) ==
    LET static == r.found \ {"advisory"}
        full == Full(d, c)
    IN  /\ static \subseteq full \cup {"skip"}
        /\ "skip" \notin r.found => static = full

(***************************************************************************)
(* scan() and scanSync() implement ScanPromise: the queue, the processes,  *)
(* the timers, the kills, the budgets and the cache are not to be seen in  *)
(* the answers.                                                            *)
(***************************************************************************)
Promise == INSTANCE ScanPromise WITH
    asked <- {c \in Calls : phase[c] # "idle"},
    Explains <- ReportExplains

Promised == Promise!PromiseSpec

(***************************************************************************)
(* Who asks is answered, by the timer at the latest: also from the queue,  *)
(* behind processes that hang, and after a synchronous scan stopped the    *)
(* host.  (Each call is made once: in the end nobody waits.)               *)
(***************************************************************************)
EveryoneAnswered == <>[](\A c \in Calls : phase[c] \in {"idle", "answered"})

=============================================================================
