----------------------------- MODULE ScanEngine -----------------------------
(***************************************************************************)
(* The scanner process (scanner-bin/): it reads one request, looks for a   *)
(* cached report of the same bytes, walks the files against a budget,      *)
(* stores the report, asks the advisory service and a dependency radar     *)
(* against another budget, writes its answer and ends.  The host may kill  *)
(* it, and it may crash, at any point.  engine.ts, cache.ts, osv.ts,       *)
(* score.ts, index.ts.                                                     *)
(*                                                                         *)
(* All calls scan one package (a call that passes a source text reads no   *)
(* file, cache or service: it is its verdict alone, and is in ToolGuard). *)
(*                                                                         *)
(* A file is its kind and what it holds; the rules are the function        *)
(* FileFindings, a finding is its class: "critical", "info" (does not      *)
(* decide), "skip" (rule R8: a file or the rest of the walk was left out)  *)
(* and "advisory" (a known vulnerability).                                 *)
(***************************************************************************)
EXTENDS ScanCoverage, Sequences

CONSTANTS
    Calls,        \* scan requests
    Kind,         \* the files, in the order of the walk: sequence of kinds
    Contents,     \* "benign", "evil", "huge", "empty", "bad": what a file may hold
    Official,     \* calls with officialFamily: findings in build output are folded
    OsvCalls,     \* calls that ask for advisories
    RadarCalls,   \* calls that ask for transitive dependencies as well
    Advisories,   \* ids in the vulnerability database
    Manifest,     \* the package, then its dependencies in order: [ours, exact, known],
                  \*   known: the advisories the service has for that version
    MaxDirectDeps, \* OSV_MAX_DIRECT_DEPS, 8
    MaxNamed,     \* an answer names no more advisories than this, 10
    Torn          \* whether the package may change while it is being walked

Files == DOMAIN Kind
Disks == [Files -> Contents]

\* directDepsOf: the first few dependencies that are not of the host's own scope.
DirectDeps ==
    LET foreign == SelectSeq(Tail(Manifest), LAMBDA d : ~d.ours)
    IN  IF Len(foreign) > MaxDirectDeps THEN SubSeq(foreign, 1, MaxDirectDeps) ELSE foreign

\* lookForOsvVulns asks about the package and these dependencies, as far as their
\* versions are exact: a range names no version to ask about.
Asked == SelectSeq(<<Head(Manifest)>> \o DirectDeps, LAMBDA d : d.exact)
Targets == Len(Asked)

\* What the service knows of the first n of them; several may share an advisory.
KnownOf(n) == UNION {Asked[t].known : t \in 1..n}

ASSUME EngineAssumption ==
    /\ Kind \in Seq({"source", "artifact", "manifest", "text", "native", "other"})
    /\ Official \cup OsvCalls \cup RadarCalls \subseteq Calls
    /\ RadarCalls \subseteq OsvCalls
    /\ Manifest \in Seq([ours : BOOLEAN, exact : BOOLEAN, known : SUBSET Advisories])
    /\ Manifest # <<>>
    /\ MaxDirectDeps \in Nat /\ MaxNamed \in Nat \ {0}

VARIABLES
    disk,         \* file -> what it holds
    cache,        \* entries [bytes, official, report, own] in the cache directory
    child,        \* call -> its process
    scan          \* call -> where the engine is in it

engine == <<disk, cache, child, scan>>

NoScan == [phase |-> "none"]

\* ---- the rules and the report ----

(***************************************************************************)
(* What the walk adds for one file; its kind "artifact" is what            *)
(* artifactKind finds: build output, minified code, declarations.  Too     *)
(* large: a skip marker.  Unreadable or empty: nothing.  Rules that throw  *)
(* on a source leave a marker, too                                         *)
(* (Throws has the other case).  In build output of an official package a  *)
(* critical finding is folded to information.                              *)
(***************************************************************************)
FileFindings(kind, content, official) ==
    CASE kind \in {"native", "other"} \/ content \in {"benign", "empty"} -> {}
      [] kind \notin {"native", "other"} /\ content = "huge"             -> {"skip"}
      [] kind \in {"source", "artifact"} /\ content = "bad"              -> {"skip"}
      [] kind \notin {"native", "other"} /\ content = "evil" ->
            IF kind = "artifact" /\ official THEN {"info"} ELSE {"critical"}
      [] OTHER                                                           -> {}

\* Scripts, configuration and instruction files have no try around the rules.
Throws(kind, content) == kind = "text" /\ content = "bad"

CountsAsSource(kind, content) == kind \in {"source", "artifact"} /\ content \in {"benign", "evil"}

\* computeVerdict: heuristics and information do not decide.
Verdict(found) ==
    IF "critical" \in found THEN "critical"
    ELSE IF "advisory" \in found THEN "suspicious" ELSE "clean"

Report(found, sources) == [found |-> found, sources |-> sources, osv |-> NoOsv, vulns |-> {}]

\* The report of a walk that nothing disturbed: the reference.
Full(d, c) == UNION {FileFindings(Kind[f], d[f], c \in Official) : f \in Files}

\* ---- the cache ----

\* cacheKey: what was read of every file, and the context that changes verdicts.
EntriesFor(c, d) == {e \in cache : e.bytes = d /\ e.official = (c \in Official)}

\* readCached: an entry another host wrote is not used.
\* Mutant: entries of other hosts are believed.
HitsAll(c, d) == EntriesFor(c, d)

Hits(c, d) == {e \in EntriesFor(c, d) : e.own}

Stored(c, d, report) ==
    (cache \ EntriesFor(c, d)) \cup
    {[bytes |-> d, official |-> c \in Official, report |-> report, own |-> TRUE]}

\* ---- the engine ----

Running(c) == child[c] = "running"

Go(c, s) == scan' = [scan EXCEPT ![c] = s]

\* What follows the static report: the answer, or the advisory phase.
After(c, report) ==
    IF c \in OsvCalls
    THEN [phase |-> "budget", report |-> report]
    ELSE [phase |-> "out", report |-> report]

\* The files are read once for the key, and again one by one in the walk.
ReadKey(c) ==
    /\ Running(c) /\ scan[c].phase = "start"
    /\ \/ \E e \in Hits(c, disk) : Go(c, After(c, e.report))
       \/ /\ Hits(c, disk) = {}
          /\ Go(c, [phase |-> "walk", bytes |-> disk, next |-> 1, found |-> {}, sources |-> 0])
    /\ UNCHANGED <<disk, cache, child>>

WalkFile(c) ==
    /\ Running(c) /\ scan[c].phase = "walk" /\ scan[c].next \in Files
    /\ LET s == scan[c]
           f == s.next
       IN  IF Throws(Kind[f], disk[f])
           THEN Go(c, [phase |-> "error"])
           ELSE Go(c, [s EXCEPT !.next = f + 1,
                                !.found = @ \cup FileFindings(Kind[f], disk[f], c \in Official),
                                !.sources = @ + IF CountsAsSource(Kind[f], disk[f]) THEN 1 ELSE 0])
    /\ UNCHANGED <<disk, cache, child>>

\* The budget is looked at before every file but the first; what is left of
\* the walk becomes one marker, and the partial report is not stored.
\* Mutant: the walk that was cut off is stored like a full one.
WalkOverStored(c) ==
    /\ Running(c) /\ scan[c].phase = "walk" /\ scan[c].next \in Files \ {1}
    /\ LET report == Report(scan[c].found \cup {"skip"}, scan[c].sources)
       IN  Go(c, After(c, report)) /\ cache' = Stored(c, scan[c].bytes, report)
    /\ UNCHANGED <<disk, child>>

WalkOver(c) ==
    /\ Running(c) /\ scan[c].phase = "walk" /\ scan[c].next \in Files \ {1}
    /\ Go(c, After(c, Report(scan[c].found \cup {"skip"}, scan[c].sources)))
    /\ UNCHANGED <<disk, cache, child>>

WalkDone(c) ==
    /\ Running(c) /\ scan[c].phase = "walk" /\ scan[c].next \notin Files
    /\ LET report == Report(scan[c].found, scan[c].sources)
       IN  Go(c, After(c, report)) /\ cache' = Stored(c, scan[c].bytes, report)
    /\ UNCHANGED <<disk, child>>

\* ---- advisories ----

Stats(phase, attempted, answered) ==
    [phase |-> phase, targets |-> Targets, attempted |-> attempted, answered |-> answered]

Untouched == [phase |-> "skipped", targets |-> 0, attempted |-> 0, answered |-> 0]

\* withOsv: the statistics go into the report as they are at this moment.
WithOsv(report, stats, vulns) ==
    [report EXCEPT !.osv = stats, !.vulns = vulns,
                   !.found = @ \cup IF vulns = {} THEN {} ELSE {"advisory"}]

\* Too little of the host's time is left: the phase is skipped.
OsvSkip(c) ==
    /\ Running(c) /\ scan[c].phase = "budget"
    /\ Go(c, [phase |-> "out", report |-> WithOsv(scan[c].report, Untouched, {})])
    /\ UNCHANGED <<disk, cache, child>>

OsvStart(c) ==
    /\ Running(c) /\ scan[c].phase = "budget"
    /\ Go(c, [phase |-> "osv", report |-> scan[c].report, asked |-> 0, answered |-> 0,
              seen |-> {}, stage |-> "overran"])
    /\ UNCHANGED <<disk, cache, child>>

\* The advisories of one more answer: one that is named already is not named
\* again, whichever target it was found under, and those past the limit are not
\* named at all.
Named(seen, known) ==
    LET all == seen \cup known
    IN  IF Cardinality(all) <= MaxNamed
        THEN {all}
        ELSE {some \in SUBSET all : seen \subseteq some /\ Cardinality(some) = MaxNamed}

\* There is a target to ask about, and the answer has room for its advisories.
MoreToAsk(c) ==
    /\ Running(c) /\ scan[c].phase = "osv" /\ scan[c].stage = "overran"
    /\ scan[c].asked < Targets /\ Cardinality(scan[c].seen) < MaxNamed

\* One target after the other; a query fails, is cut off by its own time-out,
\* or is answered.
\* Mutant: a query that failed counts as answered.
QueryCounted(c) ==
    /\ MoreToAsk(c)
    /\ LET t == scan[c].asked + 1
       IN  \E known \in {{}, Asked[t].known} : \E seen \in Named(scan[c].seen, known) :
               Go(c, [scan[c] EXCEPT !.asked = t, !.answered = @ + 1, !.seen = seen])
    /\ UNCHANGED <<disk, cache, child>>

Query(c) ==
    /\ MoreToAsk(c)
    /\ LET t == scan[c].asked + 1
       IN  \/ Go(c, [scan[c] EXCEPT !.asked = t])
           \/ \E seen \in Named(scan[c].seen, Asked[t].known) :
                 Go(c, [scan[c] EXCEPT !.asked = t, !.answered = @ + 1, !.seen = seen])
    /\ UNCHANGED <<disk, cache, child>>

\* The direct check returns: all asked, the budget at an end between two
\* queries, or enough found.  The phase is "ran" from here on.
DirectDone(c) ==
    /\ Running(c) /\ scan[c].phase = "osv" /\ scan[c].stage = "overran"
    /\ LET s == scan[c]
       IN  IF c \in RadarCalls
           THEN Go(c, [s EXCEPT !.stage = "ran"])
           ELSE Go(c, [phase |-> "out",
                       report |-> WithOsv(s.report, Stats("ran", s.asked, s.answered), s.seen)])
    /\ UNCHANGED <<disk, cache, child>>

\* The radar answers (its findings are of medium severity), is not installed, is
\* part of the package it should look at, or fails.
RadarDone(c) ==
    /\ Running(c) /\ scan[c].phase = "osv" /\ scan[c].stage = "ran"
    /\ LET s == scan[c]
       IN  Go(c, [phase |-> "out",
                  report |-> WithOsv(s.report, Stats("ran", s.asked, s.answered), s.seen)])
    /\ UNCHANGED <<disk, cache, child>>

\* The budget of the whole phase runs out under a query or under the radar:
\* the static report goes out with the statistics as they stand.
Overrun(c) ==
    /\ Running(c) /\ scan[c].phase = "osv"
    /\ LET s == scan[c]
       IN  Go(c, [phase |-> "out",
                  report |-> WithOsv(s.report, Stats(s.stage, s.asked, s.answered), {})])
    /\ UNCHANGED <<disk, cache, child>>

\* ---- the end of the process ----

\* The answer is written in full before the process exits with status 0.
Exit(c) ==
    /\ Running(c) /\ scan[c].phase \in {"out", "error"}
    /\ child' = [child EXCEPT ![c] = "exited"]
    /\ UNCHANGED <<disk, cache, scan>>

\* It does not start, dies, writes more than the host reads, or its last line
\* is not the answer.
Break(c) ==
    /\ Running(c)
    /\ child' = [child EXCEPT ![c] = "broken"]
    /\ Go(c, NoScan)
    /\ UNCHANGED <<disk, cache>>

EngineStep(c) ==
    \/ ReadKey(c) \/ WalkFile(c) \/ WalkOver(c) \/ WalkDone(c)
    \/ OsvSkip(c) \/ OsvStart(c) \/ Query(c) \/ DirectDone(c) \/ RadarDone(c)
    \/ Overrun(c) \/ Exit(c) \/ Break(c)

\* Another host keeps its reports in the same directory, under the same
\* names.  One such entry at a time is enough to be misled by.
ForeignWrite ==
    /\ \A e \in cache : e.own
    /\ \E official \in BOOLEAN :
        cache' = {e \in cache : ~(e.bytes = disk /\ e.official = official)} \cup
                 {[bytes |-> disk, official |-> official, report |-> Report({}, 0), own |-> FALSE]}

EngineInit ==
    /\ disk \in Disks
    /\ cache = {}
    /\ child = [c \in Calls |-> "none"]
    /\ scan = [c \in Calls |-> NoScan]

=============================================================================
