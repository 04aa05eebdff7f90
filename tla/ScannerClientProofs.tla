-------------------------- MODULE ScannerClientProofs --------------------------
(***************************************************************************)
(* For every set of calls, every package, every number of slots and        *)
(* dependencies: the types of ScannerClient, its slots and queue, what an  *)
(* answer says of advisories, what the cache holds, and the step-by-step   *)
(* proof that it implements ScanPromise.  The last two speak of packages   *)
(* that do not change under a walk (~Torn): the files are read twice, once *)
(* for the key of the cache and once by the rules.                         *)
(***************************************************************************)
EXTENDS ScannerClient, FiniteSetTheorems, SequenceTheorems, TLAPS

(***************************************************************************)
(* The inductive invariant, in parts.                                      *)
(***************************************************************************)
Classes == {"critical", "info", "skip", "advisory"}

\* What a walk reports, and what goes into the cache.
StaticReports ==
    [found : SUBSET (Classes \ {"advisory"}), sources : Nat, osv : {NoOsv}, vulns : {{}}]

Statistics == [phase : {"ran", "skipped", "overran"}, targets : Nat, attempted : Nat, answered : Nat]

Reports ==
    StaticReports \cup
    [found : SUBSET Classes, sources : Nat, osv : Statistics, vulns : SUBSET KnownOf(Targets)]

Entries == [bytes : Disks, official : BOOLEAN, report : StaticReports, own : BOOLEAN]

Walks ==
    [phase : {"walk"}, bytes : Disks, next : 1..(Len(Kind) + 1),
     found : SUBSET (Classes \ {"advisory"}), sources : Nat]

Lookups ==
    {l \in [phase : {"osv"}, report : StaticReports, asked : 0..Targets, answered : 0..Targets,
            seen : SUBSET KnownOf(Targets), stage : {"overran", "ran"}] : l.answered <= l.asked}

Scans ==
    [phase : {"none", "start", "error"}] \cup Walks \cup Lookups \cup
    [phase : {"budget"}, report : StaticReports] \cup [phase : {"out"}, report : Reports]

EngineTypeOK ==
    /\ cache \subseteq Entries
    /\ scan \in [Calls -> Scans]

\* Where a call is and where its process is go together.
Lifecycle ==
    /\ Answered = {c \in Calls : phase[c] = "answered"}
    /\ \A c \in Calls : child[c] = "running" => phase[c] = "running"
    /\ \A c \in Calls : phase[c] \in {"idle", "queued"} => child[c] = "none"
    /\ \A c \in sync : phase[c] = "running"

SlotInv ==
    /\ IsFiniteSet(OnSlot)
    /\ active = Cardinality(OnSlot)
    /\ IsInjective(queue)
    /\ ToSet(queue) = {c \in Calls : phase[c] = "queued"}
    /\ queue # <<>> => active = MaxConcurrent

ClientInv == TypeOK /\ EngineTypeOK /\ Lifecycle /\ SlotInv

\* What was seen is all that is known of the first n targets, as far as there is room.
SeenAll(seen, n) ==
    IF Cardinality(KnownOf(n)) <= MaxNamed THEN seen = KnownOf(n) ELSE Cardinality(seen) = MaxNamed

\* A lookup whose queries were all answered has seen what there is to see.
LookupsAddUp ==
    \A c \in Calls : scan[c].phase = "osv" =>
        /\ scan[c].answered = scan[c].asked => SeenAll(scan[c].seen, scan[c].asked)
        /\ c \notin RadarCalls => scan[c].stage = "overran"

AdvisoriesTold(r) == ClaimsAdvisories(r) => AllNamed(r.vulns)

AdvisoryInv ==
    /\ LookupsAddUp
    /\ \A c \in Calls \ RadarCalls : scan[c].phase = "out" => AdvisoriesTold(scan[c].report)
    /\ AdvisoriesKept

\* What the rules find in the files before file n.
FoundBefore(c, d, n) == UNION {FileFindings(Kind[f], d[f], c \in Official) : f \in {g \in Files : g < n}}

\* A walk has read the files as they are, up to the one it is at.
WalksTrue ==
    \A c \in Calls : Walking(c) =>
        /\ scan[c].bytes = disk
        /\ scan[c].found = FoundBefore(c, disk, scan[c].next)

\* Whoever waits knows of the present bytes, and a report that is under way is
\* explained by bytes it knows of.
ReportsTrue ==
    \A c \in Calls :
        /\ phase[c] \in {"queued", "running"} => disk \in since[c]
        /\ phase[c] = "running" /\ scan[c].phase \in {"budget", "osv", "out"}
           => \E d \in since[c] : ReportExplains(c, d, scan[c].report)

TruthInv == CacheFaithful /\ WalksTrue /\ ReportsTrue

-----------------------------------------------------------------------------
(* Operators.                                                              *)

\* The minimum of two numbers.
LEMMA MinOfTwo ==
  ASSUME NEW a \in Int, NEW b \in Int
  PROVE  Min({a, b}) = IF a <= b THEN a ELSE b
<1>. DEFINE m == IF a <= b THEN a ELSE b
<1>1. m \in {a, b} /\ \A y \in {a, b} : m <= y
  OBVIOUS
<1>2. \A x \in {a, b} : (\A y \in {a, b} : x <= y) => x = m
  OBVIOUS
<1>. QED  BY <1>1, <1>2 DEF Min

\* A sequence without repetitions has as many elements as it is long.
LEMMA InjectiveSize ==
  ASSUME NEW S, NEW s \in Seq(S), IsInjective(s)
  PROVE  IsFiniteSet(ToSet(s)) /\ Cardinality(ToSet(s)) = Len(s)
<1>1. Len(s) \in Nat /\ DOMAIN s = 1..Len(s) /\ s \in [1..Len(s) -> ToSet(s)]
  BY DEF ToSet
<1>2. s \in Bijection(1..Len(s), ToSet(s))
  BY <1>1 DEF IsInjective, ToSet, Bijection, Injection, Surjection
<1>3. ExistsBijection(1..Len(s), ToSet(s))
  BY <1>2 DEF ExistsBijection
<1>. QED  BY <1>1, <1>3, FS_NatBijection, FS_CountingElements

LEMMA TargetsType == Targets \in Nat
  BY EngineAssumption DEF Targets

\* An answer adds what it knows and nothing else.
LEMMA NamedWithin ==
  ASSUME NEW seen, NEW known, NEW all \in Named(seen, known)
  PROVE  all \subseteq seen \cup known
<1>1. CASE Cardinality(seen \cup known) <= MaxNamed
  BY <1>1 DEF Named
<1>2. CASE ~(Cardinality(seen \cup known) <= MaxNamed)
  BY <1>2 DEF Named
<1>. QED  BY <1>1, <1>2

\* While there is room, an answer names all it knows, or fills the room.
LEMMA NamedAll ==
  ASSUME NEW n \in Nat, NEW seen, SeenAll(seen, n), Cardinality(seen) < MaxNamed,
         NEW all \in Named(seen, Asked[n + 1].known)
  PROVE  SeenAll(all, n + 1)
<1>1. seen = KnownOf(n)
  BY EngineAssumption DEF SeenAll
<1>2. 1..(n + 1) = (1..n) \cup {n + 1}
  OBVIOUS
<1>3. KnownOf(n + 1) = seen \cup Asked[n + 1].known
  BY <1>1, <1>2 DEF KnownOf
<1>4. CASE Cardinality(KnownOf(n + 1)) <= MaxNamed
  BY <1>3, <1>4 DEF Named, SeenAll
<1>5. CASE ~(Cardinality(KnownOf(n + 1)) <= MaxNamed)
  BY <1>3, <1>5 DEF Named, SeenAll
<1>. QED  BY <1>4, <1>5

\* The rules never report an advisory.
LEMMA FindingsType ==
  ASSUME NEW kind, NEW content, NEW official
  PROVE  FileFindings(kind, content, official) \subseteq Classes \ {"advisory"}
  BY DEF FileFindings, Classes

-----------------------------------------------------------------------------
(* One lemma per group of steps: first the engine.                         *)

\* What a step of the engine may do to its own scan.
LEMMA EngineTouches ==
  ASSUME NEW c \in Calls, ClientInv, EngineStep(c)
  PROVE  /\ Running(c)
         /\ disk' = disk
         /\ \E s \in Scans : scan' = [scan EXCEPT ![c] = s]
         /\ cache' \subseteq Entries
         /\ child' \in {child, [child EXCEPT ![c] = "exited"], [child EXCEPT ![c] = "broken"]}
<1>1. /\ scan \in [Calls -> Scans] /\ scan[c] \in Scans /\ disk \in Disks /\ cache \subseteq Entries
      /\ Targets \in Nat /\ Len(Kind) \in Nat /\ Files = 1..Len(Kind)
  BY TargetsType, EngineAssumption DEF Files, ClientInv, TypeOK, EngineTypeOK
<1>2. ASSUME NEW r \in StaticReports PROVE After(c, r) \in Scans
  BY <1>2 DEF After, Scans, Reports
<1>3. CASE ReadKey(c)
  <2>1. \A e \in Hits(c, disk) : e.report \in StaticReports
    BY <1>1 DEF Hits, EntriesFor, Entries
  <2>2. [phase |-> "walk", bytes |-> disk, next |-> 1, found |-> {}, sources |-> 0] \in Scans
    BY <1>1 DEF Scans, Walks
  <2>. QED  BY <1>1, <1>2, <1>3, <2>1, <2>2 DEF ReadKey, Go
<1>4. CASE WalkFile(c)
  <2>1. scan[c] \in Walks
    BY <1>1, <1>4 DEF WalkFile, Scans, Lookups
  <2>. DEFINE f == scan[c].next
              s == [scan[c] EXCEPT !.next = f + 1,
                      !.found = @ \cup FileFindings(Kind[f], disk[f], c \in Official),
                      !.sources = @ + IF CountsAsSource(Kind[f], disk[f]) THEN 1 ELSE 0]
  <2>2. FileFindings(Kind[f], disk[f], c \in Official) \subseteq Classes \ {"advisory"}
    BY FindingsType
  <2>3. s \in Walks
    <3>1. f \in 1..Len(Kind) /\ f + 1 \in 1..(Len(Kind) + 1)
      BY <1>1, <1>4 DEF WalkFile
    <3>2. scan[c].sources + (IF CountsAsSource(Kind[f], disk[f]) THEN 1 ELSE 0) \in Nat
      BY <2>1 DEF Walks
    <3>3. scan[c].found \cup FileFindings(Kind[f], disk[f], c \in Official) \subseteq Classes \ {"advisory"}
      BY <2>1, <2>2 DEF Walks
    <3>. QED  BY <2>1, <3>1, <3>2, <3>3 DEF Walks
  <2>4. [phase |-> "error"] \in Scans
    BY DEF Scans
  <2>5. scan' \in {[scan EXCEPT ![c] = s], [scan EXCEPT ![c] = [phase |-> "error"]]}
    BY <1>4 DEF WalkFile, Go
  <2>6. s \in Scans
    BY <2>3 DEF Scans
  <2>. HIDE DEF s
  <2>. QED  BY <1>1, <1>4, <2>4, <2>5, <2>6 DEF WalkFile
<1>5. CASE WalkOver(c)
  <2>1. scan[c] \in Walks
    BY <1>1, <1>5 DEF WalkOver, Scans, Lookups
  <2>2. Report(scan[c].found \cup {"skip"}, scan[c].sources) \in StaticReports
    BY <2>1 DEF Walks, Report, StaticReports, Classes
  <2>. QED  BY <1>1, <1>2, <1>5, <2>2 DEF WalkOver, Go
<1>6. CASE WalkDone(c)
  <2>1. scan[c] \in Walks
    BY <1>1, <1>6 DEF WalkDone, Scans, Lookups
  <2>2. Report(scan[c].found, scan[c].sources) \in StaticReports
    BY <2>1 DEF Walks, Report, StaticReports, Classes
  <2>3. Stored(c, scan[c].bytes, Report(scan[c].found, scan[c].sources)) \subseteq Entries
    <3>1. scan[c].bytes \in Disks /\ (c \in Official) \in BOOLEAN
      BY <2>1 DEF Walks
    <3>2. [bytes |-> scan[c].bytes, official |-> c \in Official,
           report |-> Report(scan[c].found, scan[c].sources), own |-> TRUE] \in Entries
      BY <2>2, <3>1 DEF Entries
    <3>. QED  BY <1>1, <3>2 DEF Stored
  <2>. QED  BY <1>1, <1>2, <1>6, <2>2, <2>3 DEF WalkDone, Go
<1>7. ASSUME NEW r \in StaticReports, NEW st \in Statistics, NEW v \in SUBSET KnownOf(Targets)
      PROVE  WithOsv(r, st, v) \in Reports
  BY DEF WithOsv, StaticReports, Reports, Classes
<1>8. ASSUME NEW r \in Reports PROVE [phase |-> "out", report |-> r] \in Scans
  BY DEF Scans
<1>9. CASE OsvSkip(c)
  <2>1. scan[c].report \in StaticReports
    BY <1>1, <1>9 DEF OsvSkip, Scans, Walks, Lookups
  <2>2. Untouched \in Statistics
    BY DEF Untouched, Statistics
  <2>. QED  BY <1>1, <1>7, <1>8, <1>9, <2>1, <2>2 DEF OsvSkip, Go
<1>10. CASE OsvStart(c)
  <2>1. scan[c].report \in StaticReports
    BY <1>1, <1>10 DEF OsvStart, Scans, Walks, Lookups
  <2>2. [phase |-> "osv", report |-> scan[c].report, asked |-> 0, answered |-> 0,
         seen |-> {}, stage |-> "overran"] \in Lookups
    BY <1>1, <2>1 DEF Lookups
  <2>. QED  BY <1>1, <1>10, <2>2 DEF OsvStart, Go, Scans
<1>11. ASSUME scan[c].phase = "osv"
       PROVE  /\ scan[c] \in Lookups
              /\ \A x \in {"ran", scan[c].stage} : Stats(x, scan[c].asked, scan[c].answered) \in Statistics
  <2>1. scan[c] \in Lookups
    BY <1>1, <1>11 DEF Scans, Walks
  <2>. QED  BY <1>1, <2>1 DEF Lookups, Stats, Statistics
<1>12. CASE Query(c)
  <2>1. scan[c] \in Lookups /\ scan[c].asked < Targets
    BY <1>11, <1>12 DEF Query, MoreToAsk
  <2>. DEFINE n == scan[c].asked + 1
              s1 == [scan[c] EXCEPT !.asked = n]
              s2(seen) == [scan[c] EXCEPT !.asked = n, !.answered = @ + 1, !.seen = seen]
              known == Asked[n].known
  <2>2. /\ n \in 1..Targets /\ n \in 0..Targets /\ scan[c].answered + 1 \in 0..Targets
        /\ scan[c].answered <= n /\ scan[c].answered + 1 <= n
        /\ scan[c].seen \subseteq KnownOf(Targets)
    BY <1>1, <2>1 DEF Lookups
  <2>3. known \subseteq KnownOf(Targets)
    BY <2>2 DEF KnownOf
  <2>4. ASSUME NEW seen \in Named(scan[c].seen, known) PROVE seen \subseteq KnownOf(Targets)
    <3>1. seen \subseteq scan[c].seen \cup known
      BY <2>4, NamedWithin
    <3>. QED  BY <2>2, <2>3, <3>1
  <2>5. s1 \in Scans
    BY <2>1, <2>2 DEF Lookups, Scans
  <2>6. ASSUME NEW seen, seen \subseteq KnownOf(Targets) PROVE s2(seen) \in Scans
    BY <2>1, <2>2, <2>6 DEF Lookups, Scans
  <2>7. \/ scan' = [scan EXCEPT ![c] = s1]
        \/ \E seen \in Named(scan[c].seen, known) : scan' = [scan EXCEPT ![c] = s2(seen)]
    BY <1>12 DEF Query, Go
  <2>8. PICK s \in Scans : scan' = [scan EXCEPT ![c] = s]
    <3>. HIDE DEF s1, s2, known
    <3>. QED  BY <2>4, <2>5, <2>6, <2>7
  <2>. QED  BY <1>1, <1>12, <2>8 DEF Query, MoreToAsk
<1>13. CASE DirectDone(c)
  <2>1. scan[c] \in Lookups /\ Stats("ran", scan[c].asked, scan[c].answered) \in Statistics
    BY <1>11, <1>13 DEF DirectDone
  <2>2. [scan[c] EXCEPT !.stage = "ran"] \in Lookups
    BY <2>1 DEF Lookups
  <2>3. scan[c].report \in StaticReports /\ scan[c].seen \in SUBSET KnownOf(Targets)
    BY <2>1 DEF Lookups
  <2>. QED  BY <1>1, <1>7, <1>8, <1>13, <2>1, <2>2, <2>3 DEF DirectDone, Go, Scans
<1>14. CASE RadarDone(c)
  <2>1. scan[c] \in Lookups /\ Stats("ran", scan[c].asked, scan[c].answered) \in Statistics
    BY <1>11, <1>14 DEF RadarDone
  <2>2. scan[c].report \in StaticReports /\ scan[c].seen \in SUBSET KnownOf(Targets)
    BY <2>1 DEF Lookups
  <2>. QED  BY <1>1, <1>7, <1>8, <1>14, <2>1, <2>2 DEF RadarDone, Go
<1>15. CASE Overrun(c)
  <2>1. scan[c] \in Lookups /\ Stats(scan[c].stage, scan[c].asked, scan[c].answered) \in Statistics
    BY <1>11, <1>15 DEF Overrun
  <2>2. scan[c].report \in StaticReports
    BY <2>1 DEF Lookups
  <2>. QED  BY <1>1, <1>7, <1>8, <1>15, <2>1, <2>2 DEF Overrun, Go
<1>16. CASE Exit(c)
  BY <1>1, <1>16 DEF Exit
<1>17. CASE Break(c)
  BY <1>1, <1>17 DEF Break, Go, NoScan, Scans
<1>. QED
  BY <1>3, <1>4, <1>5, <1>6, <1>9, <1>10, <1>12, <1>13, <1>14, <1>15, <1>16, <1>17
  DEF EngineStep, Running, ReadKey, WalkFile, WalkOver, WalkDone, OsvSkip, OsvStart, Query,
      DirectDone, RadarDone, Overrun, Exit, Break

\* What the queue and the counter look like after a slot was given back.
LEMMA Pump ==
  ASSUME TypeOK, SlotInv, NEW c \in OnSlot
  PROVE  LET k    == Room(active - 1, queue)
             next == ToSet(SubSeq(queue, 1, k))
             rest == SubSeq(queue, k + 1, Len(queue))
         IN  /\ active \in Nat \ {0} /\ k \in 0..Len(queue)
             /\ active - 1 + k \in 0..MaxConcurrent
             /\ rest \in Seq(Calls \ SyncCalls) /\ IsInjective(rest)
             /\ rest # <<>> => active - 1 + k = MaxConcurrent
             /\ IsFiniteSet(next) /\ Cardinality(next) = k
             /\ next \cup ToSet(rest) = ToSet(queue) /\ next \cap ToSet(rest) = {}
<1>. DEFINE k    == Room(active - 1, queue)
            first == SubSeq(queue, 1, k)
            next == ToSet(first)
            rest == SubSeq(queue, k + 1, Len(queue))
<1>1. active \in Nat \ {0} /\ active <= MaxConcurrent /\ MaxConcurrent \in Nat
  BY FS_EmptySet, FS_CardinalityType, ClientAssumption DEF TypeOK, SlotInv
<1>len. Len(queue) \in Nat
  BY DEF TypeOK
<1>2. /\ queue \in Seq(Calls \ SyncCalls) /\ Len(queue) \in Nat /\ DOMAIN queue = 1..Len(queue)
      /\ \A i, j \in 1..Len(queue) : queue[i] = queue[j] => i = j
  BY DEF TypeOK, SlotInv, IsInjective
<1>3. k = IF MaxConcurrent - (active - 1) <= Len(queue) THEN MaxConcurrent - (active - 1) ELSE Len(queue)
  BY <1>1, <1>2, MinOfTwo DEF Room
<1>. HIDE DEF k
<1>4. k \in 0..Len(queue) /\ active - 1 + k \in 0..MaxConcurrent
  BY <1>1, <1>len, <1>3
<1>5. /\ first \in Seq(Calls \ SyncCalls) /\ Len(first) = k
      /\ \A i \in 1..k : first[i] = queue[i]
  BY <1>2, <1>4, ElementOfSeq, SubSeqProperties
<1>6. /\ rest \in Seq(Calls \ SyncCalls) /\ Len(rest) = Len(queue) - k
      /\ \A i \in 1..(Len(queue) - k) : rest[i] = queue[k + i]
  <2>1. \A i \in (k + 1)..Len(queue) : queue[i] \in Calls \ SyncCalls
    BY <1>2, <1>4, ElementOfSeq
  <2>2. k + 1 \in Int /\ Len(queue) \in Int
    BY <1>2, <1>4
  <2>3. /\ rest \in Seq(Calls \ SyncCalls)
        /\ Len(rest) = IF k + 1 <= Len(queue) THEN Len(queue) - (k + 1) + 1 ELSE 0
        /\ \A i \in 1..(Len(queue) - (k + 1) + 1) : rest[i] = queue[k + 1 + i - 1]
    BY <2>1, <2>2, SubSeqProperties
  <2>4. \A i \in 1..(Len(queue) - k) : i \in 1..(Len(queue) - (k + 1) + 1) /\ k + 1 + i - 1 = k + i
    BY <1>2, <1>4
  <2>5. Len(rest) = Len(queue) - k
    <3>. HIDE DEF rest
    <3>. QED  BY <1>len, <1>4, <2>3
  <2>6. \A i \in 1..(Len(queue) - k) : rest[i] = queue[k + i]
    <3>. HIDE DEF rest
    <3>. QED  BY <2>3, <2>4
  <2>. QED  BY <2>3, <2>5, <2>6
<1>7. DOMAIN first = 1..k /\ DOMAIN rest = 1..(Len(queue) - k)
  BY <1>4, <1>5, <1>6, LenProperties
<1>. HIDE DEF first, rest
<1>8. IsInjective(first) /\ IsInjective(rest)
  <2>1. IsInjective(first)
    BY <1>2, <1>4, <1>5, <1>7 DEF IsInjective
  <2>3. ASSUME NEW i \in 1..(Len(queue) - k), NEW j \in 1..(Len(queue) - k), rest[i] = rest[j]
        PROVE  i = j
    <3>1. queue[k + i] = queue[k + j]
      BY <1>6, <2>3
    <3>2. k + i \in 1..Len(queue) /\ k + j \in 1..Len(queue)
      BY <1>len, <1>4
    <3>3. k + i = k + j
      BY <1>2, <3>1, <3>2
    <3>. QED  BY <1>len, <1>4, <3>3
  <2>4. IsInjective(rest)
    BY <1>7, <2>3 DEF IsInjective
  <2>. QED  BY <2>1, <2>4
<1>9. IsFiniteSet(next) /\ Cardinality(next) = k
  BY <1>5, <1>8, InjectiveSize
<1>10. next = {queue[i] : i \in 1..k} /\ ToSet(rest) = {queue[i] : i \in (k + 1)..Len(queue)}
  <2>1. next = {queue[i] : i \in 1..k}
    BY <1>5, <1>7 DEF ToSet
  <2>2. \A i \in (k + 1)..Len(queue) : i - k \in 1..(Len(queue) - k) /\ rest[i - k] = queue[i]
    BY <1>2, <1>4, <1>6
  <2>3. \A i \in 1..(Len(queue) - k) : k + i \in (k + 1)..Len(queue) /\ rest[i] = queue[k + i]
    BY <1>2, <1>4, <1>6
  <2>4. ToSet(rest) = {rest[i] : i \in 1..(Len(queue) - k)}
    BY <1>7 DEF ToSet
  <2>. QED  BY <2>1, <2>2, <2>3, <2>4
<1>11. next \cup ToSet(rest) = ToSet(queue)
  <2>1. \A i \in 1..Len(queue) : i \in 1..k \/ i \in (k + 1)..Len(queue)
    BY <1>2, <1>4
  <2>2. 1..k \subseteq 1..Len(queue) /\ (k + 1)..Len(queue) \subseteq 1..Len(queue)
    BY <1>2, <1>4
  <2>3. ToSet(queue) = {queue[i] : i \in 1..Len(queue)}
    BY <1>2 DEF ToSet
  <2>. QED  BY <1>10, <2>1, <2>2, <2>3
<1>12. next \cap ToSet(rest) = {}
  BY <1>2, <1>4, <1>10
<1>13. rest # <<>> => active - 1 + k = MaxConcurrent
  <2>1. rest # <<>> => Len(rest) # 0
    BY <1>6, EmptySeq
  <2>2. Len(rest) = Len(queue) - k
    BY <1>6
  <2>. QED  BY <1>1, <1>len, <1>3, <1>4, <2>1, <2>2
<1>. QED  BY <1>1, <1>4, <1>6, <1>8, <1>9, <1>11, <1>12, <1>13 DEF k, first, rest

\* The end of a scan: the answer, the slot, the queue and the processes.
LEMMA FinishKeeps ==
  ASSUME ClientInv, NEW c \in Calls \ SyncCalls, phase[c] = "running", sync = {},
         NEW a, NEW kids \in [Calls -> {"none", "running", "exited", "broken", "killed", "gone"}],
         kids[c] # "running", \A x \in Calls \ {c} : kids[x] = child[x],
         Finish(c, a, kids), UNCHANGED <<disk, cache, sync>>
  PROVE  ClientInv'
<1>. DEFINE k == Room(active - 1, queue)
            next == ToSet(SubSeq(queue, 1, k))
            rest == SubSeq(queue, k + 1, Len(queue))
<1>. USE DEF ClientInv
<1>1. c \in OnSlot
  BY DEF OnSlot
<1>2. /\ active \in Nat \ {0} /\ k \in 0..Len(queue)
      /\ active - 1 + k \in 0..MaxConcurrent
      /\ rest \in Seq(Calls \ SyncCalls) /\ IsInjective(rest)
      /\ rest # <<>> => active - 1 + k = MaxConcurrent
      /\ IsFiniteSet(next) /\ Cardinality(next) = k
      /\ next \cup ToSet(rest) = ToSet(queue) /\ next \cap ToSet(rest) = {}
  BY <1>1, Pump
<1>3. /\ answer' = [x \in Answered \cup {c} |-> IF x = c THEN a ELSE answer[x]]
      /\ since' = [since EXCEPT ![c] = {}]
      /\ active' = active - 1 + k /\ queue' = rest
      /\ phase' = [x \in Calls |-> IF x = c THEN "answered" ELSE IF x \in next THEN "running" ELSE phase[x]]
      /\ child' = [x \in Calls |-> IF x \in next THEN "running" ELSE kids[x]]
      /\ scan' = [x \in Calls |-> IF x \in next THEN [phase |-> "start"] ELSE [scan EXCEPT ![c] = NoScan][x]]
  BY DEF Finish, Answers, Spawned, Begun
<1>. HIDE DEF k, next, rest
<1>4. \A x \in next : x \in Calls \ SyncCalls /\ phase[x] = "queued" /\ x # c
  <2>1. ToSet(queue) \subseteq Calls \ SyncCalls
    BY DEF TypeOK, ToSet
  <2>. QED  BY <1>2, <2>1 DEF SlotInv
<1>5. TypeOK'
  <2>1. Answered' = Answered \cup {c} /\ since' \in [Calls -> SUBSET Disks]
    BY <1>3 DEF Answered, TypeOK
  <2>2. /\ child' \in [Calls -> {"none", "running", "exited", "broken", "killed", "gone"}]
        /\ phase' \in [Calls -> {"idle", "queued", "running", "answered"}]
    BY <1>3 DEF TypeOK
  <2>. QED  BY <1>2, <1>3, <2>1, <2>2 DEF TypeOK
<1>6. EngineTypeOK'
  BY <1>3 DEF EngineTypeOK, Scans, NoScan
<1>7. Lifecycle'
  <2>1. Answered' = Answered \cup {c}
    BY <1>3 DEF Answered
  <2>2. Answered' = {x \in Calls : phase'[x] = "answered"}
    BY <1>3, <1>4, <2>1 DEF Lifecycle
  <2>. QED  BY <1>3, <1>4, <2>2 DEF Lifecycle, TypeOK
<1>8. SlotInv'
  <2>1. OnSlot' = (OnSlot \ {c}) \cup next
    BY <1>3, <1>4 DEF OnSlot
  <2>2. (OnSlot \ {c}) \cap next = {}
    BY <1>4 DEF OnSlot
  <2>3. IsFiniteSet(OnSlot \ {c}) /\ Cardinality(OnSlot \ {c}) = active - 1
    BY <1>1, FS_RemoveElement DEF SlotInv
  <2>4. IsFiniteSet(OnSlot') /\ Cardinality(OnSlot') = active'
    <3>1. Cardinality((OnSlot \ {c}) \cup next)
            = Cardinality(OnSlot \ {c}) + Cardinality(next) - Cardinality((OnSlot \ {c}) \cap next)
      BY <1>2, <2>3, FS_Union
    <3>2. IsFiniteSet((OnSlot \ {c}) \cup next)
      BY <1>2, <2>3, FS_Union
    <3>3. Cardinality((OnSlot \ {c}) \cap next) = 0
      BY <2>2, FS_EmptySet
    <3>4. active \in Nat /\ k \in Nat
      BY <1>2
    <3>5. Cardinality((OnSlot \ {c}) \cup next) = active - 1 + k
      BY <1>2, <2>3, <3>1, <3>3, <3>4
    <3>. QED  BY <1>3, <2>1, <3>2, <3>5
  <2>5. ToSet(queue') = {x \in Calls : phase'[x] = "queued"}
    BY <1>2, <1>3, <1>4 DEF SlotInv
  <2>. QED  BY <1>2, <1>3, <2>4, <2>5 DEF SlotInv
<1>. QED  BY <1>5, <1>6, <1>7, <1>8

LEMMA ClientInvStep == ClientInv /\ [Next]_vars => ClientInv'
<1>. SUFFICES ASSUME ClientInv, [Next]_vars PROVE ClientInv'
  OBVIOUS
<1>. USE DEF ClientInv
<1>1. ASSUME NEW c \in Calls, Call(c) PROVE ClientInv'
  <2>1. phase[c] = "idle" /\ c \in Calls \ SyncCalls /\ sync = {} /\ child[c] = "none"
    BY <1>1 DEF Call, HostIsFree, Lifecycle
  <2>2. CASE active < MaxConcurrent
    <3>1. /\ active' = active + 1 /\ queue' = queue
          /\ phase' = [phase EXCEPT ![c] = "running"]
          /\ child' = [x \in Calls |-> IF x = c THEN "running" ELSE child[x]]
          /\ scan' = [x \in Calls |-> IF x = c THEN [phase |-> "start"] ELSE scan[x]]
          /\ since' = [since EXCEPT ![c] = {disk}]
          /\ UNCHANGED <<disk, cache, sync, answer>>
      BY <1>1, <2>2 DEF Call, Spawned, Begun
    <3>2. TypeOK'
      BY <2>2, <3>1, ClientAssumption DEF TypeOK, Answered
    <3>3. EngineTypeOK'
      BY <3>1 DEF EngineTypeOK, Scans
    <3>4. Lifecycle'
      BY <2>1, <3>1 DEF Lifecycle, Answered, TypeOK
    <3>5. SlotInv'
      <4>1. OnSlot' = OnSlot \cup {c} /\ c \notin OnSlot
        BY <2>1, <3>1 DEF OnSlot, TypeOK
      <4>2. IsFiniteSet(OnSlot') /\ Cardinality(OnSlot') = active'
        BY <3>1, <4>1, FS_AddElement DEF SlotInv
      <4>3. ToSet(queue') = {x \in Calls : phase'[x] = "queued"}
        BY <2>1, <3>1 DEF SlotInv, TypeOK
      <4>4. queue = <<>>
        BY <2>2, ClientAssumption DEF SlotInv, TypeOK
      <4>. QED  BY <3>1, <4>2, <4>3, <4>4 DEF SlotInv
    <3>. QED  BY <3>2, <3>3, <3>4, <3>5
  <2>3. CASE ~(active < MaxConcurrent)
    <3>1. /\ queue' = Append(queue, c)
          /\ phase' = [phase EXCEPT ![c] = "queued"]
          /\ since' = [since EXCEPT ![c] = {disk}]
          /\ UNCHANGED <<active, child, scan, disk, cache, sync, answer>>
      BY <1>1, <2>3 DEF Call
    <3>2. TypeOK'
      BY <2>1, <3>1, AppendProperties DEF TypeOK, Answered
    <3>3. EngineTypeOK'
      BY <3>1 DEF EngineTypeOK
    <3>4. Lifecycle'
      BY <2>1, <3>1 DEF Lifecycle, Answered, TypeOK
    <3>5. SlotInv'
      <4>1. OnSlot' = OnSlot
        BY <2>1, <3>1 DEF OnSlot, TypeOK
      <4>2. /\ DOMAIN queue = 1..Len(queue) /\ DOMAIN queue' = 1..(Len(queue) + 1) /\ Len(queue) \in Nat
            /\ \A i \in 1..Len(queue) : queue'[i] = queue[i]
            /\ queue'[Len(queue) + 1] = c
        BY <2>1, <3>1, AppendProperties, LenProperties DEF TypeOK
      <4>3. ToSet(queue') = ToSet(queue) \cup {c}
        BY <4>2 DEF ToSet
      <4>4. c \notin ToSet(queue)
        BY <2>1 DEF SlotInv
      <4>5. IsInjective(queue')
        <5>1. \A i \in 1..Len(queue) : queue[i] # c
          BY <4>2, <4>4 DEF ToSet
        <5>2. \A i, j \in 1..Len(queue) : queue[i] = queue[j] => i = j
          BY <4>2 DEF SlotInv, IsInjective
        <5>3. \A i \in 1..(Len(queue) + 1) : i \in 1..Len(queue) \/ i = Len(queue) + 1
          BY <4>2
        <5>. QED  BY <4>2, <5>1, <5>2, <5>3 DEF IsInjective
      <4>6. active' = MaxConcurrent
        BY <2>3, <3>1, ClientAssumption DEF TypeOK
      <4>7. ToSet(queue') = {x \in Calls : phase'[x] = "queued"}
        BY <2>1, <3>1, <4>3 DEF SlotInv, TypeOK
      <4>. QED  BY <3>1, <4>1, <4>5, <4>6, <4>7 DEF SlotInv
    <3>. QED  BY <3>2, <3>3, <3>4, <3>5
  <2>. QED  BY <2>2, <2>3
<1>2. ASSUME NEW c \in Calls, StdinFails(c) \/ Timeout(c) PROVE ClientInv'
  <2>1. /\ c \in Calls \ SyncCalls /\ phase[c] = "running" /\ sync = {}
        /\ Finish(c, Failed, Killed(c)) /\ UNCHANGED <<disk, cache, sync>>
    BY <1>2 DEF StdinFails, Timeout, HostIsFree
  <2>2. /\ Killed(c) \in [Calls -> {"none", "running", "exited", "broken", "killed", "gone"}]
        /\ Killed(c)[c] # "running" /\ \A x \in Calls \ {c} : Killed(c)[x] = child[x]
    BY DEF Killed, TypeOK
  <2>. QED  BY <2>1, <2>2, FinishKeeps
<1>3. ASSUME NEW c \in Calls, Close(c) PROVE ClientInv'
  <2>. DEFINE kids == [child EXCEPT ![c] = "gone"]
  <2>1. /\ kids \in [Calls -> {"none", "running", "exited", "broken", "killed", "gone"}]
        /\ kids[c] # "running" /\ \A x \in Calls \ {c} : kids[x] = child[x]
    BY DEF TypeOK
  <2>2. c \in Calls \ SyncCalls /\ sync = {} /\ UNCHANGED <<disk, cache, sync>>
    BY <1>3 DEF Close, HostIsFree
  <2>3. CASE phase[c] = "running"
    <3>1. Finish(c, Response(c), kids)
      BY <1>3, <2>3 DEF Close
    <3>. QED  BY <2>1, <2>2, <2>3, <3>1, FinishKeeps
  <2>4. CASE phase[c] # "running"
    <3>1. child' = kids /\ UNCHANGED <<scan, phase, queue, active, since, answer>>
          /\ child[c] \in {"exited", "broken", "killed"}
      BY <1>3, <2>4 DEF Close
    <3>2. TypeOK' /\ EngineTypeOK' /\ Lifecycle'
      BY <2>2, <2>4, <3>1 DEF TypeOK, EngineTypeOK, Lifecycle, Answered
    <3>3. SlotInv'
      BY <3>1 DEF SlotInv, OnSlot
    <3>. QED  BY <3>2, <3>3
  <2>. QED  BY <2>3, <2>4
<1>4. ASSUME NEW c \in Calls, CallSync(c) PROVE ClientInv'
  <2>1. /\ phase[c] = "idle" /\ c \in SyncCalls /\ sync = {} /\ child[c] = "none"
        /\ sync' = {c} /\ phase' = [phase EXCEPT ![c] = "running"]
        /\ child' = [x \in Calls |-> IF x = c THEN "running" ELSE child[x]]
        /\ scan' = [x \in Calls |-> IF x = c THEN [phase |-> "start"] ELSE scan[x]]
        /\ since' = [since EXCEPT ![c] = {disk}]
        /\ UNCHANGED <<disk, cache, queue, active, answer>>
    BY <1>4 DEF CallSync, HostIsFree, Spawned, Begun, Lifecycle
  <2>2. TypeOK'
    <3>1. sync' \subseteq SyncCalls /\ Cardinality(sync') <= 1
      <4>1. sync' = {c} /\ c \in SyncCalls
        BY <2>1
      <4>2. Cardinality({c}) = 1
        BY FS_Singleton
      <4>3. Cardinality(sync') = 1
        BY <4>1, <4>2
      <4>. QED  BY <4>1, <4>3
    <3>2. /\ child' \in [Calls -> {"none", "running", "exited", "broken", "killed", "gone"}]
          /\ phase' \in [Calls -> {"idle", "queued", "running", "answered"}]
          /\ since' \in [Calls -> SUBSET Disks]
      BY <2>1 DEF TypeOK
    <3>. QED  BY <2>1, <3>1, <3>2 DEF TypeOK, Answered
  <2>3. EngineTypeOK'
    BY <2>1 DEF EngineTypeOK, Scans
  <2>4. Lifecycle'
    BY <2>1 DEF Lifecycle, Answered, TypeOK
  <2>5. OnSlot' = OnSlot /\ \A x \in Calls : phase'[x] = "queued" <=> phase[x] = "queued"
    BY <2>1 DEF OnSlot, TypeOK
  <2>6. SlotInv'
    BY <2>1, <2>5 DEF SlotInv
  <2>. QED  BY <2>2, <2>3, <2>4, <2>6
<1>5. ASSUME NEW c \in Calls, SyncReturns(c) PROVE ClientInv'
  <2>1. /\ sync = {c} /\ c \in SyncCalls /\ phase[c] = "running"
        /\ sync' = {} /\ phase' = [phase EXCEPT ![c] = "answered"]
        /\ child' = [child EXCEPT ![c] = "gone"]
        /\ scan' = [scan EXCEPT ![c] = NoScan]
        /\ since' = [since EXCEPT ![c] = {}]
        /\ UNCHANGED <<disk, cache, queue, active>>
    BY <1>5 DEF SyncReturns, Lifecycle, TypeOK
  <2>2. Answered' = Answered \cup {c}
    BY <1>5 DEF SyncReturns, Answers, Answered
  <2>3. TypeOK'
    BY <2>1, <2>2, FS_EmptySet DEF TypeOK
  <2>4. EngineTypeOK'
    BY <2>1 DEF EngineTypeOK, Scans, NoScan
  <2>5. Lifecycle'
    BY <2>1, <2>2 DEF Lifecycle, TypeOK
  <2>6. OnSlot' = OnSlot /\ \A x \in Calls : phase'[x] = "queued" <=> phase[x] = "queued"
    BY <2>1 DEF OnSlot, TypeOK
  <2>7. SlotInv'
    BY <2>1, <2>6 DEF SlotInv
  <2>. QED  BY <2>3, <2>4, <2>5, <2>7
<1>6. ASSUME NEW c \in Calls, Engine(c) PROVE ClientInv'
  <2>1. UNCHANGED <<phase, queue, active, sync, since, answer>>
    BY <1>6 DEF Engine, client
  <2>2. /\ Running(c) /\ disk' = disk /\ cache' \subseteq Entries
        /\ \E s \in Scans : scan' = [scan EXCEPT ![c] = s]
        /\ child' \in {child, [child EXCEPT ![c] = "exited"], [child EXCEPT ![c] = "broken"]}
    BY <1>6, EngineTouches DEF Engine
  <2>3. TypeOK'
    BY <2>1, <2>2 DEF TypeOK, Answered
  <2>4. EngineTypeOK'
    BY <2>2 DEF EngineTypeOK
  <2>5. Lifecycle'
    BY <2>1, <2>2 DEF Lifecycle, Answered, TypeOK, Running
  <2>6. SlotInv'
    BY <2>1 DEF SlotInv, OnSlot
  <2>. QED  BY <2>3, <2>4, <2>5, <2>6
<1>7. CASE Edit
  <2>1. PICK e \in Edits : disk' = [disk EXCEPT ![e[1]] = e[2]]
    BY <1>7 DEF Edit
  <2>2. disk' \in Disks
    BY <2>1, ClientAssumption DEF TypeOK, Disks
  <2>3. /\ since' = [c \in Calls |-> IF phase[c] \in {"queued", "running"} THEN since[c] \cup {disk'} ELSE {}]
        /\ UNCHANGED <<cache, child, scan, phase, queue, active, sync, answer>>
    BY <1>7 DEF Edit
  <2>. QED  BY <2>2, <2>3 DEF TypeOK, EngineTypeOK, Lifecycle, SlotInv, OnSlot, Answered
<1>8. CASE Foreign
  <2>1. UNCHANGED <<disk, child, scan, phase, queue, active, sync, since, answer>>
    BY <1>8 DEF Foreign, client
  <2>2. cache' \subseteq Entries
    <3>1. \A o \in BOOLEAN : [bytes |-> disk, official |-> o, report |-> Report({}, 0), own |-> FALSE] \in Entries
      BY DEF TypeOK, Entries, Report, StaticReports
    <3>. QED  BY <1>8, <3>1 DEF Foreign, ForeignWrite, EngineTypeOK
  <2>. QED  BY <2>1, <2>2 DEF TypeOK, EngineTypeOK, Lifecycle, SlotInv, OnSlot, Answered
<1>9. CASE UNCHANGED vars
  BY <1>9 DEF vars, TypeOK, EngineTypeOK, Lifecycle, SlotInv, OnSlot, Answered
<1>. QED  BY <1>1, <1>2, <1>3, <1>4, <1>5, <1>6, <1>7, <1>8, <1>9 DEF Next

LEMMA ClientInvInit == ClientInit => ClientInv
<1>. SUFFICES ASSUME ClientInit PROVE ClientInv
  OBVIOUS
<1>1. /\ cache = {} /\ child = [c \in Calls |-> "none"] /\ scan = [c \in Calls |-> NoScan]
      /\ disk \in Disks /\ phase = [c \in Calls |-> "idle"] /\ queue = <<>> /\ active = 0 /\ sync = {}
      /\ since = [c \in Calls |-> {}] /\ Answered = {}
  BY ClientAssumption DEF ClientInit, EngineInit, Answered
<1>2. TypeOK /\ Lifecycle
  BY <1>1, FS_EmptySet, ClientAssumption DEF TypeOK, Lifecycle
<1>3. EngineTypeOK
  BY <1>1 DEF EngineTypeOK, Scans, NoScan
<1>4. SlotInv
  <2>1. OnSlot = {} /\ ToSet(queue) = {} /\ IsInjective(queue)
    BY <1>1 DEF OnSlot, ToSet, IsInjective
  <2>. QED  BY <1>1, <2>1, FS_EmptySet DEF SlotInv
<1>. QED  BY <1>2, <1>3, <1>4 DEF ClientInv

-----------------------------------------------------------------------------
(* The theorems about the client.                                          *)

\* Every reachable state has the types, the life cycle and the slots of ClientInv.
THEOREM ClientInvariant == Spec => []ClientInv
<1>1. ClientInit => ClientInv
  BY ClientInvInit
<1>2. ClientInv /\ [Next]_vars => ClientInv'
  BY ClientInvStep
<1>. QED  BY <1>1, <1>2, PTL DEF Spec

\* scanner/client.ts: slots, queue, processes and answers have their types; the
\* counter of taken slots stays between none and all of them.
THEOREM TypeCorrect == Spec => []TypeOK
<1>1. ClientInv => TypeOK
  BY DEF ClientInv
<1>. QED  BY <1>1, ClientInvariant, PTL

\* withScanSlot and pumpScanQueue: the counter is exact whatever way a scan ended,
\* each queued call waits once, and nobody waits while a slot is free.
THEOREM SlotsAreExact == Spec => []SlotsExact
<1>1. ClientInv => SlotsExact
  <2>. SUFFICES ASSUME ClientInv PROVE SlotsExact
    OBVIOUS
  <2>1. {c \in Calls \ SyncCalls : child[c] = "running"} \subseteq OnSlot
    BY DEF ClientInv, Lifecycle, OnSlot
  <2>2. Len(queue) = Cardinality(ToSet(queue))
    BY InjectiveSize DEF ClientInv, TypeOK, SlotInv
  <2>. QED  BY <2>1, <2>2 DEF ClientInv, SlotInv, SlotsExact
<1>. QED  BY <1>1, ClientInvariant, PTL

-----------------------------------------------------------------------------
(* What an answer says of advisories.                                      *)

\* The statistics that make intel_osv covered: the direct check returned and
\* all its queries were answered.
LEMMA CoveredMeansAll ==
  ASSUME NEW st \in Statistics, IntelRow(FALSE, st).result = "covered"
  PROVE  st.phase = "ran" /\ st.attempted >= st.targets /\ st.answered >= st.targets
<1>1. st.targets \in Nat /\ st.attempted \in Nat /\ st.answered \in Nat
  BY DEF Statistics
<1>. DEFINE m == IF st.attempted <= st.targets THEN st.attempted ELSE st.targets
            n == IF st.answered <= m THEN st.answered ELSE m
<1>2. Min({st.attempted, st.targets}) = m
  BY <1>1, MinOfTwo
<1>3. Min({st.answered, m}) = n
  BY <1>1, MinOfTwo
<1>4. Counts(st) = [phase |-> IF st.phase \in {"ran", "skipped"} THEN st.phase ELSE "overran",
                    targets |-> st.targets, attempted |-> m, answered |-> n]
  BY <1>2, <1>3 DEF Counts
<1>. HIDE DEF m, n
<1>5. Counts(st).phase = "ran" /\ n = m /\ m = st.targets
  BY <1>4 DEF IntelRow, Row
<1>6. st.phase = "ran"
  BY <1>4, <1>5
<1>. QED  BY <1>1, <1>5, <1>6 DEF m, n

\* A report that goes out with the statistics of a finished or broken-off check
\* claims no more than it names.
LEMMA LookupTells ==
  ASSUME NEW c \in Calls, ClientInv, LookupsAddUp, scan[c].phase = "osv",
         NEW stage \in {"overran", "ran"}, NEW vulns,
         stage = "ran" => vulns = scan[c].seen
  PROVE  AdvisoriesTold(WithOsv(scan[c].report, Stats(stage, scan[c].asked, scan[c].answered), vulns))
<1>. DEFINE l == scan[c]
            st == Stats(stage, l.asked, l.answered)
            r == WithOsv(l.report, st, vulns)
<1>1. /\ l \in Lookups /\ l.report \in StaticReports /\ l.asked \in Nat /\ l.answered \in Nat
      /\ l.asked <= Targets /\ l.answered <= l.asked /\ Targets \in Nat
  <2>1. l \in Scans /\ Targets \in Nat
    BY TargetsType DEF ClientInv, EngineTypeOK
  <2>2. l \in Lookups
    BY <2>1 DEF Scans, Walks
  <2>. QED  BY <2>1, <2>2 DEF Lookups
<1>2. st \in Statistics /\ st.phase = stage /\ st.targets = Targets /\ st.attempted = l.asked /\ st.answered = l.answered
  BY <1>1 DEF Stats, Statistics
<1>3. r.osv = st /\ r.vulns = vulns
  BY <1>1 DEF WithOsv, StaticReports
<1>. SUFFICES ASSUME IntelRow(FALSE, st).result = "covered" PROVE AllNamed(vulns)
  BY <1>3 DEF AdvisoriesTold, ClaimsAdvisories
<1>4. stage = "ran" /\ l.asked >= Targets /\ l.answered >= Targets
  BY <1>2, CoveredMeansAll
<1>. HIDE DEF l
<1>5. l.asked = Targets /\ l.answered = l.asked
  BY <1>1, <1>4
<1>6. SeenAll(l.seen, Targets)
  BY <1>5 DEF LookupsAddUp, l
<1>. QED  BY <1>4, <1>6 DEF l, SeenAll, AllNamed

\* One step of the engine: what it counts and what it puts out.
LEMMA EngineTells ==
  ASSUME NEW c \in Calls, ClientInv, LookupsAddUp, EngineStep(c)
  PROVE  /\ scan'[c].phase = "osv" =>
              /\ scan'[c].answered = scan'[c].asked
                   => SeenAll(scan'[c].seen, scan'[c].asked)
              /\ c \notin RadarCalls => scan'[c].stage = "overran"
         /\ scan'[c].phase = "out" /\ c \notin RadarCalls =>
              scan'[c] = scan[c] \/ AdvisoriesTold(scan'[c].report)
<1>1. /\ scan \in [Calls -> Scans] /\ scan[c] \in Scans /\ Targets \in Nat
      /\ \A s : Go(c, s) => scan'[c] = s
  BY TargetsType DEF ClientInv, EngineTypeOK, Go
<1>2. ASSUME NEW r, r.osv = NoOsv PROVE AdvisoriesTold(r)
  BY <1>2 DEF AdvisoriesTold, ClaimsAdvisories
<1>3. ASSUME NEW r \in StaticReports, Go(c, After(c, r))
      PROVE  scan'[c].phase # "osv" /\ (scan'[c].phase = "out" => AdvisoriesTold(scan'[c].report))
  <2>1. r.osv = NoOsv
    BY DEF StaticReports
  <2>2. AdvisoriesTold(r)
    BY <1>2, <2>1
  <2>3. scan'[c] = After(c, r)
    BY <1>1, <1>3
  <2>. QED  BY <2>2, <2>3 DEF After
<1>4. CASE ReadKey(c)
  <2>1. \A e \in Hits(c, disk) : e.report \in StaticReports
    BY DEF Hits, EntriesFor, Entries, ClientInv, EngineTypeOK
  <2>. QED  BY <1>1, <1>3, <1>4, <2>1 DEF ReadKey
<1>5. CASE WalkFile(c)
  <2>1. scan[c] \in Walks
    BY <1>1, <1>5 DEF WalkFile, Scans, Lookups
  <2>. DEFINE f == scan[c].next
              s == [scan[c] EXCEPT !.next = f + 1,
                      !.found = @ \cup FileFindings(Kind[f], disk[f], c \in Official),
                      !.sources = @ + IF CountsAsSource(Kind[f], disk[f]) THEN 1 ELSE 0]
  <2>2. scan'[c] = s \/ scan'[c] = [phase |-> "error"]
    BY <1>1, <1>5 DEF WalkFile
  <2>3. s.phase = "walk"
    BY <2>1 DEF Walks
  <2>. HIDE DEF s
  <2>. QED  BY <2>2, <2>3
<1>6. CASE WalkOver(c) \/ WalkDone(c)
  <2>1. scan[c] \in Walks
    BY <1>1, <1>6 DEF WalkOver, WalkDone, Scans, Lookups
  <2>2. /\ Report(scan[c].found \cup {"skip"}, scan[c].sources) \in StaticReports
        /\ Report(scan[c].found, scan[c].sources) \in StaticReports
    BY <2>1 DEF Walks, Report, StaticReports, Classes
  <2>. QED  BY <1>3, <1>6, <2>2 DEF WalkOver, WalkDone
<1>7. CASE OsvSkip(c)
  <2>1. scan[c].report \in StaticReports
    BY <1>1, <1>7 DEF OsvSkip, Scans, Walks, Lookups
  <2>2. scan'[c] = [phase |-> "out", report |-> WithOsv(scan[c].report, Untouched, {})]
    BY <1>1, <1>7 DEF OsvSkip
  <2>3. Untouched \in Statistics /\ Untouched.phase # "ran"
    BY DEF Untouched, Statistics
  <2>4. IntelRow(FALSE, Untouched).result # "covered"
    BY <2>3, CoveredMeansAll
  <2>5. WithOsv(scan[c].report, Untouched, {}).osv = Untouched
    BY <2>1 DEF WithOsv, StaticReports
  <2>6. AdvisoriesTold(WithOsv(scan[c].report, Untouched, {}))
    BY <2>4, <2>5 DEF AdvisoriesTold, ClaimsAdvisories
  <2>. QED  BY <2>2, <2>6
<1>8. CASE OsvStart(c)
  <2>1. scan'[c] = [phase |-> "osv", report |-> scan[c].report, asked |-> 0, answered |-> 0,
                    seen |-> {}, stage |-> "overran"]
    BY <1>1, <1>8 DEF OsvStart
  <2>2. KnownOf(0) = {} /\ Cardinality(KnownOf(0)) = 0
    BY FS_EmptySet DEF KnownOf
  <2>3. SeenAll({}, 0)
    BY <2>2, EngineAssumption DEF SeenAll
  <2>. QED  BY <2>1, <2>3
<1>9. ASSUME scan[c].phase = "osv" PROVE scan[c] \in Lookups
  BY <1>1, <1>9 DEF Scans, Walks
<1>10. CASE Query(c)
  <2>1. scan[c] \in Lookups /\ scan[c].stage = "overran" /\ scan[c].phase = "osv"
    BY <1>9, <1>10 DEF Query, MoreToAsk
  <2>2. /\ scan[c].asked \in Nat /\ scan[c].answered \in Nat /\ scan[c].answered <= scan[c].asked
    BY <1>1, <2>1 DEF Lookups
  <2>. DEFINE n == scan[c].asked + 1
              s1 == [scan[c] EXCEPT !.asked = n]
              s2(seen) == [scan[c] EXCEPT !.asked = n, !.answered = @ + 1, !.seen = seen]
  <2>3. scan'[c] = s1 \/ \E seen \in Named(scan[c].seen, Asked[n].known) : scan'[c] = s2(seen)
    BY <1>1, <1>10 DEF Query
  <2>4. s1.phase = "osv" /\ s1.stage = "overran" /\ s1.answered = scan[c].answered /\ s1.asked = n
    BY <2>1 DEF Lookups
  <2>5. \A seen : /\ s2(seen).phase = "osv" /\ s2(seen).stage = "overran" /\ s2(seen).asked = n
                  /\ s2(seen).answered = scan[c].answered + 1 /\ s2(seen).seen = seen
    BY <2>1 DEF Lookups
  <2>. HIDE DEF s1, s2
  <2>6. CASE scan'[c] = s1
    <3>1. s1.answered # s1.asked
      BY <2>2, <2>4
    <3>. QED  BY <2>4, <2>6, <3>1
  <2>7. ASSUME NEW seen \in Named(scan[c].seen, Asked[n].known), scan'[c] = s2(seen)
        PROVE  /\ scan'[c].phase = "osv" /\ scan'[c].stage = "overran"
               /\ scan'[c].answered = scan'[c].asked => SeenAll(scan'[c].seen, scan'[c].asked)
    <3>1. /\ scan'[c].phase = "osv" /\ scan'[c].stage = "overran" /\ scan'[c].asked = n
          /\ scan'[c].answered = scan[c].answered + 1 /\ scan'[c].seen = seen
      BY <2>5, <2>7
    <3>2. ASSUME scan'[c].answered = scan'[c].asked PROVE SeenAll(seen, n)
      <4>1. SeenAll(scan[c].seen, scan[c].asked)
        BY <2>1, <2>2, <3>1, <3>2 DEF LookupsAddUp
      <4>2. Cardinality(scan[c].seen) < MaxNamed
        BY <1>10 DEF Query, MoreToAsk
      <4>. QED  BY <2>2, <4>1, <4>2, NamedAll
    <3>. QED  BY <3>1, <3>2
  <2>. QED  BY <2>3, <2>4, <2>6, <2>7
<1>11. CASE DirectDone(c)
  <2>1. scan[c] \in Lookups
    BY <1>9, <1>11 DEF DirectDone
  <2>2. CASE c \in RadarCalls
    <3>1. scan'[c] = [scan[c] EXCEPT !.stage = "ran"]
      BY <1>1, <1>11, <2>2 DEF DirectDone
    <3>2. /\ scan'[c].phase = "osv" /\ scan'[c].asked = scan[c].asked
          /\ scan'[c].answered = scan[c].answered /\ scan'[c].seen = scan[c].seen
      BY <1>11, <2>1, <3>1 DEF Lookups, DirectDone
    <3>. QED  BY <1>11, <2>2, <3>2 DEF LookupsAddUp, DirectDone
  <2>3. CASE c \notin RadarCalls
    <3>1. scan'[c] = [phase |-> "out", report |->
                        WithOsv(scan[c].report, Stats("ran", scan[c].asked, scan[c].answered), scan[c].seen)]
      BY <1>1, <1>11, <2>3 DEF DirectDone
    <3>. QED  BY <1>11, <3>1, LookupTells DEF DirectDone
  <2>. QED  BY <2>2, <2>3
<1>12. CASE RadarDone(c)
  <2>1. scan'[c] = [phase |-> "out", report |->
                      WithOsv(scan[c].report, Stats("ran", scan[c].asked, scan[c].answered), scan[c].seen)]
    BY <1>1, <1>12 DEF RadarDone
  <2>. QED  BY <1>12, <2>1, LookupTells DEF RadarDone
<1>13. CASE Overrun(c)
  <2>1. scan'[c] = [phase |-> "out", report |->
                      WithOsv(scan[c].report, Stats(scan[c].stage, scan[c].asked, scan[c].answered), {})]
    BY <1>1, <1>13 DEF Overrun
  <2>2. c \notin RadarCalls => scan[c].stage = "overran"
    BY <1>13 DEF Overrun, LookupsAddUp
  <2>3. c \notin RadarCalls =>
          AdvisoriesTold(WithOsv(scan[c].report, Stats("overran", scan[c].asked, scan[c].answered), {}))
    BY <1>13, LookupTells DEF Overrun
  <2>. QED  BY <2>1, <2>2, <2>3
<1>14. CASE Exit(c)
  BY <1>14 DEF Exit, LookupsAddUp
<1>15. CASE Break(c)
  BY <1>1, <1>15 DEF Break, NoScan
<1>. QED
  BY <1>4, <1>5, <1>6, <1>7, <1>8, <1>10, <1>11, <1>12, <1>13, <1>14, <1>15 DEF EngineStep

\* Who is answered is told a failure or what the engine had put out.
LEMMA AnswerTells ==
  ASSUME AdvisoryInv, NEW c \in Calls, NEW a, Answers(c, a),
         a = Failed \/ (scan[c].phase = "out" /\ a = scan[c].report)
  PROVE  AdvisoriesKept'
<1>1. Answered' = Answered \cup {c} /\ \A x \in Answered' : answer'[x] = IF x = c THEN a ELSE answer[x]
  BY DEF Answers, Answered
<1>2. c \notin RadarCalls => AdvisoriesTold(a)
  BY DEF AdvisoryInv, AdvisoriesTold, ClaimsAdvisories
<1>. QED  BY <1>1, <1>2 DEF AdvisoryInv, AdvisoriesKept, AdvisoriesTold

LEMMA AdvisoryInvStep == ClientInv /\ AdvisoryInv /\ [Next]_vars => AdvisoryInv'
<1>. SUFFICES ASSUME ClientInv, AdvisoryInv, [Next]_vars PROVE AdvisoryInv'
  OBVIOUS
<1>1. scan \in [Calls -> Scans]
  BY DEF ClientInv, EngineTypeOK
<1>. DEFINE Quiet(c) == scan'[c] = scan[c] \/ scan'[c].phase \in {"none", "start"}
<1>2. ASSUME AdvisoriesKept', \A c \in Calls : Quiet(c) PROVE AdvisoryInv'
  <2>1. \A c \in Calls : scan'[c].phase \in {"osv", "out"} => scan'[c] = scan[c]
    BY <1>2
  <2>2. LookupsAddUp'
    BY <2>1 DEF AdvisoryInv, LookupsAddUp
  <2>3. \A c \in Calls \ RadarCalls : scan'[c].phase = "out" => AdvisoriesTold(scan'[c].report)
    BY <2>1 DEF AdvisoryInv
  <2>4. (\A c \in Calls \ RadarCalls : scan[c].phase = "out" => AdvisoriesTold(scan[c].report))'
    BY <2>3 DEF AdvisoriesTold, ClaimsAdvisories
  <2>. QED  BY <1>2, <2>2, <2>4 DEF AdvisoryInv
<1>3. ASSUME NEW c \in Calls, Call(c) \/ CallSync(c) PROVE AdvisoryInv'
  <2>1. answer' = answer /\ \A x \in Calls : Quiet(x)
    BY <1>3 DEF Call, CallSync, Begun
  <2>2. AdvisoriesKept'
    BY <2>1 DEF AdvisoryInv, AdvisoriesKept, Answered
  <2>. QED  BY <1>2, <2>1, <2>2
<1>4. ASSUME NEW c \in Calls, NEW a, NEW kids, Finish(c, a, kids),
             a = Failed \/ (scan[c].phase = "out" /\ a = scan[c].report)
      PROVE  AdvisoryInv'
  <2>1. Answers(c, a) /\ \A x \in Calls : Quiet(x)
    BY <1>1, <1>4 DEF Finish, Begun, NoScan
  <2>2. AdvisoriesKept'
    BY <1>4, <2>1, AnswerTells
  <2>. QED  BY <1>2, <2>1, <2>2
<1>5. \A c \in Calls : Response(c) = Failed \/ (scan[c].phase = "out" /\ Response(c) = scan[c].report)
  BY DEF Response
<1>6. ASSUME NEW c \in Calls, StdinFails(c) \/ Timeout(c) PROVE AdvisoryInv'
  BY <1>4, <1>6 DEF StdinFails, Timeout
<1>7. ASSUME NEW c \in Calls, Close(c) PROVE AdvisoryInv'
  <2>1. CASE phase[c] = "running"
    BY <1>4, <1>5, <1>7, <2>1 DEF Close
  <2>2. CASE phase[c] # "running"
    <3>1. answer' = answer /\ scan' = scan
      BY <1>7, <2>2 DEF Close
    <3>2. AdvisoriesKept'
      BY <3>1 DEF AdvisoryInv, AdvisoriesKept, Answered
    <3>. QED  BY <1>2, <3>1, <3>2
  <2>. QED  BY <2>1, <2>2
<1>8. ASSUME NEW c \in Calls, SyncReturns(c) PROVE AdvisoryInv'
  <2>1. \A x \in Calls : Quiet(x)
    BY <1>1, <1>8 DEF SyncReturns, NoScan
  <2>2. Answers(c, Response(c)) \/ Answers(c, Failed)
    BY <1>8 DEF SyncReturns
  <2>3. AdvisoriesKept'
    BY <1>5, <2>2, AnswerTells
  <2>. QED  BY <1>2, <2>1, <2>3
<1>9. ASSUME NEW c \in Calls, Engine(c) PROVE AdvisoryInv'
  <2>1. EngineStep(c) /\ answer' = answer
    BY <1>9 DEF Engine
  <2>2. PICK s \in Scans : scan' = [scan EXCEPT ![c] = s]
    BY <2>1, EngineTouches
  <2>3. \A x \in Calls \ {c} : scan'[x] = scan[x]
    BY <1>1, <2>2
  <2>4. /\ scan'[c].phase = "osv" =>
              /\ scan'[c].answered = scan'[c].asked
                   => SeenAll(scan'[c].seen, scan'[c].asked)
              /\ c \notin RadarCalls => scan'[c].stage = "overran"
        /\ scan'[c].phase = "out" /\ c \notin RadarCalls =>
              scan'[c] = scan[c] \/ AdvisoriesTold(scan'[c].report)
    BY <2>1, EngineTells DEF AdvisoryInv
  <2>5. LookupsAddUp'
    BY <2>3, <2>4 DEF AdvisoryInv, LookupsAddUp
  <2>6. \A x \in Calls \ RadarCalls : scan'[x].phase = "out" => AdvisoriesTold(scan'[x].report)
    BY <2>3, <2>4 DEF AdvisoryInv
  <2>7. (\A x \in Calls \ RadarCalls : scan[x].phase = "out" => AdvisoriesTold(scan[x].report))'
    BY <2>6 DEF AdvisoriesTold, ClaimsAdvisories
  <2>8. AdvisoriesKept'
    BY <2>1 DEF AdvisoryInv, AdvisoriesKept, Answered
  <2>. QED  BY <2>5, <2>7, <2>8 DEF AdvisoryInv
<1>10. CASE Edit \/ Foreign \/ UNCHANGED vars
  <2>1. answer' = answer /\ scan' = scan
    BY <1>10 DEF Edit, Foreign, vars
  <2>2. AdvisoriesKept'
    BY <2>1 DEF AdvisoryInv, AdvisoriesKept, Answered
  <2>. QED  BY <1>2, <2>1, <2>2
<1>. QED  BY <1>3, <1>6, <1>7, <1>8, <1>9, <1>10 DEF Next

\* guard/coverage.ts, osv.ts: an answer that makes intel_osv a covered surface names
\* every advisory known of the targets, or as many as it has room for (of calls
\* without the transitive radar).
THEOREM AdvisoriesAreKept == Spec => []AdvisoriesKept
<1>1. ClientInit => AdvisoryInv
  <2>. SUFFICES ASSUME ClientInit PROVE AdvisoryInv
    OBVIOUS
  <2>1. scan = [c \in Calls |-> NoScan] /\ Answered = {}
    BY DEF ClientInit, EngineInit, Answered
  <2>. QED  BY <2>1 DEF AdvisoryInv, LookupsAddUp, AdvisoriesKept, NoScan
<1>2. ClientInv /\ AdvisoryInv /\ [Next]_vars => AdvisoryInv'
  BY AdvisoryInvStep
<1>3. AdvisoryInv => AdvisoriesKept
  BY DEF AdvisoryInv
<1>. QED  BY <1>1, <1>2, <1>3, ClientInvariant, PTL DEF Spec

-----------------------------------------------------------------------------
(* What a report, and the cache, say of the files.                         *)

LEMMA FoundFirst ==
  ASSUME NEW c, NEW d
  PROVE  FoundBefore(c, d, 1) = {}
<1>1. \A g \in Files : ~(g < 1)
  BY EngineAssumption DEF Files
<1>. QED  BY <1>1 DEF FoundBefore

LEMMA FoundNext ==
  ASSUME NEW c, NEW d, NEW n \in Files
  PROVE  FoundBefore(c, d, n + 1) = FoundBefore(c, d, n) \cup FileFindings(Kind[n], d[n], c \in Official)
<1>1. Files \subseteq Int
  BY EngineAssumption DEF Files
<1>2. {g \in Files : g < n + 1} = {g \in Files : g < n} \cup {n}
  <2>1. ASSUME NEW g \in Files PROVE g < n + 1 <=> g < n \/ g = n
    <3>1. g \in Int /\ n \in Int
      BY <1>1
    <3>. QED  BY <3>1
  <2>. QED  BY <2>1
<1>. DEFINE F(f) == FileFindings(Kind[f], d[f], c \in Official)
            early == {g \in Files : g < n}
<1>3. UNION {F(f) : f \in early \cup {n}} = (UNION {F(f) : f \in early}) \cup F(n)
  <2>. HIDE DEF F, early
  <2>1. ASSUME NEW x, x \in UNION {F(f) : f \in early \cup {n}}
        PROVE  x \in (UNION {F(f) : f \in early}) \cup F(n)
    <3>1. PICK f \in early \cup {n} : x \in F(f)
      BY <2>1
    <3>. QED  BY <3>1
  <2>2. ASSUME NEW x, x \in (UNION {F(f) : f \in early}) \cup F(n)
        PROVE  x \in UNION {F(f) : f \in early \cup {n}}
    <3>1. \E f \in early \cup {n} : x \in F(f)
      BY <2>2
    <3>. QED  BY <3>1
  <2>. QED  BY <2>1, <2>2
<1>. QED  BY <1>2, <1>3 DEF FoundBefore

LEMMA FoundPart ==
  ASSUME NEW c, NEW d, NEW n
  PROVE  FoundBefore(c, d, n) \subseteq Full(d, c)
<1>. DEFINE F(f) == FileFindings(Kind[f], d[f], c \in Official)
<1>. HIDE DEF F
<1>1. UNION {F(f) : f \in {g \in Files : g < n}} \subseteq UNION {F(f) : f \in Files}
  OBVIOUS
<1>. QED  BY <1>1 DEF FoundBefore, Full, F

LEMMA FoundAll ==
  ASSUME NEW c, NEW d, NEW n \in 1..(Len(Kind) + 1), n \notin Files
  PROVE  FoundBefore(c, d, n) = Full(d, c)
<1>1. Len(Kind) \in Nat /\ Files = 1..Len(Kind)
  BY EngineAssumption DEF Files
<1>2. n = Len(Kind) + 1
  BY <1>1
<1>3. {g \in Files : g < n} = Files
  BY <1>1, <1>2
<1>. DEFINE F(f) == FileFindings(Kind[f], d[f], c \in Official)
<1>. HIDE DEF F
<1>4. UNION {F(f) : f \in {g \in Files : g < n}} = UNION {F(f) : f \in Files}
  BY <1>3
<1>. QED  BY <1>4 DEF FoundBefore, Full, F

\* The advisory phase changes nothing in the static part of a report.
LEMMA ExplainedAlike ==
  ASSUME NEW c, NEW d, NEW r, NEW r2, ReportExplains(c, d, r),
         r2.found \ {"advisory"} = r.found \ {"advisory"}
  PROVE  ReportExplains(c, d, r2)
<1>1. "skip" \in r2.found <=> "skip" \in r.found
  OBVIOUS
<1>. QED  BY <1>1 DEF ReportExplains

LEMMA OsvKeepsFindings ==
  ASSUME NEW r \in StaticReports, NEW st, NEW v
  PROVE  WithOsv(r, st, v).found \ {"advisory"} = r.found \ {"advisory"}
  BY DEF WithOsv, StaticReports

\* One step of the engine: the walk reads on, the cache gets a full report, and
\* what goes on from a walk or a hit is true of the present bytes.
LEMMA EngineTrue ==
  ASSUME NEW c \in Calls, ClientInv, TruthInv, EngineStep(c)
  PROVE  /\ CacheFaithful'
         /\ Walking(c)' => /\ scan'[c].bytes = disk
                           /\ scan'[c].found = FoundBefore(c, disk, scan'[c].next)
         /\ scan'[c].phase \in {"budget", "osv", "out"} =>
              \E d \in since[c] : ReportExplains(c, d, scan'[c].report)
<1>1. /\ scan \in [Calls -> Scans] /\ scan[c] \in Scans /\ disk \in Disks
      /\ \A s : Go(c, s) => scan'[c] = s
      /\ child[c] = "running" /\ disk \in since[c]
  BY DEF ClientInv, EngineTypeOK, TypeOK, Go, EngineStep, Running, TruthInv, ReportsTrue, Lifecycle,
         ReadKey, WalkFile, WalkOver, WalkDone, OsvSkip, OsvStart, Query, MoreToAsk, DirectDone,
         RadarDone, Overrun, Exit, Break
<1>2. cache' = cache => CacheFaithful'
  BY DEF TruthInv, CacheFaithful
<1>3. ASSUME NEW r \in StaticReports, Go(c, After(c, r)), ReportExplains(c, disk, r)
      PROVE  /\ scan'[c].phase # "walk"
             /\ \E d \in since[c] : ReportExplains(c, d, scan'[c].report)
  <2>1. scan'[c] = After(c, r)
    BY <1>1, <1>3
  <2>2. After(c, r).report = r /\ After(c, r).phase # "walk"
    BY DEF After
  <2>. QED  BY <1>1, <1>3, <2>1, <2>2
<1>4. ASSUME scan[c].phase = "walk"
      PROVE  /\ scan[c] \in Walks /\ scan[c].bytes = disk
             /\ scan[c].found = FoundBefore(c, disk, scan[c].next)
  BY <1>1, <1>4 DEF TruthInv, WalksTrue, Walking, Scans, Lookups
<1>5. ASSUME scan[c].phase \in {"budget", "osv"}
      PROVE  /\ scan[c].report \in StaticReports
             /\ \E d \in since[c] : ReportExplains(c, d, scan[c].report)
  <2>1. scan[c].report \in StaticReports
    BY <1>1, <1>5 DEF Scans, Walks, Lookups
  <2>. QED  BY <1>1, <1>5, <2>1 DEF TruthInv, ReportsTrue, ClientInv, Lifecycle
<1>6. CASE ReadKey(c)
  <2>1. CASE Hits(c, disk) = {}
    <3>1. scan'[c] = [phase |-> "walk", bytes |-> disk, next |-> 1, found |-> {}, sources |-> 0]
      BY <1>1, <1>6, <2>1 DEF ReadKey
    <3>. QED  BY <1>2, <1>6, <3>1, FoundFirst DEF ReadKey
  <2>2. CASE Hits(c, disk) # {}
    <3>1. PICK e \in Hits(c, disk) : Go(c, After(c, e.report))
      BY <1>6, <2>2 DEF ReadKey
    <3>2. e \in cache /\ e \in Entries /\ e.own /\ e.bytes = disk /\ e.official = (c \in Official)
      BY DEF Hits, EntriesFor, ClientInv, EngineTypeOK
    <3>3. e.report \in StaticReports /\ e.report.found = Full(disk, c)
      BY <3>2 DEF Entries, TruthInv, CacheFaithful, Full
    <3>4. ReportExplains(c, disk, e.report)
      BY <3>3 DEF ReportExplains, StaticReports
    <3>5. scan'[c].phase # "walk" /\ \E d \in since[c] : ReportExplains(c, d, scan'[c].report)
      BY <1>3, <3>1, <3>3, <3>4
    <3>. QED  BY <1>2, <1>6, <3>5 DEF ReadKey, Walking
  <2>. QED  BY <2>1, <2>2
<1>7. CASE WalkFile(c)
  <2>1. /\ scan[c] \in Walks /\ scan[c].bytes = disk /\ scan[c].next \in Files
        /\ scan[c].found = FoundBefore(c, disk, scan[c].next)
    BY <1>4, <1>7 DEF WalkFile
  <2>. DEFINE f == scan[c].next
              s == [scan[c] EXCEPT !.next = f + 1,
                      !.found = @ \cup FileFindings(Kind[f], disk[f], c \in Official),
                      !.sources = @ + IF CountsAsSource(Kind[f], disk[f]) THEN 1 ELSE 0]
  <2>2. scan'[c] = s \/ scan'[c] = [phase |-> "error"]
    BY <1>1, <1>7 DEF WalkFile
  <2>3. /\ s.phase = "walk" /\ s.bytes = disk /\ s.next = f + 1
        /\ s.found = scan[c].found \cup FileFindings(Kind[f], disk[f], c \in Official)
    BY <2>1 DEF Walks
  <2>4. s.found = FoundBefore(c, disk, s.next)
    <3>. HIDE DEF s
    <3>. QED  BY <2>1, <2>3, FoundNext
  <2>. HIDE DEF s
  <2>. QED  BY <1>2, <1>7, <2>2, <2>3, <2>4 DEF WalkFile, Walking
<1>8. CASE WalkOver(c)
  <2>. DEFINE r == Report(scan[c].found \cup {"skip"}, scan[c].sources)
  <2>1. scan[c] \in Walks /\ scan[c].found \subseteq Full(disk, c)
    BY <1>4, <1>8, FoundPart DEF WalkOver
  <2>2. r \in StaticReports
    BY <2>1 DEF Walks, Report, StaticReports, Classes
  <2>3. ReportExplains(c, disk, r)
    BY <2>1 DEF ReportExplains, Report
  <2>. HIDE DEF r
  <2>. QED  BY <1>2, <1>3, <1>8, <2>2, <2>3 DEF WalkOver, Walking, r
<1>9. CASE WalkDone(c)
  <2>. DEFINE r == Report(scan[c].found, scan[c].sources)
  <2>1. scan[c] \in Walks /\ scan[c].bytes = disk /\ scan[c].found = Full(disk, c)
    <3>1. scan[c] \in Walks /\ scan[c].bytes = disk /\ scan[c].found = FoundBefore(c, disk, scan[c].next)
      BY <1>4, <1>9 DEF WalkDone
    <3>2. scan[c].next \in 1..(Len(Kind) + 1) /\ scan[c].next \notin Files
      BY <1>9, <3>1 DEF WalkDone, Walks
    <3>. QED  BY <3>1, <3>2, FoundAll
  <2>2. r \in StaticReports /\ r.found = Full(disk, c)
    BY <2>1 DEF Walks, Report, StaticReports, Classes
  <2>3. ReportExplains(c, disk, r)
    BY <2>2 DEF ReportExplains, StaticReports
  <2>4. CacheFaithful'
    <3>1. Go(c, After(c, r)) /\ cache' = Stored(c, disk, r)
      BY <1>9, <2>1 DEF WalkDone
    <3>. HIDE DEF r
    <3>2. ASSUME NEW e \in cache', e.own
          PROVE  e.report.found = UNION {FileFindings(Kind[f], e.bytes[f], e.official) : f \in Files}
      <4>1. CASE e \in cache
        BY <3>2, <4>1 DEF TruthInv, CacheFaithful
      <4>2. CASE e = [bytes |-> disk, official |-> c \in Official, report |-> r, own |-> TRUE]
        BY <2>2, <4>2 DEF Full
      <4>. QED  BY <3>1, <3>2, <4>1, <4>2 DEF Stored
    <3>. QED  BY <3>2 DEF CacheFaithful
  <2>5. Go(c, After(c, r))
    BY <1>9 DEF WalkDone
  <2>. HIDE DEF r
  <2>. QED  BY <1>3, <2>2, <2>3, <2>4, <2>5 DEF Walking
<1>10. ASSUME NEW s, Go(c, s), s.phase \in {"budget", "osv", "out"}, scan[c].phase \in {"budget", "osv"},
              s.report.found \ {"advisory"} = scan[c].report.found \ {"advisory"}
       PROVE  /\ ~Walking(c)'
              /\ \E d \in since[c] : ReportExplains(c, d, scan'[c].report)
  BY <1>1, <1>5, <1>10, ExplainedAlike DEF Walking
<1>11. CASE OsvSkip(c) \/ OsvStart(c)
  BY <1>2, <1>5, <1>10, <1>11, OsvKeepsFindings DEF OsvSkip, OsvStart
<1>12. CASE Query(c) \/ (DirectDone(c) /\ c \in RadarCalls)
  <2>1. PICK s : Go(c, s) /\ s.phase = "osv" /\ s.report = scan[c].report
    <3>1. scan[c] \in Lookups
      BY <1>1, <1>12 DEF Query, MoreToAsk, DirectDone, Scans, Walks
    <3>. DEFINE n == scan[c].asked + 1
                s1 == [scan[c] EXCEPT !.asked = n]
                s2(seen) == [scan[c] EXCEPT !.asked = n, !.answered = @ + 1, !.seen = seen]
                s3 == [scan[c] EXCEPT !.stage = "ran"]
    <3>2. Go(c, s1) \/ Go(c, s3) \/ \E seen : Go(c, s2(seen))
      BY <1>12 DEF Query, DirectDone
    <3>3. /\ s1.phase = "osv" /\ s1.report = scan[c].report
          /\ s3.phase = "osv" /\ s3.report = scan[c].report
          /\ \A seen : s2(seen).phase = "osv" /\ s2(seen).report = scan[c].report
      BY <3>1 DEF Lookups
    <3>. HIDE DEF s1, s2, s3
    <3>. QED  BY <3>2, <3>3
  <2>2. scan[c].phase = "osv" /\ cache' = cache
    BY <1>12 DEF Query, MoreToAsk, DirectDone
  <2>. QED  BY <1>2, <1>10, <2>1, <2>2
<1>13. CASE (DirectDone(c) /\ c \notin RadarCalls) \/ RadarDone(c) \/ Overrun(c)
  <2>1. PICK st, v : Go(c, [phase |-> "out", report |-> WithOsv(scan[c].report, st, v)])
    BY <1>13 DEF DirectDone, RadarDone, Overrun
  <2>2. scan[c].phase = "osv" /\ cache' = cache
    BY <1>13 DEF DirectDone, RadarDone, Overrun
  <2>. QED  BY <1>2, <1>5, <1>10, <2>1, <2>2, OsvKeepsFindings
<1>14. CASE Exit(c)
  <2>1. child'[c] = "exited" \/ child'[c] # "running"
    BY <1>1, <1>14 DEF Exit, ClientInv, TypeOK
  <2>. QED  BY <1>1, <1>2, <1>14, <2>1 DEF Exit, Walking, TruthInv, ReportsTrue, ClientInv, Lifecycle
<1>15. CASE Break(c)
  BY <1>1, <1>2, <1>15 DEF Break, NoScan, Walking
<1>. QED
  BY <1>6, <1>7, <1>8, <1>9, <1>11, <1>12, <1>13, <1>14, <1>15 DEF EngineStep

\* At the end of a scan the next ones begin; who is left is where it was.
LEMMA FinishTrue ==
  ASSUME ClientInv, TruthInv, NEW c \in Calls \ SyncCalls, phase[c] = "running",
         NEW a, NEW kids \in [Calls -> {"none", "running", "exited", "broken", "killed", "gone"}],
         \A x \in Calls \ {c} : kids[x] = child[x],
         Finish(c, a, kids), UNCHANGED <<disk, cache, sync>>
  PROVE  TruthInv'
<1>. DEFINE next == ToSet(SubSeq(queue, 1, Room(active - 1, queue)))
<1>1. /\ since' = [since EXCEPT ![c] = {}]
      /\ phase' = [x \in Calls |-> IF x = c THEN "answered" ELSE IF x \in next THEN "running" ELSE phase[x]]
      /\ child' = [x \in Calls |-> IF x \in next THEN "running" ELSE kids[x]]
      /\ scan' = [x \in Calls |-> IF x \in next THEN [phase |-> "start"] ELSE [scan EXCEPT ![c] = NoScan][x]]
      /\ UNCHANGED <<disk, cache>>
  BY DEF Finish, Spawned, Begun
<1>2. next \subseteq ToSet(queue)
  BY Pump DEF OnSlot, ClientInv
<1>3. \A x \in next : phase[x] = "queued" /\ x # c /\ x \in Calls
  BY <1>2 DEF ClientInv, SlotInv
<1>. HIDE DEF next
<1>4. since \in [Calls -> SUBSET Disks] /\ scan \in [Calls -> Scans]
  BY DEF ClientInv, TypeOK, EngineTypeOK
<1>5. CacheFaithful'
  BY <1>1 DEF TruthInv, CacheFaithful
<1>6. WalksTrue'
  <2>1. ASSUME NEW x \in Calls, Walking(x)' PROVE Walking(x) /\ scan'[x] = scan[x]
    BY <1>1, <1>4, <2>1 DEF Walking, NoScan
  <2>. QED  BY <1>1, <2>1 DEF TruthInv, WalksTrue
<1>7. ASSUME NEW x \in Calls
      PROVE  /\ phase'[x] \in {"queued", "running"} => disk \in since'[x]
             /\ phase'[x] = "running" /\ scan'[x].phase \in {"budget", "osv", "out"}
                => \E d \in since'[x] : ReportExplains(x, d, scan'[x].report)
  <2>1. CASE x = c
    BY <1>1, <2>1
  <2>2. CASE x \in next
    BY <1>1, <1>3, <1>4, <2>2 DEF TruthInv, ReportsTrue
  <2>3. CASE x # c /\ x \notin next
    <3>1. phase'[x] = phase[x] /\ since'[x] = since[x] /\ scan'[x] = scan[x]
      BY <1>1, <1>4, <2>3
    <3>. QED  BY <3>1 DEF TruthInv, ReportsTrue
  <2>. QED  BY <2>1, <2>2, <2>3
<1>8. ReportsTrue'
  BY <1>1, <1>7 DEF ReportsTrue, ReportExplains
<1>. QED  BY <1>5, <1>6, <1>8 DEF TruthInv

LEMMA TruthInvStep ==
  ASSUME ~Torn, ClientInv, TruthInv, [Next]_vars
  PROVE  TruthInv'
<1>1. /\ since \in [Calls -> SUBSET Disks] /\ scan \in [Calls -> Scans]
      /\ phase \in [Calls -> {"idle", "queued", "running", "answered"}]
      /\ child \in [Calls -> {"none", "running", "exited", "broken", "killed", "gone"}]
  BY DEF ClientInv, TypeOK, EngineTypeOK
\* What a step leaves alone stays true.
<1>2. ASSUME disk' = disk, cache' = cache,
             \A x \in Calls : /\ Walking(x)' => Walking(x) /\ scan'[x] = scan[x]
                              /\ phase'[x] \in {"queued", "running"} => disk \in since'[x]
                              /\ phase'[x] = "running" /\ scan'[x].phase \in {"budget", "osv", "out"}
                                 => \E d \in since'[x] : ReportExplains(x, d, scan'[x].report)
      PROVE  TruthInv'
  <2>1. CacheFaithful'
    BY <1>2 DEF TruthInv, CacheFaithful
  <2>2. WalksTrue'
    BY <1>2 DEF TruthInv, WalksTrue
  <2>3. ReportsTrue'
    BY <1>2 DEF ReportsTrue, ReportExplains
  <2>. QED  BY <2>1, <2>2, <2>3 DEF TruthInv
<1>3. ASSUME NEW c \in Calls, Call(c) \/ CallSync(c) PROVE TruthInv'
  <2>1. /\ UNCHANGED <<disk, cache>> /\ since' = [since EXCEPT ![c] = {disk}]
        /\ phase' = [phase EXCEPT ![c] = phase'[c]]
        /\ phase'[c] = "running" => scan'[c].phase = "start"
        /\ child'[c] = "running" => scan'[c].phase = "start"
        /\ \A x \in Calls \ {c} : scan'[x] = scan[x] /\ child'[x] = child[x]
    <3>1. phase[c] = "idle" /\ child[c] = "none"
      BY <1>3 DEF Call, CallSync, ClientInv, Lifecycle
    <3>. QED  BY <1>1, <1>3, <3>1 DEF Call, CallSync, Begun, Spawned
  <2>2. ASSUME NEW x \in Calls \ {c}
        PROVE  /\ Walking(x)' => Walking(x) /\ scan'[x] = scan[x]
               /\ phase'[x] = phase[x] /\ since'[x] = since[x] /\ scan'[x] = scan[x]
    BY <1>1, <2>1 DEF Walking
  <2>3. ~Walking(c)' /\ since'[c] = {disk}
    BY <1>1, <2>1 DEF Walking
  <2>4. ASSUME NEW x \in Calls
        PROVE  /\ Walking(x)' => Walking(x) /\ scan'[x] = scan[x]
               /\ phase'[x] \in {"queued", "running"} => disk \in since'[x]
               /\ phase'[x] = "running" /\ scan'[x].phase \in {"budget", "osv", "out"}
                  => \E d \in since'[x] : ReportExplains(x, d, scan'[x].report)
    <3>1. CASE x = c
      BY <2>1, <2>3, <3>1
    <3>2. CASE x # c
      BY <2>2, <3>2 DEF TruthInv, ReportsTrue
    <3>. QED  BY <3>1, <3>2
  <2>. QED  BY <1>2, <2>1, <2>4
<1>4. ASSUME NEW c \in Calls, StdinFails(c) \/ Timeout(c) PROVE TruthInv'
  <2>1. /\ c \in Calls \ SyncCalls /\ phase[c] = "running"
        /\ Finish(c, Failed, Killed(c)) /\ UNCHANGED <<disk, cache, sync>>
    BY <1>4 DEF StdinFails, Timeout
  <2>2. /\ Killed(c) \in [Calls -> {"none", "running", "exited", "broken", "killed", "gone"}]
        /\ \A x \in Calls \ {c} : Killed(c)[x] = child[x]
    BY <1>1 DEF Killed
  <2>. QED  BY <2>1, <2>2, FinishTrue
<1>5. ASSUME NEW c \in Calls, Close(c) PROVE TruthInv'
  <2>. DEFINE kids == [child EXCEPT ![c] = "gone"]
  <2>1. /\ kids \in [Calls -> {"none", "running", "exited", "broken", "killed", "gone"}]
        /\ \A x \in Calls \ {c} : kids[x] = child[x]
    BY <1>1
  <2>2. c \in Calls \ SyncCalls /\ UNCHANGED <<disk, cache, sync>>
    BY <1>5 DEF Close
  <2>3. CASE phase[c] = "running"
    <3>1. Finish(c, Response(c), kids)
      BY <1>5, <2>3 DEF Close
    <3>. QED  BY <2>1, <2>2, <2>3, <3>1, FinishTrue
  <2>4. CASE phase[c] # "running"
    <3>1. child' = kids /\ UNCHANGED <<scan, phase, since>>
      BY <1>5, <2>4 DEF Close
    <3>2. \A x \in Calls : Walking(x)' => Walking(x) /\ scan'[x] = scan[x]
      BY <1>1, <3>1 DEF Walking
    <3>. QED  BY <1>2, <2>2, <3>1, <3>2 DEF TruthInv, ReportsTrue
  <2>. QED  BY <2>3, <2>4
<1>6. ASSUME NEW c \in Calls, SyncReturns(c) PROVE TruthInv'
  <2>1. /\ UNCHANGED <<disk, cache>> /\ since' = [since EXCEPT ![c] = {}]
        /\ phase' = [phase EXCEPT ![c] = "answered"]
        /\ child' = [child EXCEPT ![c] = "gone"] /\ scan' = [scan EXCEPT ![c] = NoScan]
    BY <1>6 DEF SyncReturns
  <2>2. ASSUME NEW x \in Calls
        PROVE  /\ Walking(x)' => Walking(x) /\ scan'[x] = scan[x]
               /\ phase'[x] \in {"queued", "running"} => disk \in since'[x]
               /\ phase'[x] = "running" /\ scan'[x].phase \in {"budget", "osv", "out"}
                  => \E d \in since'[x] : ReportExplains(x, d, scan'[x].report)
    <3>1. CASE x = c
      BY <1>1, <2>1, <3>1 DEF Walking, NoScan
    <3>2. CASE x # c
      BY <1>1, <2>1, <3>2 DEF Walking, TruthInv, ReportsTrue
    <3>. QED  BY <3>1, <3>2
  <2>. QED  BY <1>2, <2>1, <2>2
<1>7. ASSUME NEW c \in Calls, Engine(c) PROVE TruthInv'
  <2>1. EngineStep(c) /\ UNCHANGED <<phase, since>>
    BY <1>7 DEF Engine, client
  <2>2. /\ disk' = disk /\ \E s \in Scans : scan' = [scan EXCEPT ![c] = s]
        /\ child' \in {child, [child EXCEPT ![c] = "exited"], [child EXCEPT ![c] = "broken"]}
    BY <2>1, EngineTouches
  <2>3. \A x \in Calls \ {c} : scan'[x] = scan[x] /\ child'[x] = child[x]
    BY <1>1, <2>2
  <2>4. /\ CacheFaithful'
        /\ Walking(c)' => /\ scan'[c].bytes = disk
                          /\ scan'[c].found = FoundBefore(c, disk, scan'[c].next)
        /\ scan'[c].phase \in {"budget", "osv", "out"} =>
             \E d \in since[c] : ReportExplains(c, d, scan'[c].report)
    BY <2>1, EngineTrue
  <2>5. WalksTrue'
    <3>1. ASSUME NEW x \in Calls, Walking(x)'
          PROVE  scan'[x].bytes = disk /\ scan'[x].found = FoundBefore(x, disk, scan'[x].next)
      BY <2>3, <2>4, <3>1 DEF TruthInv, WalksTrue, Walking
    <3>. QED  BY <2>2, <3>1 DEF WalksTrue
  <2>6. ReportsTrue'
    <3>1. ASSUME NEW x \in Calls
          PROVE  /\ phase'[x] \in {"queued", "running"} => disk \in since'[x]
                 /\ phase'[x] = "running" /\ scan'[x].phase \in {"budget", "osv", "out"}
                    => \E d \in since'[x] : ReportExplains(x, d, scan'[x].report)
      BY <2>1, <2>3, <2>4 DEF TruthInv, ReportsTrue
    <3>. QED  BY <2>2, <3>1 DEF ReportsTrue, ReportExplains
  <2>. QED  BY <2>4, <2>5, <2>6 DEF TruthInv
<1>8. CASE Edit
  <2>1. /\ \A c \in Calls : ~Walking(c)
        /\ since' = [c \in Calls |-> IF phase[c] \in {"queued", "running"} THEN since[c] \cup {disk'} ELSE {}]
        /\ UNCHANGED <<cache, child, scan, phase>>
    BY <1>8 DEF Edit
  <2>2. CacheFaithful' /\ WalksTrue'
    BY <2>1 DEF TruthInv, CacheFaithful, WalksTrue, Walking
  <2>3. ASSUME NEW x \in Calls
        PROVE  /\ phase'[x] \in {"queued", "running"} => disk' \in since'[x]
               /\ phase'[x] = "running" /\ scan'[x].phase \in {"budget", "osv", "out"}
                  => \E d \in since'[x] : ReportExplains(x, d, scan'[x].report)
    BY <1>1, <2>1 DEF TruthInv, ReportsTrue
  <2>. QED  BY <2>2, <2>3 DEF TruthInv, ReportsTrue, ReportExplains
<1>9. CASE Foreign
  <2>1. /\ UNCHANGED <<disk, child, scan, phase, since>>
        /\ \A e \in cache' : e \in cache \/ e.own = FALSE
    BY <1>9 DEF Foreign, client, ForeignWrite
  <2>. QED  BY <2>1 DEF TruthInv, CacheFaithful, WalksTrue, Walking, ReportsTrue, ReportExplains
<1>10. CASE UNCHANGED vars
  BY <1>10 DEF vars, TruthInv, CacheFaithful, WalksTrue, Walking, ReportsTrue, ReportExplains
<1>. QED  BY <1>3, <1>4, <1>5, <1>6, <1>7, <1>8, <1>9, <1>10 DEF Next

LEMMA TruthInvInit == ClientInit => TruthInv
<1>. SUFFICES ASSUME ClientInit PROVE TruthInv
  OBVIOUS
<1>1. /\ cache = {} /\ child = [c \in Calls |-> "none"] /\ phase = [c \in Calls |-> "idle"]
  BY DEF ClientInit, EngineInit
<1>. QED  BY <1>1 DEF TruthInv, CacheFaithful, WalksTrue, Walking, ReportsTrue

LEMMA TruthInvariant ==
  ASSUME ~Torn
  PROVE  Spec => []TruthInv
<1>1. ClientInit => TruthInv
  BY TruthInvInit
<1>2. ClientInv /\ TruthInv /\ [Next]_vars => TruthInv'
  BY TruthInvStep
<1>. QED  BY <1>1, <1>2, ClientInvariant, PTL DEF Spec

\* cache.ts: while packages do not change under a walk, what the cache holds under
\* some bytes is the report of a full walk of these bytes.
THEOREM CacheIsFaithful ==
  ASSUME ~Torn
  PROVE  Spec => []CacheFaithful
<1>1. TruthInv => CacheFaithful
  BY DEF TruthInv
<1>. QED  BY <1>1, TruthInvariant, PTL

-----------------------------------------------------------------------------
(* The refinement of ScanPromise.                                          *)

\* The end of a scan is an answer of the promise.
LEMMA AnswerPromised ==
  ASSUME ClientInv, TruthInv, NEW c \in Calls, phase[c] = "running", NEW a, Answers(c, a),
         a = Failed \/ (scan[c].phase = "out" /\ a = scan[c].report),
         since' = [since EXCEPT ![c] = {}], disk' = disk,
         {x \in Calls : phase'[x] # "idle"} = {x \in Calls : phase[x] # "idle"}
  PROVE  Promise!Answer(c)
<1>1. c \in {x \in Calls : phase[x] # "idle"} \ DOMAIN answer
  BY DEF ClientInv, Lifecycle, Answered
<1>2. /\ DOMAIN answer' = DOMAIN answer \cup {c}
      /\ \A x \in DOMAIN answer : answer'[x] = answer[x]
      /\ answer'[c] = a
  BY <1>1 DEF Answers, Answered
<1>3. a = Failed \/ \E d \in since[c] : ReportExplains(c, d, a)
  BY DEF TruthInv, ReportsTrue
<1>. QED  BY <1>1, <1>2, <1>3 DEF Promise!Answer

LEMMA StepPromised ==
  ASSUME ClientInv, TruthInv, [Next]_vars
  PROVE  [Promise!PromiseNext]_(Promise!promise)
<1>. DEFINE made == {x \in Calls : phase[x] # "idle"}
<1>1. phase \in [Calls -> {"idle", "queued", "running", "answered"}] /\ disk \in Disks
  BY DEF ClientInv, TypeOK
<1>2. ASSUME UNCHANGED <<disk, since, answer>>, made' = made
      PROVE  [Promise!PromiseNext]_(Promise!promise)
  BY <1>2 DEF Promise!promise
<1>3. \A c \in Calls : Response(c) = Failed \/ (scan[c].phase = "out" /\ Response(c) = scan[c].report)
  BY DEF Response
<1>4. ASSUME NEW c \in Calls, Call(c) \/ CallSync(c) PROVE Promise!PromiseNext
  <2>1. c \notin made /\ since' = [since EXCEPT ![c] = {disk}] /\ UNCHANGED <<disk, answer>>
    BY <1>4 DEF Call, CallSync
  <2>2. made' = made \cup {c}
    BY <1>1, <1>4 DEF Call, CallSync
  <2>3. Promise!Ask(c)
    BY <2>1, <2>2 DEF Promise!Ask
  <2>. QED  BY <2>3 DEF Promise!PromiseNext
<1>5. ASSUME NEW c \in Calls \ SyncCalls, phase[c] = "running", NEW a, NEW kids, Finish(c, a, kids), disk' = disk,
             a = Failed \/ (scan[c].phase = "out" /\ a = scan[c].report)
      PROVE  Promise!PromiseNext
  <2>. DEFINE next == ToSet(SubSeq(queue, 1, Room(active - 1, queue)))
  <2>1. next \subseteq ToSet(queue)
    BY <1>5, Pump DEF OnSlot, ClientInv
  <2>2. \A x \in next : phase[x] # "idle"
    BY <2>1 DEF ClientInv, SlotInv
  <2>3. phase' = [x \in Calls |-> IF x = c THEN "answered" ELSE IF x \in next THEN "running" ELSE phase[x]]
    BY <1>5 DEF Finish
  <2>. HIDE DEF next
  <2>4. made' = made
    BY <1>5, <2>2, <2>3
  <2>5. Promise!Answer(c)
    BY <1>5, <2>4, AnswerPromised DEF Finish
  <2>. QED  BY <2>5 DEF Promise!PromiseNext
<1>6. ASSUME NEW c \in Calls, StdinFails(c) \/ Timeout(c) PROVE Promise!PromiseNext
  BY <1>5, <1>6 DEF StdinFails, Timeout
<1>7. ASSUME NEW c \in Calls, Close(c) PROVE [Promise!PromiseNext]_(Promise!promise)
  <2>1. CASE phase[c] = "running"
    BY <1>3, <1>5, <1>7, <2>1 DEF Close
  <2>2. CASE phase[c] # "running"
    <3>1. UNCHANGED <<disk, since, answer, phase>>
      BY <1>7, <2>2 DEF Close
    <3>. QED  BY <1>2, <3>1
  <2>. QED  BY <2>1, <2>2
<1>8. ASSUME NEW c \in Calls, SyncReturns(c) PROVE Promise!PromiseNext
  <2>1. phase[c] = "running" /\ phase' = [phase EXCEPT ![c] = "answered"]
        /\ since' = [since EXCEPT ![c] = {}] /\ disk' = disk
    BY <1>8 DEF SyncReturns, ClientInv, Lifecycle
  <2>2. Answers(c, Response(c)) \/ Answers(c, Failed)
    BY <1>8 DEF SyncReturns
  <2>3. made' = made
    BY <1>1, <2>1
  <2>4. Promise!Answer(c)
    BY <1>3, <2>1, <2>2, <2>3, AnswerPromised
  <2>. QED  BY <2>4 DEF Promise!PromiseNext
<1>9. ASSUME NEW c \in Calls, Engine(c) PROVE [Promise!PromiseNext]_(Promise!promise)
  <2>1. UNCHANGED <<phase, since, answer, disk>>
    BY <1>9, EngineTouches DEF Engine, client
  <2>. QED  BY <1>2, <2>1
<1>10. CASE Edit
  <2>1. PICK e \in Edits : disk' = [disk EXCEPT ![e[1]] = e[2]]
    BY <1>10 DEF Edit
  <2>2. disk' \in Disks
    BY <1>1, <2>1, ClientAssumption DEF Disks
  <2>3. UNCHANGED <<phase, answer>>
    BY <1>10 DEF Edit
  <2>4. \A c \in Calls : phase[c] \in {"queued", "running"} <=> c \in made \ DOMAIN answer
    BY <1>1 DEF ClientInv, Lifecycle, Answered
  <2>5. since' = [c \in Calls |-> IF c \in made \ DOMAIN answer THEN since[c] \cup {disk'} ELSE {}]
    BY <1>10, <2>4 DEF Edit
  <2>6. Promise!Change
    BY <2>2, <2>3, <2>5 DEF Promise!Change
  <2>. QED  BY <2>6 DEF Promise!PromiseNext
<1>11. CASE Foreign \/ UNCHANGED vars
  <2>1. UNCHANGED <<disk, since, answer, phase>>
    BY <1>11 DEF Foreign, client, vars
  <2>. QED  BY <1>2, <2>1
<1>. QED  BY <1>4, <1>6, <1>7, <1>8, <1>9, <1>10, <1>11 DEF Next

\* scan() and scanSync() keep what ScanPromise promises their callers, while packages
\* do not change under a walk.
THEOREM PromiseIsKept ==
  ASSUME ~Torn
  PROVE  Spec => Promised
<1>1. ClientInit => Promise!PromiseInit
  BY ClientAssumption DEF ClientInit, EngineInit, Promise!PromiseInit
<1>2. ClientInv /\ TruthInv /\ [Next]_vars => [Promise!PromiseNext]_(Promise!promise)
  BY StepPromised
<1>. QED
  BY <1>1, <1>2, ClientInvariant, TruthInvariant, PTL DEF Spec, Promised, Promise!PromiseSpec

=============================================================================
