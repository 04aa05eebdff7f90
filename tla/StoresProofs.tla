---------------------------- MODULE StoresProofs ----------------------------
(***************************************************************************)
(* For every set of processes, versions, manifests and findings, and every *)
(* number of records kept: what a scan says of an upgrade and of a         *)
(* rewritten store is so, no record leaves the disk without a reason, and  *)
(* the lists of the panel follow the scans (SharedStores, AuditLists).     *)
(***************************************************************************)
EXTENDS AuditLists, FiniteSetTheorems, WellFoundedInduction, TLAPS

-----------------------------------------------------------------------------
(* Types.                                                                  *)

Scanned == [version : Versions, at : Nat, can : Manifests]
Package == [name : {"plug", "core", "unread"}, suspected : BOOLEAN]
Writers == Hosts \cup {NoOne}
Actors  == Hosts \cup {"outsider", "fault"}
Content == [recs : (SUBSET Scanned) \cup (SUBSET Package), writer : Writers, at : Nat]
Note    == [seen : BOOLEAN, writer : Writers, who : SUBSET Actors]
Prev    == [version : Nat, at : Nat, can : Manifests]
Alarms  == [severity : {"none", "info", "red"}, kind : {"none", "upgrade-cold", "upgrade-diff"}]
Doing   == [op : {"none", "reload"}] \cup
           [op : {"scan"}, to : Versions, recs : SUBSET Scanned, prev : Prev, alarm : Alarms,
            seen : Content, misread : BOOLEAN, at : Nat, who : SUBSET Actors]

StoresType ==
    /\ installed \in Versions /\ clock \in Nat
    /\ caps \in Content /\ caps.recs \in SUBSET Scanned
    /\ base \in Content /\ base.recs \in SUBSET Package
    /\ wrote \in [Hosts -> [Files -> Content]]
    /\ tamper \in [Hosts -> [Files -> Note]]
    /\ touch \in [Hosts -> [Files -> SUBSET Actors]]
    /\ cached \in [Hosts -> SUBSET Package]
    /\ doing \in [Hosts -> Doing]

\* A step of the lists alone leaves the stores; time may pass.
ListsOnly ==
    /\ UNCHANGED <<installed, stores, doing, told, history>>
    /\ clock' = clock \/ clock' = clock + 1

\* The steps of the run, as the stores see them.
StoreStep ==
    \/ \E v \in Versions : Upgrade(v)
    \/ \E h \in Hosts, fault \in BOOLEAN :
          \/ LoadCaps(h, fault)
          \/ SaveCaps(h, fault)
          \/ Show(h, fault)
          \/ Reload(h, fault)
          \/ ReadBase(h, fault)
          \/ \E name \in {"plug", "core"} : SeePackage(h, name, fault)
          \/ \E mark \in BOOLEAN : Mark(h, mark, fault)
    \/ \E h \in Hosts : Restart(h)
    \/ \E file \in Files, wipe \in BOOLEAN : Edit(file, wipe)
    \/ ListsOnly

\* Whatever the run does, the stores see one of their own steps.
LEMMA StepsOfStores ==
    ASSUME [ListsNext]_allVars
    PROVE  StoreStep
<1>1. CASE UNCHANGED allVars
  BY <1>1 DEF allVars, vars, StoreStep, ListsOnly
<1>2. CASE Next  BY <1>2 DEF Next, StoreStep
<1>3. CASE Step
  <2>1. ASSUME NEW h \in Hosts, NEW fault \in BOOLEAN, NEW name, NEW via, NEW finding,
               NoteScan(h, name, via, finding, fault)
        PROVE  StoreStep
    BY <2>1 DEF NoteScan, ListsOnly, StoreStep
  <2>2. ASSUME NEW h \in Hosts, NEW fault \in BOOLEAN, SaveSummary(h, fault)
        PROVE  StoreStep
    BY <2>2 DEF SaveSummary, ListsOnly, StoreStep
  <2>3. ASSUME NEW h \in Hosts, NEW fault \in BOOLEAN, Record(h, fault) \/ EndRecord(h, fault)
        PROVE  StoreStep
    BY <2>3 DEF Record, EndRecord, StoreStep
  <2>4. ASSUME NEW h \in Hosts, SkipRecord(h)  PROVE StoreStep
    BY <2>4 DEF SkipRecord, ListsOnly, StoreStep
  <2>5. ASSUME NEW h \in Hosts, Stop(h)  PROVE StoreStep
    BY <2>5 DEF Stop, StoreStep
  <2>6. ASSUME NEW v \in Versions, Install(v)  PROVE StoreStep
    BY <2>6 DEF Install, StoreStep
  <2>7. ASSUME NEW wipe \in BOOLEAN, EditCaps(wipe)  PROVE StoreStep
    BY <2>7 DEF EditCaps, StoreStep, Files
  <2> QED  BY <1>3, <2>1, <2>2, <2>3, <2>4, <2>5, <2>6, <2>7 DEF Step
<1> QED  BY <1>1, <1>2, <1>3 DEF ListsNext

-----------------------------------------------------------------------------
(* The latest record.                                                      *)

\* Among some numbers there is a least one.
LEMMA LeastOf ==
    ASSUME NEW T, T \subseteq Nat, T # {}
    PROVE  \E k \in T : \A j \in T : k <= j
<1> DEFINE R == {ss \in Nat \X Nat : ss[1] < ss[2]}
<1>1. IsWellFoundedOn(R, Nat)  BY NatLessThanWellFounded DEF OpToRel
<1> HIDE DEF R
<1>2. PICK k \in T : \A j \in T : ~ (<<j, k>> \in R)  BY <1>1, WFMin
<1>3. \A j \in T : j < k => <<j, k>> \in R  BY DEF R
<1>4. \A j \in T : ~ (j < k)  BY <1>2, <1>3
<1>5. \A j \in T : j \in Nat /\ k \in Nat  OBVIOUS
<1> QED  BY <1>4, <1>5

\* Records that are dated have a latest.
LEMMA LatestIs ==
    ASSUME NEW n \in Nat, NEW S, S # {}, \A r \in S : r.at \in Nat /\ r.at <= n
    PROVE  Latest(S) \in S /\ \A s \in S : s.at <= Latest(S).at
<1> DEFINE T == {n - r.at : r \in S}
<1>1. T \subseteq Nat /\ T # {}  OBVIOUS
<1>2. PICK k \in T : \A j \in T : k <= j
  <2> HIDE DEF T
  <2> QED  BY <1>1, LeastOf
<1>3. PICK r \in S : k = n - r.at  OBVIOUS
<1>4. ASSUME NEW s \in S  PROVE s.at <= r.at
  <2>1. n - r.at <= n - s.at  BY <1>2, <1>3
  <2>2. r.at \in Nat /\ s.at \in Nat  OBVIOUS
  <2> QED  BY <2>1, <2>2
<1> QED  BY <1>4 DEF Latest

-----------------------------------------------------------------------------
(* The records, and what a scan compares them with.                        *)

\* p is the record of the version before `to`, as far as the disk knew at `at`, and
\* the alarm is about the difference.
Compared(written, gone, p, to, at, alarm) ==
    /\ p.version # to /\ p.at \in Nat
    /\ \A r \in written : r.version # to /\ p.at < r.at /\ r.at <= at => r \in gone
    /\ p.version # 0 => alarm = UpgradeAlarm(Can[p.version], Can[to])

ScanInv(written, gone, now, d) ==
    /\ d.at \in Nat /\ d.at <= now /\ d.recs \subseteq written /\ IsFiniteSet(d.recs)
    /\ d.misread \/ (d.recs = d.seen.recs /\ Compared(written, gone, d.prev, d.to, d.at, d.alarm))

\* What is on the disk, and what was.
SavedInv ==
    /\ \A r \in saved : r \in Scanned /\ r.at > 0 /\ r.at <= clock /\ r.can = Can[r.version]
    /\ \A r, s \in saved : r.at = s.at => r = s
    /\ caps.recs \subseteq saved /\ saved \ lost \subseteq caps.recs /\ IsFiniteSet(caps.recs)
    /\ caps.at = 0 => caps.recs = {}

DoingInv ==
    \A h \in Hosts : doing[h].op = "scan" => ScanInv(saved, lost, clock, doing[h])

ToldInv ==
    told.host # NoOne =>
        /\ told.at \in Nat /\ told.at <= clock
        /\ told.misread \/ Compared(saved, lost, told.prev, told.to, told.at, told.alarm)

RecordsInv == SavedInv /\ DoingInv /\ ToldInv

-----------------------------------------------------------------------------
(* Types are kept.                                                         *)

\* What is there before anything happened.
LEMMA SilentFiles ==
    /\ Missing \in Content /\ Missing.recs = {} /\ NoTamper \in Note
    /\ Idle \in Doing /\ Idle.op = "none"
    /\ Unread \in SUBSET Package
BY DEF Missing, Content, Writers, NoTamper, Note, Idle, Doing, Unread, Package

\* A note has its type, whatever content it is of.
LEMMA NotedType ==
    ASSUME StoresType, NEW h \in Hosts, NEW f \in Files, NEW c \in Content, NEW b
    PROVE  Noted(h, f, c, b) \in Note
<1>1. tamper[h][f] \in Note /\ touch[h][f] \in SUBSET Actors  BY DEF StoresType
<1>2. [seen |-> TRUE, writer |-> NoOne, who |-> touch[h][f] \cup {"fault"}] \in Note
  BY <1>1 DEF Note, Writers, Actors
<1>3. [seen |-> TRUE, writer |-> c.writer, who |-> touch[h][f]] \in Note
  BY <1>1 DEF Note, Content
<1> QED  BY <1>1, <1>2, <1>3 DEF Noted

\* So has who touched the files.
LEMMA TouchedType ==
    ASSUME StoresType, NEW f \in Files, NEW who \in Actors, NEW own
    PROVE  Touched(f, who, own) \in [Hosts -> [Files -> SUBSET Actors]]
<1>1. ASSUME NEW g \in Hosts
      PROVE  [touch[g] EXCEPT ![f] = IF g = own THEN {} ELSE @ \cup {who}] \in [Files -> SUBSET Actors]
  <2>1. touch[g] \in [Files -> SUBSET Actors]  BY DEF StoresType
  <2> QED  BY <2>1
<1> QED  BY <1>1 DEF Touched

\* And the alarms.
LEMMA AlarmsType ==
    /\ \A can, audited : ColdAlarm(can, audited) \in Alarms
    /\ \A a, b : UpgradeAlarm(a, b) \in Alarms
<1>1. None \in Alarms  BY SMT DEF None, Alarms
<1>2. \A a : UpgradeSeverity(a) \in {"none", "info", "red"}  BY Zenon DEF UpgradeSeverity
<1>3. [severity |-> "info", kind |-> "upgrade-cold"] \in Alarms  BY SMT DEF Alarms
<1>4. ASSUME NEW s \in {"none", "info", "red"}
      PROVE  [severity |-> s, kind |-> "upgrade-diff"] \in Alarms
  BY SMT DEF Alarms
<1>5. \A can, audited : ColdAlarm(can, audited) \in Alarms
  BY <1>1, <1>3, Zenon DEF ColdAlarm
<1>6. \A a, b : UpgradeAlarm(a, b) \in Alarms
  BY <1>1, <1>2, <1>4, Zenon DEF UpgradeAlarm
<1> QED  BY <1>5, <1>6

\* What a scan starts with.
LEMMA ScanStarts ==
    ASSUME StoresType, RecordsInv, NEW h \in Hosts, NEW fault \in BOOLEAN, LoadCaps(h, fault)
    PROVE  /\ doing'[h] \in Doing /\ doing'[h].op = "scan" /\ ScanInv(saved, lost, clock, doing'[h])
           /\ doing'[h].who = IF wrote[h].caps.writer = NoOne THEN {} ELSE touch[h].caps
<1> DEFINE recs == Records(caps, fault)
           other == Others(recs, installed)
           zero == [version |-> 0, at |-> 0, can |-> {}]
           prev == IF other = {} THEN zero ELSE Latest(other)
           alarm == IF other = {} THEN ColdAlarm(Can[installed], installed \in Audited)
                    ELSE UpgradeAlarm(prev.can, Can[installed])
           who == IF wrote[h].caps.writer = NoOne THEN {} ELSE touch[h].caps
           d == [op |-> "scan", to |-> installed, recs |-> recs, prev |-> prev, alarm |-> alarm,
                 seen |-> caps, misread |-> fault, at |-> clock, who |-> who]
<1>1. doing' = [doing EXCEPT ![h] = d]  BY DEF LoadCaps
<1>2. doing'[h] = d
  <2> HIDE DEF d
  <2> QED  BY <1>1 DEF StoresType
<1>3. recs \in SUBSET Scanned /\ recs \subseteq caps.recs /\ recs \subseteq saved /\ IsFiniteSet(recs)
  BY FS_EmptySet DEF Records, StoresType, RecordsInv, SavedInv
<1>4. other \subseteq recs /\ \A r \in other : r.version # installed
  BY DEF Others
<1>5. clock \in Nat /\ \A r \in other : r.at \in Nat /\ r.at <= clock
  BY <1>3, <1>4 DEF StoresType, RecordsInv, SavedInv, Scanned
<1>6. other # {} => prev \in other /\ \A s \in other : s.at <= prev.at
  <2> HIDE DEF other
  <2> QED  BY <1>5, LatestIs
<1>7. Versions \subseteq Nat /\ 0 \notin Versions /\ installed \in Versions
  <2> DEFINE n == Cardinality(Versions)
  <2>1. Versions = 1..n /\ installed \in Versions  BY StoresAssumption DEF StoresType
  <2> HIDE DEF n
  <2>2. 1..n \subseteq Nat /\ 0 \notin 1..n  OBVIOUS
  <2> QED  BY <2>1, <2>2
<1>8. prev \in Prev
  <2>1. CASE other = {}  BY <2>1 DEF Prev, Manifests
  <2>2. CASE other # {}  BY <2>2, <1>3, <1>4, <1>6, <1>7 DEF Scanned, Prev
  <2> QED  BY <2>1, <2>2
<1>9. alarm \in Alarms  BY AlarmsType
<1>10. who \in SUBSET Actors  BY DEF StoresType, Files
<1>11. d \in Doing
  <2>1. caps \in Content  BY DEF StoresType
  <2> HIDE DEF recs, prev, alarm, who
  <2> QED  BY <2>1, <1>3, <1>5, <1>7, <1>8, <1>9, <1>10 DEF Doing
<1>12. ASSUME ~ fault  PROVE recs = caps.recs /\ Compared(saved, lost, prev, installed, clock, alarm)
  <2>1. recs = caps.recs  BY <1>12 DEF Records, Readable, RecordsInv, SavedInv
  <2>2. prev.version # installed  BY <1>4, <1>6, <1>7
  <2>3. prev.at \in Nat  BY <1>8 DEF Prev
  <2>4. ASSUME NEW r \in saved, r.version # installed, prev.at < r.at  PROVE r \in lost
    <3> SUFFICES ASSUME r \notin lost  PROVE FALSE  OBVIOUS
    <3>1. r \in other  BY <2>1, <2>4 DEF RecordsInv, SavedInv, Others
    <3>2. r.at <= prev.at /\ r.at \in Nat  BY <1>5, <1>6, <3>1
    <3> HIDE DEF prev
    <3> QED  BY <2>3, <2>4, <3>2
  <2>5. prev.version # 0 => alarm = UpgradeAlarm(Can[prev.version], Can[installed])
    <3>1. CASE other = {}  BY <3>1
    <3>2. CASE other # {}
      <4>1. prev.can = Can[prev.version]  BY <3>2, <1>3, <1>4, <1>6 DEF RecordsInv, SavedInv
      <4> QED  BY <3>2, <4>1
    <3> QED  BY <3>1, <3>2
  <2> HIDE DEF prev, alarm, recs
  <2> QED  BY <2>1, <2>2, <2>3, <2>4, <2>5 DEF Compared
<1>13. ScanInv(saved, lost, clock, d)
  <2> HIDE DEF prev, alarm, recs
  <2>1. /\ d.at = clock /\ d.recs = recs /\ d.misread = fault /\ d.seen = caps
        /\ d.prev = prev /\ d.to = installed /\ d.alarm = alarm
    OBVIOUS
  <2> HIDE DEF d
  <2>2. d.at <= d.at  BY <2>1, <1>5
  <2>3. d.misread \/ (d.recs = d.seen.recs /\ Compared(saved, lost, d.prev, d.to, d.at, d.alarm))
    <3>1. CASE fault = TRUE  BY <2>1, <3>1
    <3>2. CASE fault = FALSE
      <4>1. recs = caps.recs /\ Compared(saved, lost, prev, installed, clock, alarm)  BY <3>2, <1>12
      <4>2. Compared(saved, lost, d.prev, d.to, d.at, d.alarm)
        BY ONLY <4>1, <2>1, Zenon
      <4> QED  BY <4>1, <4>2, <2>1
    <3> QED  BY <3>1, <3>2
  <2>4. d.at \in Nat /\ d.at <= clock /\ d.recs \subseteq saved /\ IsFiniteSet(d.recs)
    BY <2>1, <2>2, <1>3, <1>5
  <2> QED  BY <2>3, <2>4 DEF ScanInv
<1>14. d.who = who /\ d.op = "scan"  OBVIOUS
<1> HIDE DEF d
<1> QED  BY <1>2, <1>11, <1>13, <1>14

\* Only records that were there are kept, among them one that is newer than the others.
LEMMA NewestStays ==
    ASSUME NEW R, NEW new, NEW n \in Nat, new.at = n + 1, \A r \in R : r.at \in Nat /\ r.at <= n
    PROVE  new \in Pruned(WithRecord(R, new), MaxKept)
<1> DEFINE W == WithRecord(R, new)
           above == {s \in W : s.at > new.at}
<1>1. new \in W /\ \A s \in W : s = new \/ s \in R  BY DEF WithRecord, Others
<1>2. \A s \in W : ~ (s.at > new.at)
  <2> SUFFICES ASSUME NEW s \in W  PROVE ~ (s.at > new.at)  OBVIOUS
  <2> HIDE DEF W
  <2>1. CASE s = new  BY <2>1
  <2>2. CASE s \in R
    <3>1. s.at \in Nat /\ s.at <= n  BY <2>2
    <3> QED  BY <3>1
  <2> QED  BY <1>1, <2>1, <2>2
<1>3. above = {}  BY <1>2
<1>4. Cardinality(above) = 0  BY <1>3, FS_EmptySet
<1>5. Cardinality(above) < MaxKept  BY <1>4, StoresAssumption
<1> QED  BY <1>1, <1>5 DEF Pruned

\* Pruning adds nothing.
LEMMA RecordsPruned ==
    ASSUME NEW R, NEW k
    PROVE  Pruned(R, k) \subseteq R
BY DEF Pruned

\* A step keeps the types, when the records are in order.
LEMMA TypesKept ==
    ASSUME StoresType, RecordsInv, StoreStep
    PROVE  StoresType'
<1>1. ASSUME NEW v \in Versions, Upgrade(v)  PROVE StoresType'
  BY <1>1 DEF Upgrade, stores, history, StoresType
<1>2. ASSUME NEW h \in Hosts, NEW fault \in BOOLEAN, LoadCaps(h, fault)  PROVE StoresType'
  <2>1. doing'[h] \in Doing  BY <1>2, ScanStarts
  <2>2. doing' \in [Hosts -> Doing]
    <3>1. \E x : doing' = [doing EXCEPT ![h] = x]  BY <1>2 DEF LoadCaps
    <3> HIDE DEF Doing
    <3> QED  BY <2>1, <3>1 DEF StoresType
  <2>3. tamper' \in [Hosts -> [Files -> Note]]
    <3>1. Noted(h, "caps", caps, Readable(caps, fault)) \in Note  BY NotedType DEF StoresType, Files
    <3> HIDE DEF Note
    <3> QED  BY <1>2, <3>1 DEF StoresType, LoadCaps, Files
  <2> QED  BY <1>2, <2>2, <2>3 DEF LoadCaps, history, StoresType
<1>3. ASSUME NEW h \in Hosts, NEW fault \in BOOLEAN, SaveCaps(h, fault)  PROVE StoresType'
  <2> DEFINE d == doing[h]
             new == [version |-> d.to, at |-> clock + 1, can |-> Can[d.to]]
             recs == Pruned(WithRecord(d.recs, new), MaxKept)
             next == [recs |-> recs, writer |-> h, at |-> clock + 1]
             file == TellStore(h).file
  <2>1. d \in Doing /\ d.op = "scan"  BY <1>3 DEF SaveCaps, StoresType
  <2>2. d.to \in Versions /\ d.recs \in SUBSET Scanned  BY <2>1 DEF Doing
  <2>3. clock \in Nat /\ clock + 1 \in Nat  BY DEF StoresType
  <2>4. new \in Scanned
    <3>1. Can[d.to] \in Manifests  BY <2>2, StoresAssumption
    <3> HIDE DEF d
    <3> QED  BY <2>2, <2>3, <3>1 DEF Scanned
  <2>5. recs \in SUBSET Scanned
    <3> HIDE DEF new, d
    <3>1. recs \subseteq WithRecord(d.recs, new)  BY RecordsPruned
    <3>2. WithRecord(d.recs, new) \in SUBSET Scanned  BY <2>2, <2>4 DEF WithRecord, Others
    <3> QED  BY <3>1, <3>2
  <2>6. next \in Content /\ next.recs = recs
    <3> HIDE DEF recs
    <3> QED  BY <2>3, <2>5 DEF Content, Writers
  <2>7. caps' \in Content /\ caps'.recs \in SUBSET Scanned /\ wrote' \in [Hosts -> [Files -> Content]]
    <3>1. CASE fault  BY <1>3, <3>1 DEF SaveCaps, StoresType
    <3>2. CASE ~ fault
      <4>1. caps' = next /\ wrote' = [wrote EXCEPT ![h].caps = next]  BY <1>3, <3>2 DEF SaveCaps
      <4> HIDE DEF next, recs, Content
      <4> QED  BY <2>5, <2>6, <4>1 DEF StoresType, Files
    <3> QED  BY <3>1, <3>2
  <2>8. touch' \in [Hosts -> [Files -> SUBSET Actors]]
    <3>1. CASE fault  BY <1>3, <3>1 DEF SaveCaps, StoresType
    <3>2. CASE ~ fault
      <4>1. touch' = Touched("caps", h, h)  BY <1>3, <3>2 DEF SaveCaps
      <4> QED  BY <4>1, TouchedType DEF Files, Actors
    <3> QED  BY <3>1, <3>2
  <2>9. tamper' \in [Hosts -> [Files -> Note]]
    <3>1. file = "none" \/ file \in Files  BY DEF TellStore, Files
    <3>2. tamper' = IF file = "none" THEN tamper ELSE [tamper EXCEPT ![h][file] = NoTamper]
      BY <1>3 DEF SaveCaps
    <3> HIDE DEF Note, file
    <3> QED  BY <3>1, <3>2, SilentFiles DEF StoresType
  <2>10. doing' \in [Hosts -> Doing] /\ clock' \in Nat
    <3> HIDE DEF Doing
    <3> QED  BY <1>3, <2>3, SilentFiles DEF StoresType, SaveCaps
  <2> QED  BY <1>3, <2>7, <2>8, <2>9, <2>10 DEF SaveCaps, StoresType
<1>4. ASSUME NEW h \in Hosts, NEW fault \in BOOLEAN, Show(h, fault)  PROVE StoresType'
  <2>3. tamper' \in [Hosts -> [Files -> Note]]
    <3>1. Noted(h, "caps", caps, Readable(caps, fault)) \in Note  BY NotedType DEF StoresType, Files
    <3> HIDE DEF Note
    <3> QED  BY <1>4, <3>1 DEF StoresType, Show, Files
  <2> QED  BY <1>4, <2>3 DEF Show, history, StoresType
<1>5. ASSUME NEW h \in Hosts, NEW fault \in BOOLEAN,
             Reload(h, fault) \/ ReadBase(h, fault)
      PROVE  StoresType'
  <2>1. Records(base, fault) \in SUBSET Package  BY DEF Records, StoresType
  <2>2. cached' \in [Hosts -> SUBSET Package]
    <3> HIDE DEF Package
    <3> QED  BY <1>5, <2>1 DEF StoresType, Reload, ReadBase
  <2>3. tamper' \in [Hosts -> [Files -> Note]]
    <3>1. Noted(h, "base", base, Readable(base, fault)) \in Note  BY NotedType DEF StoresType, Files
    <3> HIDE DEF Note
    <3>2. CASE Reload(h, fault)  BY <3>1, <3>2 DEF StoresType, Reload, Files
    <3>3. CASE ReadBase(h, fault)  BY <3>3 DEF StoresType, ReadBase
    <3> QED  BY <1>5, <3>2, <3>3
  <2>4. touch' \in [Hosts -> [Files -> SUBSET Actors]]
    <3>1. touch' = [touch EXCEPT ![h].base = IF fault THEN @ \cup {"fault"} ELSE @]
      BY <1>5 DEF Reload, ReadBase
    <3>2. "fault" \in Actors  BY DEF Actors
    <3> HIDE DEF Actors
    <3> QED  BY <3>1, <3>2 DEF StoresType, Files
  <2>5. doing' \in [Hosts -> Doing]
    <3> HIDE DEF Doing
    <3> QED  BY <1>5, SilentFiles DEF StoresType, Reload, ReadBase
  <2> QED  BY <1>5, <2>2, <2>3, <2>4, <2>5 DEF Reload, ReadBase, StoresType
<1>6. ASSUME NEW h \in Hosts, NEW fault \in BOOLEAN, NEW recs \in SUBSET Package,
             FreeOf(h), SaveBase(h, recs, fault),
             UNCHANGED doing \/ doing' = [doing EXCEPT ![h].op = IF fault THEN @ ELSE "reload"]
      PROVE  StoresType'
  <2> DEFINE file == [recs |-> recs, writer |-> h, at |-> base.at + 1]
  <2>1. file \in Content /\ file.recs = recs
    <3>1. base.at + 1 \in Nat  BY DEF StoresType, Content
    <3>2. recs \in (SUBSET Scanned) \cup (SUBSET Package) /\ h \in Writers  BY <1>6 DEF Writers
    <3> HIDE DEF Scanned, Package, Writers
    <3> QED  BY <3>1, <3>2 DEF Content
  <2>2. base' \in Content /\ base'.recs \in SUBSET Package /\ wrote' \in [Hosts -> [Files -> Content]]
    <3>1. CASE fault  BY <1>6, <3>1 DEF SaveBase, StoresType
    <3>2. CASE ~ fault
      <4>1. base' = file /\ wrote' = [wrote EXCEPT ![h].base = file]  BY <1>6, <3>2 DEF SaveBase
      <4> HIDE DEF file, Content
      <4> QED  BY <2>1, <4>1 DEF StoresType, Files
    <3> QED  BY <3>1, <3>2
  <2>3. touch' \in [Hosts -> [Files -> SUBSET Actors]]
    <3>1. CASE fault  BY <1>6, <3>1 DEF SaveBase, StoresType
    <3>2. CASE ~ fault
      <4>1. touch' = Touched("base", h, h)  BY <1>6, <3>2 DEF SaveBase
      <4> QED  BY <4>1, TouchedType DEF Files, Actors
    <3> QED  BY <3>1, <3>2
  <2>4. cached' \in [Hosts -> SUBSET Package]
    <3> HIDE DEF Package
    <3> QED  BY <1>6 DEF SaveBase, StoresType
  <2>5. doing' \in [Hosts -> Doing]
    <3>1. doing[h] \in Doing /\ doing[h].op = "none"  BY <1>6 DEF StoresType, FreeOf
    <3>2. doing[h] = [op |-> "none"]  BY <3>1 DEF Doing
    <3>3. [doing[h] EXCEPT !.op = "reload"] \in Doing /\ [doing[h] EXCEPT !.op = @] \in Doing
      BY <3>2 DEF Doing
    <3>4. [doing[h] EXCEPT !.op = IF fault THEN @ ELSE "reload"] \in Doing  BY <3>3
    <3> HIDE DEF Doing
    <3> QED  BY <1>6, <3>4 DEF StoresType
  <2> QED  BY <1>6, <2>2, <2>3, <2>4, <2>5 DEF SaveBase, StoresType
<1>7. ASSUME NEW h \in Hosts, NEW fault \in BOOLEAN, NEW name \in {"plug", "core"},
             SeePackage(h, name, fault)
      PROVE  StoresType'
  <2>1. FirstSeen(cached[h], name) \in SUBSET Package
    <3>1. [name |-> name, suspected |-> FALSE] \in Package  BY DEF Package
    <3> HIDE DEF Package
    <3> QED  BY <3>1 DEF FirstSeen, StoresType
  <2> QED  BY <1>6, <1>7, <2>1 DEF SeePackage
<1>8. ASSUME NEW h \in Hosts, NEW fault \in BOOLEAN, NEW mark \in BOOLEAN, Mark(h, mark, fault)
      PROVE  StoresType'
  <2>1. {r \in cached[h] : r.name # "core"} \cup {[name |-> "core", suspected |-> mark]} \in SUBSET Package
    BY DEF StoresType, Package
  <2> QED  BY <1>6, <1>8, <2>1 DEF Mark
<1>9. ASSUME NEW h \in Hosts, Restart(h)  PROVE StoresType'
  <2>1. [f \in Files |-> Missing] \in [Files -> Content] /\ [f \in Files |-> NoTamper] \in [Files -> Note]
    BY SilentFiles
  <2> HIDE DEF Content, Note, Doing, Package
  <2> QED  BY <1>9, <2>1, SilentFiles DEF Restart, history, StoresType
<1>10. ASSUME NEW file \in Files, NEW wipe \in BOOLEAN, Edit(file, wipe)  PROVE StoresType'
  <2>1. \A c \in Content : [c EXCEPT !.recs = {}] \in Content /\ [c EXCEPT !.recs = {}].recs = {}
    BY DEF Content
  <2>2. /\ caps' \in Content /\ caps'.recs \in SUBSET Scanned
        /\ base' \in Content /\ base'.recs \in SUBSET Package
    <3> HIDE DEF Content
    <3> QED  BY <1>10, <2>1, SilentFiles DEF Edit, StoresType
  <2>3. touch' \in [Hosts -> [Files -> SUBSET Actors]]
    <3>1. touch' = Touched(file, "outsider", NoOne)  BY <1>10 DEF Edit
    <3> QED  BY <3>1, TouchedType DEF Actors
  <2> QED  BY <1>10, <2>2, <2>3 DEF Edit, StoresType
<1>11. CASE ListsOnly
  <2>1. clock' \in Nat  BY <1>11 DEF ListsOnly, StoresType
  <2> QED  BY <1>11, <2>1 DEF ListsOnly, stores, history, StoresType
<1> QED  BY <1>1, <1>2, <1>3, <1>4, <1>5, <1>7, <1>8, <1>9, <1>10, <1>11 DEF StoreStep

-----------------------------------------------------------------------------
(* The records stay in order.                                              *)

\* More is written, more is gone, time passes.
Later(written, gone, now, written2, gone2, now2) ==
    /\ now \in Nat /\ now2 \in Nat /\ now <= now2 /\ written \subseteq written2 /\ gone \subseteq gone2
    /\ \A r \in written2 \ written : r.at \in Nat /\ now < r.at

\* What was compared with holds: what is written later is later.
LEMMA ComparedLater ==
    ASSUME NEW W, NEW G, NEW n, NEW W2, NEW G2, NEW n2, Later(W, G, n, W2, G2, n2),
           NEW p, NEW to, NEW at \in Nat, NEW alarm, at <= n, Compared(W, G, p, to, at, alarm)
    PROVE  Compared(W2, G2, p, to, at, alarm)
<1>1. ASSUME NEW r \in W2, r.version # to, p.at < r.at, r.at <= at  PROVE r \in G2
  <2>1. CASE r \in W  BY <1>1, <2>1 DEF Compared, Later
  <2>2. CASE r \notin W
    <3>1. r.at \in Nat /\ n < r.at /\ n \in Nat  BY <1>1, <2>2 DEF Later
    <3> QED  BY <1>1, <3>1
  <2> QED  BY <2>1, <2>2
<1> QED  BY <1>1 DEF Compared

\* So does a scan's.
LEMMA ScanLater ==
    ASSUME NEW W, NEW G, NEW n, NEW W2, NEW G2, NEW n2, Later(W, G, n, W2, G2, n2),
           NEW d, ScanInv(W, G, n, d)
    PROVE  ScanInv(W2, G2, n2, d)
<1>1. d.at \in Nat /\ d.at <= n  BY DEF ScanInv
<1>2. d.at <= n2  BY <1>1 DEF Later
<1>3. d.recs \subseteq W2 /\ IsFiniteSet(d.recs)  BY DEF ScanInv, Later
<1>4. d.misread \/ (d.recs = d.seen.recs /\ Compared(W2, G2, d.prev, d.to, d.at, d.alarm))
  BY <1>1, ComparedLater DEF ScanInv
<1> QED  BY <1>1, <1>2, <1>3, <1>4 DEF ScanInv

\* A step that begins no scan, ends none and saves no record.
LEMMA QuietStep ==
    ASSUME StoresType, RecordsInv,
           UNCHANGED saved, lost \subseteq lost',
           clock' \in Nat, clock <= clock',
           caps' = caps \/ (caps'.recs = {} /\ lost' = lost \cup saved),
           \A h \in Hosts : doing'[h] = doing[h] \/ doing'[h].op # "scan",
           told' = told \/ told'.host = NoOne
    PROVE  RecordsInv'
<1>1. Later(saved, lost, clock, saved', lost', clock')  BY DEF Later, StoresType
<1>2. SavedInv'
  <2>1. \A r \in saved : r \in Scanned /\ r.at > 0 /\ r.at <= clock' /\ r.can = Can[r.version]
    BY DEF RecordsInv, SavedInv, Scanned, StoresType
  <2>2. \A r, s \in saved : r.at = s.at => r = s  BY DEF RecordsInv, SavedInv
  <2>3. /\ caps'.recs \subseteq saved /\ saved \ lost' \subseteq caps'.recs /\ IsFiniteSet(caps'.recs)
        /\ caps'.at = 0 => caps'.recs = {}
    <3>1. CASE caps' = caps  BY <3>1 DEF RecordsInv, SavedInv
    <3>2. CASE caps'.recs = {} /\ lost' = lost \cup saved  BY <3>2, FS_EmptySet
    <3> QED  BY <3>1, <3>2
  <2> QED  BY <2>1, <2>2, <2>3 DEF SavedInv
<1>3. DoingInv'
  <2> SUFFICES ASSUME NEW h \in Hosts, doing'[h].op = "scan"
               PROVE  ScanInv(saved', lost', clock', doing'[h])
    BY DEF DoingInv
  <2>1. doing'[h] = doing[h] /\ ScanInv(saved, lost, clock, doing[h])  BY DEF RecordsInv, DoingInv
  <2> QED  BY <1>1, <2>1, ScanLater
<1>4. ToldInv'
  <2> SUFFICES ASSUME told'.host # NoOne
               PROVE  /\ told'.at \in Nat /\ told'.at <= clock'
                      /\ told'.misread \/ Compared(saved', lost', told'.prev, told'.to, told'.at, told'.alarm)
    BY DEF ToldInv
  <2>1. told' = told  OBVIOUS
  <2>2. told.at \in Nat /\ told.at <= clock  BY <2>1 DEF RecordsInv, ToldInv
  <2>3. told.at <= clock'  BY <2>2 DEF StoresType
  <2>4. told.misread \/ Compared(saved', lost', told.prev, told.to, told.at, told.alarm)
    <3>1. told.misread \/ Compared(saved, lost, told.prev, told.to, told.at, told.alarm)
      BY <2>1 DEF RecordsInv, ToldInv
    <3> QED  BY <1>1, <2>2, <3>1, ComparedLater
  <2> QED  BY <2>1, <2>2, <2>3, <2>4
<1> QED  BY <1>2, <1>3, <1>4 DEF RecordsInv

\* The end of a scan.
LEMMA SavedStep ==
    ASSUME StoresType, RecordsInv, NEW h \in Hosts, NEW fault \in BOOLEAN, SaveCaps(h, fault)
    PROVE  RecordsInv'
<1> DEFINE d == doing[h]
           new == [version |-> d.to, at |-> clock + 1, can |-> Can[d.to]]
           recs == Pruned(WithRecord(d.recs, new), MaxKept)
<1>1. d \in Doing /\ d.op = "scan" /\ ScanInv(saved, lost, clock, d)
  BY DEF SaveCaps, StoresType, RecordsInv, DoingInv
<1>2. d.to \in Versions /\ d.recs \subseteq saved /\ IsFiniteSet(d.recs) /\ d.at \in Nat /\ d.at <= clock
  BY <1>1 DEF Doing, ScanInv
<1>3. clock \in Nat /\ clock' = clock + 1 /\ clock' \in Nat /\ clock < clock'  BY DEF StoresType, SaveCaps
<1>4. new \in Scanned /\ new.at = clock + 1 /\ new.can = Can[new.version]
  <2>1. Can[d.to] \in Manifests  BY <1>2, StoresAssumption
  <2> HIDE DEF d
  <2> QED  BY <1>2, <1>3, <2>1 DEF Scanned
<1>5. recs \subseteq d.recs \cup {new} /\ IsFiniteSet(recs)
  <2> HIDE DEF new, d
  <2>1. recs \subseteq WithRecord(d.recs, new)  BY RecordsPruned
  <2>2. WithRecord(d.recs, new) \subseteq d.recs \cup {new}  BY DEF WithRecord, Others
  <2>3. IsFiniteSet(d.recs \cup {new})  BY <1>2, FS_AddElement
  <2>4. recs \subseteq d.recs \cup {new}  BY <2>1, <2>2
  <2> HIDE DEF recs
  <2> QED  BY <2>3, <2>4, FS_Subset
<1>5a. new \in recs
  <2>1. \A r \in d.recs : r.at \in Nat /\ r.at <= clock  BY <1>2 DEF RecordsInv, SavedInv, Scanned
  <2> HIDE DEF new, d
  <2> QED  BY <1>3, <1>4, <2>1, NewestStays
<1>6. \/ caps' = caps /\ saved' = saved /\ lost' = lost
      \/ /\ caps'.recs = recs /\ caps'.at = clock + 1
         /\ saved' = saved \cup {new} /\ lost' = lost \cup (saved \ recs)
  <2>1. CASE fault  BY <2>1 DEF SaveCaps
  <2>2. CASE ~ fault  BY <2>2 DEF SaveCaps
  <2> QED  BY <2>1, <2>2
<1>7. Later(saved, lost, clock, saved', lost', clock')
  <2> HIDE DEF new, recs
  <2> QED  BY <1>3, <1>4, <1>6 DEF Later
<1>8. SavedInv'
  <2> HIDE DEF new, recs, d
  <2>1. \A r \in saved : r \in Scanned /\ r.at > 0 /\ r.at <= clock /\ r.can = Can[r.version]
    BY DEF RecordsInv, SavedInv
  <2>2. \A r \in saved' : r \in Scanned /\ r.at > 0 /\ r.at <= clock' /\ r.can = Can[r.version]
    <3> SUFFICES ASSUME NEW r \in saved'
                 PROVE  r \in Scanned /\ r.at > 0 /\ r.at <= clock' /\ r.can = Can[r.version]
      OBVIOUS
    <3>1. CASE r \in saved
      <4>1. r.at \in Nat  BY <2>1, <3>1 DEF Scanned
      <4> QED  BY <2>1, <3>1, <4>1, <1>3
    <3>2. CASE r = new  BY <3>2, <1>3, <1>4
    <3> QED  BY <3>1, <3>2, <1>6
  <2>3. ASSUME NEW r \in saved', NEW s \in saved', r.at = s.at  PROVE r = s
    <3>1. CASE r \in saved /\ s \in saved  BY <2>3, <3>1 DEF RecordsInv, SavedInv
    <3>2. CASE r \in saved /\ s = new
      <4>1. r.at \in Nat /\ r.at <= clock  BY <2>1, <3>2 DEF Scanned
      <4> QED  BY <2>3, <3>2, <4>1, <1>3, <1>4
    <3>3. CASE r = new /\ s \in saved
      <4>1. s.at \in Nat /\ s.at <= clock  BY <2>1, <3>3 DEF Scanned
      <4> QED  BY <2>3, <3>3, <4>1, <1>3, <1>4
    <3>4. r \in saved \cup {new} /\ s \in saved \cup {new}  BY <2>3, <1>6
    <3> QED  BY <3>1, <3>2, <3>3, <3>4
  <2>4. caps'.recs \subseteq saved' /\ saved' \ lost' \subseteq caps'.recs /\ IsFiniteSet(caps'.recs)
    <3>1. CASE caps' = caps /\ saved' = saved /\ lost' = lost  BY <3>1 DEF RecordsInv, SavedInv
    <3>2. CASE caps'.recs = recs /\ saved' = saved \cup {new} /\ lost' = lost \cup (saved \ recs)
      <4> QED  BY <3>2, <1>2, <1>5, <1>5a
    <3> QED  BY <3>1, <3>2, <1>6
  <2>5. caps'.at = 0 => caps'.recs = {}
    <3>1. CASE caps' = caps  BY <3>1 DEF RecordsInv, SavedInv
    <3>2. CASE caps'.at = clock + 1  BY <3>2, <1>3
    <3> QED  BY <3>1, <3>2, <1>6
  <2> QED  BY <2>2, <2>3, <2>4, <2>5 DEF SavedInv
<1>9. DoingInv'
  <2> SUFFICES ASSUME NEW g \in Hosts, doing'[g].op = "scan"
               PROVE  ScanInv(saved', lost', clock', doing'[g])
    BY DEF DoingInv
  <2>1. doing' = [doing EXCEPT ![h] = Idle]  BY DEF SaveCaps
  <2>2. g # h /\ doing'[g] = doing[g]  BY <2>1, SilentFiles DEF StoresType
  <2>3. ScanInv(saved, lost, clock, doing[g])  BY <2>2 DEF RecordsInv, DoingInv
  <2> QED  BY <1>7, <2>2, <2>3, ScanLater
<1>10. ToldInv'
  <2>1. /\ told'.at = d.at /\ told'.misread = d.misread /\ told'.prev = d.prev /\ told'.to = d.to
        /\ told'.alarm = d.alarm
    BY DEF SaveCaps
  <2>2. d.misread \/ Compared(saved, lost, d.prev, d.to, d.at, d.alarm)  BY <1>1 DEF ScanInv
  <2> HIDE DEF d
  <2>3. d.misread \/ Compared(saved', lost', d.prev, d.to, d.at, d.alarm)
    BY <1>2, <1>7, <2>2, ComparedLater
  <2>4. d.at <= clock'  BY <1>2, <1>3
  <2> QED  BY <1>2, <2>1, <2>3, <2>4 DEF ToldInv
<1> QED  BY <1>8, <1>9, <1>10 DEF RecordsInv

\* The beginning of a scan.
LEMMA BegunStep ==
    ASSUME StoresType, RecordsInv, NEW h \in Hosts, NEW fault \in BOOLEAN, LoadCaps(h, fault)
    PROVE  RecordsInv'
<1>1. UNCHANGED <<clock, caps, saved, lost, told>>  BY DEF LoadCaps, history
<1>2. SavedInv' /\ ToldInv'
  <2>1. SavedInv /\ ToldInv  BY DEF RecordsInv
  <2> QED  BY <1>1, <2>1 DEF SavedInv, ToldInv
<1>3. DoingInv'
  <2> SUFFICES ASSUME NEW g \in Hosts, doing'[g].op = "scan"
               PROVE  ScanInv(saved', lost', clock', doing'[g])
    BY DEF DoingInv
  <2>1. CASE g = h  BY <1>1, <2>1, ScanStarts
  <2>2. CASE g # h
    <3>1. doing'[g] = doing[g]  BY <2>2 DEF LoadCaps, StoresType
    <3>2. ScanInv(saved, lost, clock, doing[g])  BY <3>1 DEF RecordsInv, DoingInv
    <3> QED  BY <1>1, <3>1, <3>2
  <2> QED  BY <2>1, <2>2
<1> QED  BY <1>2, <1>3 DEF RecordsInv

\* A mark begins no scan.
LEMMA MarkScansNothing ==
    ASSUME StoresType, NEW h \in Hosts, NEW mark, NEW fault, Mark(h, mark, fault)
    PROVE  \A g \in Hosts : doing'[g] = doing[g] \/ doing'[g].op # "scan"
<1>1. doing[h].op = "none" /\ doing[h] \in Doing  BY DEF Mark, FreeOf, StoresType
<1>2. doing[h] = [op |-> "none"]  BY <1>1 DEF Doing
<1>3. doing' = [doing EXCEPT ![h].op = IF fault THEN @ ELSE "reload"]  BY DEF Mark
<1> QED  BY <1>2, <1>3 DEF StoresType

\* What is recorded stays in order.
LEMMA RecordsKept ==
    ASSUME StoresType, RecordsInv, StoreStep
    PROVE  RecordsInv'
<1>1. clock \in Nat  BY DEF StoresType
<1>2. ASSUME NEW v \in Versions, Upgrade(v)  PROVE RecordsInv'
  BY <1>1, <1>2, QuietStep DEF Upgrade, stores, history
<1>3. ASSUME NEW h \in Hosts, NEW fault \in BOOLEAN, Show(h, fault)  PROVE RecordsInv'
  BY <1>1, <1>3, QuietStep DEF Show, history
<1>4. ASSUME NEW h \in Hosts, NEW fault \in BOOLEAN, Reload(h, fault)  PROVE RecordsInv'
  <2>1. \A g \in Hosts : doing'[g] = doing[g] \/ doing'[g].op # "scan"
    BY <1>4, SilentFiles DEF Reload, StoresType
  <2> QED  BY <1>1, <1>4, <2>1, QuietStep DEF Reload
<1>5. ASSUME NEW h \in Hosts, NEW fault \in BOOLEAN, ReadBase(h, fault)  PROVE RecordsInv'
  BY <1>1, <1>5, QuietStep DEF ReadBase
<1>6. ASSUME NEW h \in Hosts, NEW fault \in BOOLEAN, NEW name \in {"plug", "core"},
             SeePackage(h, name, fault)
      PROVE  RecordsInv'
  BY <1>1, <1>6, QuietStep DEF SeePackage, SaveBase
<1>7. ASSUME NEW h \in Hosts, NEW fault \in BOOLEAN, NEW mark \in BOOLEAN, Mark(h, mark, fault)
      PROVE  RecordsInv'
  <2>1. \A g \in Hosts : doing'[g] = doing[g] \/ doing'[g].op # "scan"  BY <1>7, MarkScansNothing
  <2> QED  BY <1>1, <1>7, <2>1, QuietStep DEF Mark, SaveBase
<1>8. ASSUME NEW h \in Hosts, Restart(h)  PROVE RecordsInv'
  <2>1. \A g \in Hosts : doing'[g] = doing[g] \/ doing'[g].op # "scan"
    BY <1>8, SilentFiles DEF Restart, StoresType
  <2> QED  BY <1>1, <1>8, <2>1, QuietStep DEF Restart, history
<1>9. ASSUME NEW file \in Files, NEW wipe \in BOOLEAN, Edit(file, wipe)  PROVE RecordsInv'
  <2>1. caps' = caps \/ (caps'.recs = {} /\ lost' = lost \cup saved)
    <3>1. caps \in Content  BY DEF StoresType
    <3>2. [caps EXCEPT !.recs = {}].recs = {}  BY <3>1 DEF Content
    <3> QED  BY <1>9, <3>2, SilentFiles DEF Edit
  <2>2. lost \subseteq lost'  BY <1>9 DEF Edit
  <2> QED  BY <1>1, <1>9, <2>1, <2>2, QuietStep DEF Edit
<1>10. CASE ListsOnly
  <2>1. clock' \in Nat /\ clock <= clock'  BY <1>1, <1>10 DEF ListsOnly
  <2> QED  BY <1>10, <2>1, QuietStep DEF ListsOnly, stores, history
<1> QED  BY <1>2, <1>3, <1>4, <1>5, <1>6, <1>7, <1>8, <1>9, <1>10, BegunStep, SavedStep DEF StoreStep

\* The stores begin in order.
LEMMA RecordsInit ==
    ASSUME Init
    PROVE  StoresType /\ RecordsInv
<1>1. 1 \in Versions  BY StoresAssumption
<1>2. StoresType
  BY <1>1, SilentFiles DEF Init, StoresType
<1>3. SavedInv  BY SilentFiles, FS_EmptySet DEF Init, SavedInv
<1>4. DoingInv  BY SilentFiles DEF Init, DoingInv
<1>5. ToldInv  BY DEF Init, ToldInv, Silent
<1> QED  BY <1>2, <1>3, <1>4, <1>5 DEF RecordsInv

-----------------------------------------------------------------------------
(* Who touched a file.                                                     *)

Suspects == {"outsider", "fault"}

\* A note names someone who did it.
Honest(h, note) ==
    /\ note.writer \in Hosts \ {h} => note.writer \in note.who
    /\ note.writer \notin Hosts \ {h} => note.who \cap Suspects # {}

\* Since host h wrote w: the content is c, and those of t changed it.
Trace(h, w, c, t) ==
    w.writer # NoOne =>
        /\ w.writer = h
        /\ c.writer \in Hosts \ {h} => c.writer \in t
        /\ c # w /\ c.writer \notin Hosts \ {h} => t \cap Suspects # {}

Stored(f) == IF f = "caps" THEN caps ELSE base

FileTrace(h, f) ==
    /\ Trace(h, wrote[h][f], Stored(f), touch[h][f])
    /\ tamper[h][f].seen => Honest(h, tamper[h][f])

\* A capabilities file that others touched does not look like the one h wrote, so a
\* scan of h that began after it has something to say.
CapsTrace(h) ==
    /\ wrote[h].caps.writer # NoOne =>
         /\ wrote[h].caps.writer = h /\ wrote[h].caps.recs # {}
         /\ touch[h].caps # {} => caps.writer # h \/ caps.recs = {}
    /\ doing[h].op = "scan" /\ doing[h].who # {} => tamper[h].caps.seen

TamperInv ==
    \A h \in Hosts : FileTrace(h, "caps") /\ FileTrace(h, "base") /\ CapsTrace(h)

\* More hands.
LEMMA TraceGrows ==
    ASSUME NEW h, NEW w, NEW c, NEW t, NEW t2, t \subseteq t2, Trace(h, w, c, t)
    PROVE  Trace(h, w, c, t2)
BY DEF Trace

\* Another host writes the file.
LEMMA TraceForeign ==
    ASSUME NEW h, NEW g \in Hosts \ {h}, NEW w, NEW c, NEW c2, NEW t, NEW t2,
           Trace(h, w, c, t), c2.writer = g, g \in t2
    PROVE  Trace(h, w, c2, t2)
BY DEF Trace

\* The host writes it itself.
LEMMA TraceOwn ==
    ASSUME NEW h, NEW w, NEW t, w.writer = h
    PROVE  Trace(h, w, w, t)
BY DEF Trace

\* Someone edits it.
LEMMA TraceEdited ==
    ASSUME NEW h, NEW w, NEW c, NEW c2, NEW t, NEW t2,
           Trace(h, w, c, t), t \subseteq t2, "outsider" \in t2,
           c2.writer = c.writer \/ c2.writer = NoOne
    PROVE  Trace(h, w, c2, t2)
<1>1. t2 \cap Suspects # {}  BY DEF Suspects
<1>2. NoOne \notin Hosts  BY StoresAssumption
<1> QED  BY <1>1, <1>2 DEF Trace

\* A note taken of the file is honest.
LEMMA NotedHonest ==
    ASSUME NEW h \in Hosts, NEW f \in Files, FileTrace(h, f), NEW fault \in BOOLEAN,
           Noted(h, f, Stored(f), Readable(Stored(f), fault)).seen
    PROVE  Honest(h, Noted(h, f, Stored(f), Readable(Stored(f), fault)))
<1> DEFINE w == wrote[h][f]
           t == touch[h][f]
           c == Stored(f)
           b == Readable(Stored(f), fault)
           unread == [seen |-> TRUE, writer |-> NoOne, who |-> t \cup {"fault"}]
           other == [seen |-> TRUE, writer |-> c.writer, who |-> t]
<1>1. CASE w.writer = NoOne  BY <1>1 DEF Noted, FileTrace
<1>2. CASE w.writer # NoOne /\ ~ b
  <2>1. Noted(h, f, c, b) = unread  BY <1>2 DEF Noted
  <2>2. NoOne \notin Hosts  BY StoresAssumption
  <2>3. Honest(h, unread)  BY <2>2 DEF Honest, Suspects
  <2> QED  BY <2>1, <2>3
<1>3. CASE w.writer # NoOne /\ b /\ c # w
  <2>1. Noted(h, f, c, b) = other  BY <1>3 DEF Noted
  <2>2. Trace(h, w, c, t)  BY DEF FileTrace
  <2>3. other.writer = c.writer /\ other.who = t  OBVIOUS
  <2> HIDE DEF w, t, c, other
  <2>4. Honest(h, other)  BY <1>3, <2>2, <2>3 DEF Trace, Honest
  <2> QED  BY <2>1, <2>4 DEF c
<1>4. CASE w.writer # NoOne /\ b /\ c = w
  <2>1. Noted(h, f, c, b) = tamper[h][f]  BY <1>4 DEF Noted
  <2> QED  BY <2>1 DEF FileTrace
<1> QED  BY <1>1, <1>2, <1>3, <1>4

\* What the step of a host or of an outsider makes of who touched a file.
LEMMA TouchedIs ==
    ASSUME StoresType, NEW who, NEW own, NEW g \in Hosts
    PROVE  /\ g = own => Touched("caps", who, own)[g].caps = {}
           /\ g # own => Touched("caps", who, own)[g].caps = touch[g].caps \cup {who}
           /\ Touched("caps", who, own)[g].base = touch[g].base
           /\ g = own => Touched("base", who, own)[g].base = {}
           /\ g # own => Touched("base", who, own)[g].base = touch[g].base \cup {who}
           /\ Touched("base", who, own)[g].caps = touch[g].caps
<1>1. touch[g] \in [Files -> SUBSET Actors] /\ "caps" \in Files /\ "base" \in Files  BY DEF StoresType, Files
<1>2. ASSUME NEW f
      PROVE  Touched(f, who, own)[g] = [touch[g] EXCEPT ![f] = IF g = own THEN {} ELSE @ \cup {who}]
  BY DEF Touched
<1> HIDE DEF Actors
<1>3. /\ g = own => Touched("caps", who, own)[g].caps = {}
      /\ g # own => Touched("caps", who, own)[g].caps = touch[g].caps \cup {who}
      /\ Touched("caps", who, own)[g].base = touch[g].base
  <2>1. Touched("caps", who, own)[g] = [touch[g] EXCEPT !["caps"] = IF g = own THEN {} ELSE @ \cup {who}]
    BY <1>2
  <2> QED  BY <1>1, <2>1
<1>4. /\ g = own => Touched("base", who, own)[g].base = {}
      /\ g # own => Touched("base", who, own)[g].base = touch[g].base \cup {who}
      /\ Touched("base", who, own)[g].caps = touch[g].caps
  <2>1. Touched("base", who, own)[g] = [touch[g] EXCEPT !["base"] = IF g = own THEN {} ELSE @ \cup {who}]
    BY <1>2
  <2> QED  BY <1>1, <2>1
<1> QED  BY <1>3, <1>4

\* What is known of a file stays known, when only the hands on it and the note change.
LEMMA FileKept ==
    ASSUME NEW g \in Hosts, NEW f \in Files, FileTrace(g, f),
           wrote'[g][f] = wrote[g][f], Stored(f)' = Stored(f), touch[g][f] \subseteq touch'[g][f],
           tamper'[g][f].seen => Honest(g, tamper'[g][f])
    PROVE  FileTrace(g, f)'
<1>1. Trace(g, wrote[g][f], Stored(f), touch[g][f])  BY DEF FileTrace
<1>2. Trace(g, wrote[g][f], Stored(f), touch'[g][f])  BY <1>1, TraceGrows
<1> QED  BY <1>2 DEF FileTrace

\* A host begins a scan, shows the history or reads the baseline again.
LEMMA TamperNoted ==
    ASSUME StoresType, TamperInv, NEW h \in Hosts, NEW fault \in BOOLEAN,
           LoadCaps(h, fault) \/ Show(h, fault) \/ Reload(h, fault) \/ ReadBase(h, fault)
    PROVE  TamperInv'
<1> SUFFICES ASSUME NEW g \in Hosts
             PROVE  FileTrace(g, "caps")' /\ FileTrace(g, "base")' /\ CapsTrace(g)'
  BY DEF TamperInv
<1>1. UNCHANGED <<wrote, caps, base>>
  BY DEF LoadCaps, Show, Reload, ReadBase
<1>2. FileTrace(g, "caps") /\ FileTrace(g, "base") /\ CapsTrace(g) /\ "caps" \in Files /\ "base" \in Files
  BY DEF TamperInv, Files
<1>3. FileTrace(h, "caps") /\ FileTrace(h, "base") /\ CapsTrace(h)  BY DEF TamperInv
<1>4. touch'[g].caps = touch[g].caps /\ touch[g].base \subseteq touch'[g].base
  <2>1. \/ touch' = touch
        \/ touch' = [touch EXCEPT ![h].base = IF fault THEN @ \cup {"fault"} ELSE @]
    BY DEF LoadCaps, Show, Reload, ReadBase, history
  <2> HIDE DEF Actors
  <2> QED  BY <2>1 DEF StoresType, Files
<1>5. tamper'[g].caps = tamper[g].caps \/ (g = h /\ tamper'[g].caps = Noted(h, "caps", caps, Readable(caps, fault)))
  <2>1. tamper' = tamper \/ tamper' = [tamper EXCEPT ![h].caps = Noted(h, "caps", caps, Readable(caps, fault))]
        \/ tamper' = [tamper EXCEPT ![h].base = Noted(h, "base", base, Readable(base, fault))]
    BY DEF LoadCaps, Show, Reload, ReadBase
  <2> HIDE DEF Note
  <2> QED  BY <2>1 DEF StoresType, Files
<1>6. tamper'[g].base = tamper[g].base \/ (g = h /\ tamper'[g].base = Noted(h, "base", base, Readable(base, fault)))
  <2>1. tamper' = tamper \/ tamper' = [tamper EXCEPT ![h].caps = Noted(h, "caps", caps, Readable(caps, fault))]
        \/ tamper' = [tamper EXCEPT ![h].base = Noted(h, "base", base, Readable(base, fault))]
    BY DEF LoadCaps, Show, Reload, ReadBase
  <2> HIDE DEF Note
  <2> QED  BY <2>1 DEF StoresType, Files
<1>7. FileTrace(g, "caps")'
  <2>1. tamper'[g].caps.seen => Honest(g, tamper'[g].caps)
    <3>1. CASE tamper'[g].caps = tamper[g].caps  BY <3>1, <1>2 DEF FileTrace
    <3>2. CASE g = h /\ tamper'[g].caps = Noted(h, "caps", caps, Readable(caps, fault))
      <4>1. Stored("caps") = caps  BY DEF Stored
      <4> QED  BY <3>2, <4>1, <1>2, NotedHonest
    <3> QED  BY <3>1, <3>2, <1>5
  <2>2. Stored("caps")' = Stored("caps")  BY <1>1 DEF Stored
  <2> QED  BY <1>1, <1>2, <1>4, <2>1, <2>2, FileKept
<1>8. FileTrace(g, "base")'
  <2>1. tamper'[g].base.seen => Honest(g, tamper'[g].base)
    <3>1. CASE tamper'[g].base = tamper[g].base  BY <3>1, <1>2 DEF FileTrace
    <3>2. CASE g = h /\ tamper'[g].base = Noted(h, "base", base, Readable(base, fault))
      <4>1. Stored("base") = base  BY DEF Stored
      <4> QED  BY <3>2, <4>1, <1>2, NotedHonest
    <3> QED  BY <3>1, <3>2, <1>6
  <2>2. Stored("base")' = Stored("base")  BY <1>1 DEF Stored
  <2> QED  BY <1>1, <1>2, <1>4, <2>1, <2>2, FileKept
<1>9. ASSUME doing'[g].op = "scan", doing'[g].who # {}  PROVE tamper'[g].caps.seen
  <2>1. CASE LoadCaps(h, fault) /\ g = h
    <3>1. doing'[h].who = IF wrote[h].caps.writer = NoOne THEN {} ELSE touch[h].caps
      BY <2>1 DEF LoadCaps, StoresType
    <3>2. wrote[h].caps.writer # NoOne /\ touch[h].caps # {}  BY <2>1, <3>1, <1>9
    <3>3. caps # wrote[h].caps  BY <3>2, <1>3 DEF CapsTrace
    <3>4. tamper'[h].caps = Noted(h, "caps", caps, Readable(caps, fault))
      BY <2>1 DEF LoadCaps, StoresType, Files
    <3> QED  BY <2>1, <3>2, <3>3, <3>4 DEF Noted
  <2>2. CASE ~ (LoadCaps(h, fault) /\ g = h)
    <3>1. doing'[g] = doing[g] \/ (g = h /\ doing'[g] = Idle)
      BY <2>2 DEF LoadCaps, Show, Reload, ReadBase, StoresType
    <3>2. doing'[g] = doing[g]  BY <3>1, <1>9, SilentFiles
    <3>3. tamper[g].caps.seen  BY <3>2, <1>2, <1>9 DEF CapsTrace
    <3>4. CASE g # h  BY <3>3, <3>4, <1>5
    <3>5. CASE g = h
      <4>1. ~ FreeOf(h)  BY <3>2, <3>5, <1>9 DEF FreeOf
      <4>2. Reload(h, fault)  BY <2>2, <3>5, <4>1 DEF LoadCaps, Show, ReadBase
      <4> QED  BY <3>2, <3>5, <4>2, <1>9 DEF Reload
    <3> QED  BY <3>4, <3>5
  <2> QED  BY <2>1, <2>2
<1>10. CapsTrace(g)'
  BY <1>1, <1>2, <1>4, <1>9 DEF CapsTrace
<1> QED  BY <1>7, <1>8, <1>10

\* A host saves the baseline.
LEMMA TamperSaved ==
    ASSUME StoresType, TamperInv, NEW h \in Hosts, NEW fault \in BOOLEAN, NEW recs,
           SaveBase(h, recs, fault), \A k \in Hosts : doing'[k] = doing[k] \/ doing'[k].op # "scan"
    PROVE  TamperInv'
<1> SUFFICES ASSUME NEW g \in Hosts
             PROVE  FileTrace(g, "caps")' /\ FileTrace(g, "base")' /\ CapsTrace(g)'
  BY DEF TamperInv
<1> DEFINE file == [recs |-> recs, writer |-> h, at |-> base.at + 1]
<1>1. UNCHANGED <<caps, tamper>> /\ "caps" \in Files /\ "base" \in Files  BY DEF SaveBase, Files
<1>2. FileTrace(g, "caps") /\ FileTrace(g, "base") /\ CapsTrace(g)  BY DEF TamperInv
<1>3. wrote'[g].caps = wrote[g].caps /\ touch'[g].caps = touch[g].caps
  <2>1. CASE fault  BY <2>1 DEF SaveBase
  <2>2. CASE ~ fault
    <3>1. wrote' = [wrote EXCEPT ![h].base = file] /\ touch' = Touched("base", h, h)
      BY <2>2 DEF SaveBase
    <3>2. touch'[g].caps = touch[g].caps
      <4>1. Touched("base", h, h)[g].caps = touch[g].caps  BY <1>1, TouchedIs
      <4> QED  BY <3>1, <4>1
    <3> HIDE DEF Content, file
    <3> QED  BY <3>1, <3>2 DEF StoresType, Files
  <2> QED  BY <2>1, <2>2
<1>4. FileTrace(g, "caps")'
  BY <1>1, <1>2, <1>3, FileKept DEF Stored, FileTrace
<1>5. FileTrace(g, "base")'
  <2>1. CASE fault
    <3>1. UNCHANGED <<base, wrote, touch>>  BY <2>1 DEF SaveBase
    <3> QED  BY <1>1, <1>2, <3>1 DEF FileTrace, Stored
  <2>2. CASE ~ fault
    <3>1. wrote' = [wrote EXCEPT ![h].base = file] /\ touch' = Touched("base", h, h) /\ base' = file
      BY <2>2 DEF SaveBase
    <3>2. file.writer = h  OBVIOUS
    <3> HIDE DEF Content, file
    <3>3. wrote'[g].base = IF g = h THEN file ELSE wrote[g].base  BY <3>1 DEF StoresType, Files
    <3>4. touch'[g].base = IF g = h THEN {} ELSE touch[g].base \cup {h}
      <4>1. /\ g = h => Touched("base", h, h)[g].base = {}
            /\ g # h => Touched("base", h, h)[g].base = touch[g].base \cup {h}
        BY TouchedIs
      <4> QED  BY <3>1, <4>1
    <3>5. Trace(g, wrote'[g].base, file, touch'[g].base)
      <4>1. CASE g = h  BY <4>1, <3>2, <3>3, TraceOwn
      <4>2. CASE g # h
        <5>1. Trace(g, wrote[g].base, base, touch[g].base)  BY <1>2 DEF FileTrace, Stored
        <5>2. h \in Hosts \ {g} /\ h \in touch'[g].base  BY <4>2, <3>4
        <5> QED  BY <4>2, <5>1, <5>2, <3>2, <3>3, TraceForeign
      <4> QED  BY <4>1, <4>2
    <3>6. Stored("base")' = file  BY <3>1 DEF Stored
    <3> QED  BY <1>1, <1>2, <3>5, <3>6 DEF FileTrace
  <2> QED  BY <2>1, <2>2
<1>6. CapsTrace(g)'
  <2>1. doing'[g].op = "scan" => doing'[g] = doing[g]
    OBVIOUS
  <2> QED  BY <1>1, <1>2, <1>3, <2>1 DEF CapsTrace
<1> QED  BY <1>4, <1>5, <1>6

\* What a scan says.
LEMMA ToldOfStore ==
    ASSUME NEW h \in Hosts, TamperInv, doing[h].op = "scan"
    PROVE  /\ TellStore(h).store = "unexplained" => TellStore(h).who \cap Suspects # {}
           /\ TellStore(h).store = "foreign-vet" => TellStore(h).who \cap (Hosts \ {h}) # {}
           /\ TellStore(h).file # "caps" => doing[h].who = {}
           /\ TellStore(h).file \in {"none", "caps", "base"}
<1>1. FileTrace(h, "caps") /\ FileTrace(h, "base") /\ CapsTrace(h)  BY DEF TamperInv
<1>2. CASE tamper[h].caps.seen
  <2>1. TellStore(h) = [store |-> Rewrite(h, tamper[h].caps), file |-> "caps", who |-> tamper[h].caps.who]
    BY <1>2 DEF TellStore
  <2>2. Honest(h, tamper[h].caps)  BY <1>1, <1>2 DEF FileTrace
  <2> QED  BY <2>1, <2>2 DEF Rewrite, Honest
<1>3. CASE ~ tamper[h].caps.seen /\ tamper[h].base.seen
  <2>1. TellStore(h) = [store |-> Rewrite(h, tamper[h].base), file |-> "base", who |-> tamper[h].base.who]
    BY <1>3 DEF TellStore
  <2>2. Honest(h, tamper[h].base)  BY <1>1, <1>3 DEF FileTrace
  <2>3. doing[h].who = {}  BY <1>1, <1>3 DEF CapsTrace
  <2> QED  BY <2>1, <2>2, <2>3 DEF Rewrite, Honest
<1>4. CASE ~ tamper[h].caps.seen /\ ~ tamper[h].base.seen
  <2>1. TellStore(h) = [store |-> "nothing", file |-> "none", who |-> {}]  BY <1>4 DEF TellStore
  <2>2. doing[h].who = {}  BY <1>1, <1>4 DEF CapsTrace
  <2> QED  BY <2>1, <2>2
<1> QED  BY <1>2, <1>3, <1>4

\* What is known of a file stays known when a note is thrown away.
LEMMA NoteForgotten ==
    ASSUME NEW g \in Hosts, NEW f \in Files, FileTrace(g, f),
           tamper'[g][f] = tamper[g][f] \/ ~ tamper'[g][f].seen
    PROVE  tamper'[g][f].seen => Honest(g, tamper'[g][f])
BY DEF FileTrace

\* A host ends a scan.
LEMMA TamperScanned ==
    ASSUME StoresType, RecordsInv, TamperInv, NEW h \in Hosts, NEW fault \in BOOLEAN, SaveCaps(h, fault)
    PROVE  TamperInv'
<1> SUFFICES ASSUME NEW g \in Hosts
             PROVE  FileTrace(g, "caps")' /\ FileTrace(g, "base")' /\ CapsTrace(g)'
  BY DEF TamperInv
<1> DEFINE d == doing[h]
           new == [version |-> d.to, at |-> clock + 1, can |-> Can[d.to]]
           recs == Pruned(WithRecord(d.recs, new), MaxKept)
           next == [recs |-> recs, writer |-> h, at |-> clock + 1]
           file == TellStore(h).file
<1>1. UNCHANGED base /\ "caps" \in Files /\ "base" \in Files  BY DEF SaveCaps, Files
<1>2. FileTrace(g, "caps") /\ FileTrace(g, "base") /\ CapsTrace(g)  BY DEF TamperInv
<1>3. d.op = "scan"  BY DEF SaveCaps
<1>4. /\ tamper'[g].caps = tamper[g].caps \/ (g = h /\ ~ tamper'[g].caps.seen)
      /\ tamper'[g].base = tamper[g].base \/ ~ tamper'[g].base.seen
  <2>1. tamper' = IF file = "none" THEN tamper ELSE [tamper EXCEPT ![h][file] = NoTamper]
    BY DEF SaveCaps
  <2>2. file \in {"none", "caps", "base"}  BY <1>3, ToldOfStore
  <2>3. ~ NoTamper.seen  BY DEF NoTamper
  <2> HIDE DEF Note, file, NoTamper
  <2>4. CASE file = "none"  BY <2>1, <2>4
  <2>5. CASE file = "caps"
    <3>1. tamper' = [tamper EXCEPT ![h]["caps"] = NoTamper]  BY <2>1, <2>5
    <3> QED  BY <1>1, <2>3, <3>1 DEF StoresType
  <2>6. CASE file = "base"
    <3>1. tamper' = [tamper EXCEPT ![h]["base"] = NoTamper]  BY <2>1, <2>6
    <3> QED  BY <1>1, <2>3, <3>1 DEF StoresType
  <2> QED  BY <2>2, <2>4, <2>5, <2>6
<1>5. /\ tamper'[g].caps.seen => Honest(g, tamper'[g].caps)
      /\ tamper'[g].base.seen => Honest(g, tamper'[g].base)
  BY <1>1, <1>2, <1>4, NoteForgotten
<1>6. doing'[g].op = "scan" => g # h /\ doing'[g] = doing[g]
  <2>1. doing' = [doing EXCEPT ![h] = Idle]  BY DEF SaveCaps
  <2> QED  BY <2>1, SilentFiles DEF StoresType
<1>7. doing'[g].op = "scan" /\ doing'[g].who # {} => tamper'[g].caps.seen
  BY <1>2, <1>4, <1>6 DEF CapsTrace
<1>8. CASE fault
  <2>1. UNCHANGED <<caps, wrote, touch>>  BY <1>8 DEF SaveCaps
  <2> QED  BY <1>1, <1>2, <1>5, <1>7, <2>1 DEF FileTrace, CapsTrace, Stored
<1>9. CASE ~ fault
  <2>1. caps' = next /\ wrote' = [wrote EXCEPT ![h].caps = next] /\ touch' = Touched("caps", h, h)
    BY <1>9 DEF SaveCaps
  <2>2. next.writer = h /\ next.recs = recs  OBVIOUS
  <2>3. recs # {}
    <3>1. d.recs \subseteq saved  BY <1>3 DEF RecordsInv, DoingInv, ScanInv
    <3>2. \A r \in d.recs : r.at \in Nat /\ r.at <= clock  BY <3>1 DEF RecordsInv, SavedInv, Scanned
    <3>3. clock \in Nat /\ new.at = clock + 1  BY DEF StoresType
    <3> HIDE DEF d, new
    <3>4. new \in Pruned(WithRecord(d.recs, new), MaxKept)  BY <3>2, <3>3, NewestStays
    <3> QED  BY <3>4 DEF recs
  <2> HIDE DEF next, recs, Content
  <2>4. wrote'[g].base = wrote[g].base /\ (g = h => wrote'[g].caps = next) /\ (g # h => wrote'[g].caps = wrote[g].caps)
    BY <1>1, <2>1 DEF StoresType
  <2>5. /\ g = h => touch'[g].caps = {}
        /\ g # h => touch'[g].caps = touch[g].caps \cup {h}
        /\ touch'[g].base = touch[g].base
    <3>1. /\ g = h => Touched("caps", h, h)[g].caps = {}
          /\ g # h => Touched("caps", h, h)[g].caps = touch[g].caps \cup {h}
          /\ Touched("caps", h, h)[g].base = touch[g].base
      BY TouchedIs
    <3> QED  BY <2>1, <3>1
  <2>6. FileTrace(g, "base")'
    BY <1>1, <1>2, <1>5, <2>4, <2>5, FileKept DEF Stored
  <2>7. FileTrace(g, "caps")'
    <3>1. Trace(g, wrote'[g].caps, next, touch'[g].caps)
      <4>1. CASE g = h  BY <4>1, <2>2, <2>4, TraceOwn
      <4>2. CASE g # h
        <5>1. Trace(g, wrote[g].caps, caps, touch[g].caps)  BY <1>2 DEF FileTrace, Stored
        <5>2. h \in Hosts \ {g} /\ h \in touch'[g].caps  BY <4>2, <2>5
        <5> QED  BY <4>2, <5>1, <5>2, <2>2, <2>4, TraceForeign
      <4> QED  BY <4>1, <4>2
    <3>2. Stored("caps")' = next  BY <2>1 DEF Stored
    <3> QED  BY <1>5, <3>1, <3>2 DEF FileTrace
  <2>8. CapsTrace(g)'
    <3>1. CASE g = h  BY <3>1, <1>7, <2>1, <2>2, <2>3, <2>4, <2>5 DEF CapsTrace
    <3>2. CASE g # h  BY <3>2, <1>2, <1>7, <2>1, <2>2, <2>4, <2>5 DEF CapsTrace
    <3> QED  BY <3>1, <3>2
  <2> QED  BY <2>6, <2>7, <2>8
<1> QED  BY <1>8, <1>9

\* A host is started anew.
LEMMA TamperRestarted ==
    ASSUME StoresType, TamperInv, NEW h \in Hosts, Restart(h)
    PROVE  TamperInv'
<1> SUFFICES ASSUME NEW g \in Hosts
             PROVE  FileTrace(g, "caps")' /\ FileTrace(g, "base")' /\ CapsTrace(g)'
  BY DEF TamperInv
<1>1. UNCHANGED <<caps, base, touch>> /\ "caps" \in Files /\ "base" \in Files
  BY DEF Restart, history, Files
<1>2. FileTrace(g, "caps") /\ FileTrace(g, "base") /\ CapsTrace(g)  BY DEF TamperInv
<1>3. CASE g = h
  <2>1. /\ wrote'[g].caps = Missing /\ wrote'[g].base = Missing
        /\ tamper'[g].caps = NoTamper /\ tamper'[g].base = NoTamper /\ doing'[g] = Idle
    BY <1>1, <1>3 DEF Restart, StoresType
  <2>2. Missing.writer = NoOne /\ ~ NoTamper.seen  BY DEF Missing, NoTamper
  <2> QED  BY <2>1, <2>2, SilentFiles DEF FileTrace, CapsTrace, Trace
<1>4. CASE g # h
  <2>1. wrote'[g] = wrote[g] /\ tamper'[g] = tamper[g] /\ doing'[g] = doing[g]
    BY <1>4 DEF Restart, StoresType
  <2> QED  BY <1>1, <1>2, <2>1 DEF FileTrace, CapsTrace, Stored
<1> QED  BY <1>3, <1>4

\* Someone edits a file.
LEMMA TamperEdited ==
    ASSUME StoresType, TamperInv, NEW file \in Files, NEW wipe \in BOOLEAN, Edit(file, wipe)
    PROVE  TamperInv'
<1> SUFFICES ASSUME NEW g \in Hosts
             PROVE  FileTrace(g, "caps")' /\ FileTrace(g, "base")' /\ CapsTrace(g)'
  BY DEF TamperInv
<1>1. UNCHANGED <<wrote, tamper, doing>> /\ "caps" \in Files /\ "base" \in Files  BY DEF Edit, Files
<1>2. FileTrace(g, "caps") /\ FileTrace(g, "base") /\ CapsTrace(g)  BY DEF TamperInv
<1>3. NoOne \notin Hosts  BY StoresAssumption
<1>4. \A c \in Content : [c EXCEPT !.recs = {}].writer = c.writer /\ [c EXCEPT !.recs = {}].recs = {}
  BY DEF Content
<1>5. Missing.writer = NoOne /\ Missing.recs = {}  BY DEF Missing
<1>6. CASE file = "caps"
  <2>1. touch' = Touched("caps", "outsider", NoOne) /\ base' = base  BY <1>6 DEF Edit
  <2>2. touch'[g].caps = touch[g].caps \cup {"outsider"} /\ touch'[g].base = touch[g].base
    <3>1. /\ Touched("caps", "outsider", NoOne)[g].caps = touch[g].caps \cup {"outsider"}
          /\ Touched("caps", "outsider", NoOne)[g].base = touch[g].base
      BY <1>3, TouchedIs
    <3> QED  BY <2>1, <3>1
  <2>3. (caps'.writer = caps.writer \/ caps'.writer = NoOne) /\ caps'.recs = {}
    <3>1. caps' = Missing \/ caps' = [caps EXCEPT !.recs = {}]  BY <1>6 DEF Edit
    <3> QED  BY <3>1, <1>4, <1>5 DEF StoresType
  <2>4. FileTrace(g, "base")'  BY <1>1, <1>2, <2>1, <2>2 DEF FileTrace, Stored
  <2>5. FileTrace(g, "caps")'
    <3>1. Trace(g, wrote[g].caps, caps, touch[g].caps)  BY <1>2 DEF FileTrace, Stored
    <3>2. Trace(g, wrote[g].caps, caps', touch'[g].caps)  BY <3>1, <2>2, <2>3, TraceEdited
    <3> QED  BY <1>1, <1>2, <3>2 DEF FileTrace, Stored
  <2>6. CapsTrace(g)'  BY <1>1, <1>2, <2>3 DEF CapsTrace
  <2> QED  BY <2>4, <2>5, <2>6
<1>7. CASE file = "base"
  <2>1. touch' = Touched("base", "outsider", NoOne) /\ caps' = caps  BY <1>7 DEF Edit
  <2>2. touch'[g].base = touch[g].base \cup {"outsider"} /\ touch'[g].caps = touch[g].caps
    <3>1. /\ Touched("base", "outsider", NoOne)[g].base = touch[g].base \cup {"outsider"}
          /\ Touched("base", "outsider", NoOne)[g].caps = touch[g].caps
      BY <1>3, TouchedIs
    <3> QED  BY <2>1, <3>1
  <2>3. base'.writer = base.writer \/ base'.writer = NoOne
    <3>1. base' = Missing \/ base' = [base EXCEPT !.recs = {}]  BY <1>7 DEF Edit
    <3> QED  BY <3>1, <1>4, <1>5 DEF StoresType
  <2>4. FileTrace(g, "caps")'  BY <1>1, <1>2, <2>1, <2>2 DEF FileTrace, Stored
  <2>5. FileTrace(g, "base")'
    <3>1. Trace(g, wrote[g].base, base, touch[g].base)  BY <1>2 DEF FileTrace, Stored
    <3>2. Trace(g, wrote[g].base, base', touch'[g].base)  BY <3>1, <2>2, <2>3, TraceEdited
    <3> QED  BY <1>1, <1>2, <3>2 DEF FileTrace, Stored
  <2>6. CapsTrace(g)'  BY <1>1, <1>2, <2>1, <2>2 DEF CapsTrace
  <2> QED  BY <2>4, <2>5, <2>6
<1> QED  BY <1>6, <1>7 DEF Files

\* Who touched the files stays known.
LEMMA TamperKept ==
    ASSUME StoresType, RecordsInv, TamperInv, StoreStep
    PROVE  TamperInv'
<1>1. ASSUME NEW v \in Versions, Upgrade(v)  PROVE TamperInv'
  BY <1>1 DEF Upgrade, stores, history, TamperInv, FileTrace, CapsTrace, Stored
<1>2. CASE ListsOnly
  BY <1>2 DEF ListsOnly, stores, history, TamperInv, FileTrace, CapsTrace, Stored
<1>3. ASSUME NEW h \in Hosts, NEW fault \in BOOLEAN, NEW name \in {"plug", "core"},
             SeePackage(h, name, fault)
      PROVE  TamperInv'
  BY <1>3, TamperSaved DEF SeePackage
<1>4. ASSUME NEW h \in Hosts, NEW fault \in BOOLEAN, NEW mark \in BOOLEAN, Mark(h, mark, fault)
      PROVE  TamperInv'
  <2>1. \A g \in Hosts : doing'[g] = doing[g] \/ doing'[g].op # "scan"  BY <1>4, MarkScansNothing
  <2>2. \E recs : SaveBase(h, recs, fault)  BY <1>4 DEF Mark
  <2> QED  BY <2>1, <2>2, TamperSaved
<1> QED  BY <1>1, <1>2, <1>3, <1>4, TamperNoted, TamperScanned, TamperRestarted, TamperEdited DEF StoreStep

\* At the beginning nobody wrote.
LEMMA TamperInit ==
    ASSUME Init
    PROVE  TamperInv
<1>1. Missing.writer = NoOne /\ ~ NoTamper.seen /\ "caps" \in Files /\ "base" \in Files
  BY DEF Missing, NoTamper, Files
<1> QED  BY <1>1, SilentFiles DEF Init, TamperInv, FileTrace, CapsTrace, Trace

-----------------------------------------------------------------------------
(* The theorems about the two stores.                                      *)

StoresInv == StoresType /\ RecordsInv /\ TamperInv /\ TamperNamed

\* Only the end of a scan is told.
LEMMA ToldByScans ==
    ASSUME StoreStep, told' # told, told'.host # NoOne
    PROVE  \E h \in Hosts, fault \in BOOLEAN : SaveCaps(h, fault)
<1>1. ASSUME NEW h, NEW fault, Show(h, fault)  PROVE told'.host = NoOne
  BY <1>1 DEF Show
<1>2. ASSUME NEW h, NEW fault, LoadCaps(h, fault) \/ Reload(h, fault) \/ ReadBase(h, fault)
      PROVE  told' = told
  BY <1>2 DEF LoadCaps, Reload, ReadBase
<1>3. ASSUME NEW h, NEW fault, NEW recs, SaveBase(h, recs, fault)  PROVE told' = told
  BY <1>3 DEF SaveBase
<1>4. ASSUME NEW h, NEW fault, NEW x, SeePackage(h, x, fault) \/ Mark(h, x, fault)  PROVE told' = told
  <2>1. \E recs : SaveBase(h, recs, fault)  BY <1>4 DEF SeePackage, Mark
  <2> QED  BY <2>1, <1>3
<1>5. ASSUME NEW x, Upgrade(x) \/ Restart(x) \/ ListsOnly  PROVE told' = told
  BY <1>5 DEF Upgrade, Restart, ListsOnly
<1>6. ASSUME NEW x, NEW y, Edit(x, y)  PROVE told' = told
  BY <1>6 DEF Edit
<1> QED  BY <1>1, <1>2, <1>4, <1>5, <1>6 DEF StoreStep

\* A scan says of the stores what is so.
LEMMA NamedStep ==
    ASSUME StoresInv, StoreStep
    PROVE  TamperNamed'
<1>1. CASE told' = told  BY <1>1 DEF StoresInv, TamperNamed
<1>2. CASE told'.host = NoOne  BY <1>2 DEF TamperNamed
<1>3. CASE told' # told /\ told'.host # NoOne
  <2>1. PICK h \in Hosts, fault \in BOOLEAN : SaveCaps(h, fault)  BY <1>3, ToldByScans
  <2>2. /\ told'.store = TellStore(h).store /\ told'.file = TellStore(h).file
        /\ told'.who = TellStore(h).who /\ told'.capsWho = doing[h].who /\ told'.host = h
    BY <2>1 DEF SaveCaps
  <2>3. doing[h].op = "scan"  BY <2>1 DEF SaveCaps
  <2> QED  BY <2>2, <2>3, ToldOfStore DEF StoresInv, TamperNamed, Suspects
<1> QED  BY <1>1, <1>2, <1>3

\* The inductive invariant of the two stores.
LEMMA StoresInvariant == ListsSpec => []StoresInv
<1>1. ListsInit => StoresInv
  BY RecordsInit, TamperInit DEF ListsInit, Init, Silent, StoresInv, TamperNamed
<1>2. StoresInv /\ [ListsNext]_allVars => StoresInv'
  <2> SUFFICES ASSUME StoresInv, [ListsNext]_allVars  PROVE StoresInv'  OBVIOUS
  <2>1. StoreStep  BY StepsOfStores
  <2> QED  BY <2>1, TypesKept, RecordsKept, TamperKept, NamedStep DEF StoresInv
<1> QED  BY <1>1, <1>2, PTL DEF ListsSpec

\* Every scan compares with the version scanned last before it: nothing newer of
\* another version was on the disk when it began, unless lost there or misread.
THEOREM UpgradesAreTold == ListsSpec => []UpgradeTold
<1>1. StoresInv => UpgradeTold
  BY DEF StoresInv, RecordsInv, ToldInv, Compared, UpgradeTold
<1> QED  BY <1>1, StoresInvariant, PTL

\* What a scan says of a rewritten store is so.
THEOREM TamperIsNamed == ListsSpec => []TamperNamed
<1>1. StoresInv => TamperNamed  BY DEF StoresInv
<1> QED  BY <1>1, StoresInvariant, PTL

-----------------------------------------------------------------------------
(* Pruning.                                                                *)

\* There is an oldest record.
LEMMA EarliestOf ==
    ASSUME NEW S, S # {}, \A r \in S : r.at \in Nat
    PROVE  \E r \in S : \A s \in S : r.at <= s.at
<1> DEFINE T == {r.at : r \in S}
<1>1. T \subseteq Nat /\ T # {}  OBVIOUS
<1>2. PICK k \in T : \A j \in T : k <= j
  <2> HIDE DEF T
  <2> QED  BY <1>1, LeastOf
<1> QED  BY <1>2

\* The records newer than r.
Newer(R, r) == {s \in R : s.at > r.at}

Dated(R, n) ==
    /\ IsFiniteSet(R) /\ \A r \in R : r.at \in Nat /\ r.at <= n
    /\ \A r, s \in R : r.at = s.at => r = s

\* They can be counted.
LEMMA NewerAreCounted ==
    ASSUME NEW R, NEW n, Dated(R, n), NEW r
    PROVE  IsFiniteSet(Newer(R, r)) /\ Cardinality(Newer(R, r)) \in Nat
<1>1. Newer(R, r) \subseteq R  BY DEF Newer
<1>2. IsFiniteSet(R)  BY DEF Dated
<1>3. IsFiniteSet(Newer(R, r))  BY <1>1, <1>2, FS_Subset
<1> QED  BY <1>3, FS_CardinalityType

\* Of too many records exactly the k newest stay: whatever leaves is older than all
\* that stay, and k stay.
LEMMA NewestStayed ==
    ASSUME NEW n \in Nat, NEW R, Dated(R, n), NEW k \in Nat \ {0}, Cardinality(R) > k,
           NEW q \in R, q \notin Pruned(R, k)
    PROVE  /\ Cardinality(Pruned(R, k)) = k
           /\ \A s \in Pruned(R, k) : s.at > q.at
<1> DEFINE P == {r \in R : Cardinality(Newer(R, r)) < k}
           Q == R \ P
<1>1. Pruned(R, k) = P
  <2>1. IsFiniteSet(R) /\ Cardinality(R) \in Nat  BY FS_CardinalityType DEF Dated
  <2>2. ~ (Cardinality(R) <= k)  BY <2>1
  <2> QED  BY <2>2 DEF Pruned, Newer
<1>2. P \subseteq R /\ Q \subseteq R /\ q \in Q  BY <1>1
<1>3. \A r \in R : r.at \in Nat /\ r.at <= n  BY DEF Dated
<1>4. ASSUME NEW o \in Q, NEW s \in P  PROVE s.at > o.at
  <2> SUFFICES ASSUME ~ (s.at > o.at)  PROVE FALSE  OBVIOUS
  <2>1. s.at \in Nat /\ o.at \in Nat  BY <1>2, <1>3
  <2>2. s.at <= o.at  BY <2>1
  <2>3. Newer(R, o) \subseteq Newer(R, s)
    <3> SUFFICES ASSUME NEW x \in R, x.at > o.at  PROVE x.at > s.at  BY DEF Newer
    <3>1. x.at \in Nat  BY <1>3
    <3> QED  BY <2>1, <2>2, <3>1
  <2>4. Cardinality(Newer(R, o)) <= Cardinality(Newer(R, s))  BY <2>3, NewerAreCounted, FS_Subset
  <2>5. ~ (Cardinality(Newer(R, o)) < k) /\ Cardinality(Newer(R, s)) < k  BY <1>2
  <2>6. Cardinality(Newer(R, o)) \in Nat /\ Cardinality(Newer(R, s)) \in Nat  BY NewerAreCounted
  <2> HIDE DEF Q, P
  <2> QED  BY <2>4, <2>5, <2>6
<1>5. PICK o \in Q : \A x \in Q : x.at <= o.at
  <2> HIDE DEF Q
  <2>1. \A x \in Q : x.at \in Nat /\ x.at <= n  BY <1>2, <1>3
  <2> QED  BY <1>2, <2>1, LatestIs
<1>6. Newer(R, o) = P
  <2>1. ASSUME NEW x \in R, x.at > o.at  PROVE x \in P
    <3>1. x.at \in Nat /\ o.at \in Nat  BY <1>2, <1>3
    <3>2. x \notin Q
      <4> SUFFICES ASSUME x \in Q  PROVE FALSE  OBVIOUS
      <4>1. x.at <= o.at  BY <1>5
      <4> HIDE DEF Q
      <4> QED  BY <2>1, <3>1, <4>1
    <3> QED  BY <3>2
  <2>2. \A x \in P : x \in R /\ x.at > o.at  BY <1>2, <1>4
  <2> HIDE DEF P
  <2> QED  BY <2>1, <2>2 DEF Newer
<1>7. Cardinality(P) \in Nat /\ IsFiniteSet(P)  BY <1>6, NewerAreCounted
<1>8. Cardinality(P) >= k
  <2>1. ~ (Cardinality(Newer(R, o)) < k)  OBVIOUS
  <2> HIDE DEF P, Q
  <2> QED  BY <1>6, <1>7, <2>1
<1>9. P # {}
  <2> SUFFICES ASSUME P = {}  PROVE FALSE  OBVIOUS
  <2> HIDE DEF P
  <2>1. Cardinality(P) = 0  BY FS_EmptySet
  <2> QED  BY <1>8, <2>1
<1>10. PICK p \in P : \A s \in P : p.at <= s.at
  <2> HIDE DEF P
  <2>1. \A x \in P : x.at \in Nat  BY <1>2, <1>3
  <2> QED  BY <1>9, <2>1, EarliestOf
<1>11. Newer(R, p) = P \ {p}
  <2>1. ASSUME NEW x \in R, x.at > p.at  PROVE x \in P \ {p}
    <3>1. x.at \in Nat /\ p.at \in Nat /\ o.at \in Nat  BY <1>2, <1>3
    <3>2. x # p  BY <2>1, <3>1
    <3>3. p.at > o.at  BY <1>4
    <3>4. x.at > o.at  BY <2>1, <3>1, <3>3
    <3>5. x \in Newer(R, o)  BY <3>4 DEF Newer
    <3> HIDE DEF P
    <3> QED  BY <1>6, <3>2, <3>5
  <2>2. ASSUME NEW x \in P, x # p  PROVE x \in R /\ x.at > p.at
    <3>1. x \in R /\ p \in R /\ x.at \in Nat /\ p.at \in Nat  BY <1>2, <1>3
    <3>2. x.at # p.at  BY <2>2, <3>1 DEF Dated
    <3>3. p.at <= x.at  BY <1>10
    <3> HIDE DEF P
    <3> QED  BY <3>1, <3>2, <3>3
  <2> HIDE DEF P
  <2> QED  BY <2>1, <2>2 DEF Newer
<1>12. Cardinality(P) <= k
  <2>1. Cardinality(Newer(R, p)) < k  OBVIOUS
  <2> HIDE DEF P
  <2>2. Cardinality(P \ {p}) = Cardinality(P) - 1  BY <1>7, FS_RemoveElement
  <2> QED  BY <1>7, <1>11, <2>1, <2>2
<1>13. Cardinality(P) = k
  <2> HIDE DEF P
  <2> QED  BY <1>7, <1>8, <1>12
<1>14. \A s \in P : s.at > q.at  BY <1>2, <1>4
<1> HIDE DEF P
<1> QED  BY <1>1, <1>13, <1>14

\* A scan drops a record only for a reason.
LEMMA HistoryStep ==
    ASSUME StoresInv, NEW h \in Hosts, NEW fault \in BOOLEAN, SaveCaps(h, fault), caps' # caps
    PROVE  /\ \E r \in caps'.recs : r.version = told'.to /\ r.at = clock'
           /\ \A r \in caps.recs : r \notin caps'.recs =>
                \/ doing[h].misread \/ doing[h].seen # caps
                \/ \E s \in caps'.recs : s.version = r.version
                \/ Cardinality(caps'.recs) = MaxKept /\ \A s \in caps'.recs : s.at > r.at
<1> DEFINE d == doing[h]
           new == [version |-> d.to, at |-> clock + 1, can |-> Can[d.to]]
           W == WithRecord(d.recs, new)
           recs == Pruned(W, MaxKept)
<1>1. d.op = "scan" /\ ScanInv(saved, lost, clock, d)
  BY DEF SaveCaps, StoresInv, RecordsInv, DoingInv
<1>2. ~ fault  BY DEF SaveCaps
<1>3. caps'.recs = recs /\ told'.to = d.to /\ clock' = clock + 1  BY <1>2 DEF SaveCaps
<1>4. clock \in Nat /\ new.at = clock + 1 /\ new.version = d.to  BY DEF StoresInv, StoresType
<1>5. \A r \in d.recs : r.at \in Nat /\ r.at <= clock
  BY <1>1 DEF StoresInv, ScanInv, RecordsInv, SavedInv, Scanned
<1>6. new \in recs
  <2> HIDE DEF d, new
  <2> QED  BY <1>4, <1>5, NewestStays
<1>7. Dated(W, clock + 1)
  <2> HIDE DEF d, new
  <2>1. W \subseteq d.recs \cup {new}  BY DEF WithRecord, Others
  <2>2. IsFiniteSet(d.recs \cup {new})  BY <1>1, FS_AddElement DEF ScanInv
  <2>3. IsFiniteSet(W)
    <3> HIDE DEF W
    <3> QED  BY <2>1, <2>2, FS_Subset
  <2>4. \A r \in W : r.at \in Nat /\ r.at <= clock + 1
    <3> SUFFICES ASSUME NEW r \in W  PROVE r.at \in Nat /\ r.at <= clock + 1  OBVIOUS
    <3>1. CASE r \in d.recs
      <4>1. r.at \in Nat /\ r.at <= clock  BY <1>5, <3>1
      <4> QED  BY <1>4, <4>1
    <3>2. CASE r = new  BY <1>4, <3>2
    <3> QED  BY <2>1, <3>1, <3>2
  <2>5. ASSUME NEW r \in W, NEW s \in W, r.at = s.at  PROVE r = s
    <3>1. CASE r \in d.recs /\ s \in d.recs
      <4>1. r \in saved /\ s \in saved  BY <1>1, <3>1 DEF ScanInv
      <4> QED  BY <2>5, <4>1 DEF StoresInv, RecordsInv, SavedInv
    <3>2. CASE r \in d.recs /\ s = new
      <4>1. r.at \in Nat /\ r.at <= clock  BY <1>5, <3>2
      <4> QED  BY <1>4, <2>5, <3>2, <4>1
    <3>3. CASE r = new /\ s \in d.recs
      <4>1. s.at \in Nat /\ s.at <= clock  BY <1>5, <3>3
      <4> QED  BY <1>4, <2>5, <3>3, <4>1
    <3> QED  BY <2>1, <3>1, <3>2, <3>3
  <2> HIDE DEF W
  <2> QED  BY <2>3, <2>4, <2>5 DEF Dated
<1>8. ASSUME NEW r \in caps.recs, r \notin recs, ~ d.misread, d.seen = caps,
             ~ \E s \in recs : s.version = r.version
      PROVE  Cardinality(recs) = MaxKept /\ \A s \in recs : s.at > r.at
  <2> HIDE DEF d, new
  <2>1. d.recs = caps.recs  BY <1>1, <1>8 DEF ScanInv
  <2>2. r.version # d.to  BY <1>4, <1>6, <1>8
  <2>3. r \in W  BY <1>4, <1>8, <2>1, <2>2 DEF WithRecord, Others
  <2> HIDE DEF W
  <2>4. IsFiniteSet(W) /\ Cardinality(W) \in Nat  BY <1>7, FS_CardinalityType DEF Dated
  <2>5. MaxKept \in Nat \ {0}  BY StoresAssumption
  <2>6. Cardinality(W) > MaxKept
    <3>1. ~ (Cardinality(W) <= MaxKept)  BY <1>8, <2>3 DEF Pruned
    <3> QED  BY <2>4, <2>5, <3>1
  <2>7. clock + 1 \in Nat  BY <1>4
  <2> QED  BY <1>7, <1>8, <2>3, <2>5, <2>6, <2>7, NewestStayed
<1> HIDE DEF recs, new
<1> QED  BY <1>3, <1>4, <1>6, <1>8

\* No record leaves the disk without a reason.
THEOREM HistoryIsKept == ListsSpec => HistoryKept
<1> DEFINE Reasoned(h) ==
      told' # told /\ told'.host = h /\ caps' # caps =>
         /\ \E r \in caps'.recs : r.version = told'.to /\ r.at = clock'
         /\ \A r \in caps.recs : r \notin caps'.recs =>
            \/ doing[h].misread \/ doing[h].seen # caps
            \/ \E s \in caps'.recs : s.version = r.version
            \/ Cardinality(caps'.recs) = MaxKept /\ \A s \in caps'.recs : s.at > r.at
<1>1. ASSUME StoresInv, [ListsNext]_allVars, NEW h \in Hosts  PROVE Reasoned(h)
  <2> SUFFICES ASSUME told' # told, told'.host = h, caps' # caps
               PROVE  Reasoned(h)
    OBVIOUS
  <2>1. StoreStep /\ h # NoOne  BY <1>1, StepsOfStores, StoresAssumption
  <2>2. PICK g \in Hosts, fault \in BOOLEAN : SaveCaps(g, fault)  BY <2>1, ToldByScans
  <2>3. told'.host = g  BY <2>2 DEF SaveCaps
  <2> QED  BY <1>1, <2>2, <2>3, HistoryStep
<1>2. StoresInv /\ [ListsNext]_allVars => [\A h \in Hosts : Reasoned(h)]_vars  BY <1>1
<1> QED  BY <1>2, StoresInvariant, PTL DEF ListsSpec, HistoryKept

-----------------------------------------------------------------------------
(* The lists.                                                              *)

Engines  == {Engine[h] : h \in Hosts}
VerdictKinds == {"critical", "suspicious", "clean"}
Summary  == [name : {"plug", "other"}, version : Versions, verdict : VerdictKinds, codes : SUBSET STRING,
             engine : Engines, at : Nat]
Pending  == [at : {"noting"}, via : {"load", "gate"}, read : SUBSET Summary, seen : SUBSET Summary,
             new : Summary]
Jobs     == {Nothing, [at |-> "recording"]} \cup Pending
Purposes == {"scans", "gates", "lists", "marks", "faults", "edits", "restarts"}

ListsType ==
    /\ summaries \in SUBSET Summary /\ noting \in [Hosts -> Jobs] /\ spoiled \in BOOLEAN
    /\ last = NoScan \/ (last \in Summary /\ last.name = "plug")
    /\ budget \in [Purposes -> Nat]

\* The same finding, of another time perhaps.
SameFinding(s, t) ==
    s.name = t.name /\ s.version = t.version /\ s.verdict = t.verdict /\ s.codes = t.codes
    /\ s.engine = t.engine

\* The panel takes the version from the summary of that time, or the capabilities
\* say the same.
Onward(version, at) ==
    caps.recs # {} => at > Latest(caps.recs).at \/ Latest(caps.recs).version = version

OnePerName(recs) == \A s, t \in recs : s.name = t.name => s = t
NoneAfter(recs, at) == \A s \in recs : s.at <= at

JobInv(h) ==
    /\ doing[h].op = "scan" => noting[h].at = "recording" /\ doing[h].to = installed
    /\ noting[h].at = "recording" => last # NoScan /\ last.version = installed
    /\ noting[h].at = "noting" =>
         /\ noting[h].new.version = installed /\ noting[h].new.at <= clock + 1
         /\ noting[h].via = "load" => noting[h].new.name = "plug"
         /\ noting[h].read \subseteq noting[h].seen /\ OnePerName(noting[h].seen)
         /\ NoneAfter(noting[h].seen, noting[h].new.at)
         /\ ~ spoiled => noting[h].read = noting[h].seen /\ Onward(installed, noting[h].new.at)

\* What is on file of the plugin is the last finding.
PlugsInv ==
    \A s \in OfName(summaries, "plug") : last # NoScan /\ SameFinding(s, last) /\ Onward(s.version, s.at)

\* It may have left, but only for one other package that takes all the room.
LeftInv ==
    last # NoScan => OfName(summaries, "plug") # {} \/ (MostKept = 1 /\ \E o : summaries = {o})

ListsInv ==
    /\ OnePerName(summaries) /\ NoneAfter(summaries, clock + 1)
    /\ \A h \in Hosts : JobInv(h)
    /\ ~ spoiled => PlugsInv /\ LeftInv

AllInv ==
    /\ StoresInv /\ ListsType
    /\ budget.lists # 1 => last = NoScan
    /\ budget.lists = 1 => ListsInv

\* What is compared is all but the time.
LEMMA SameExceptTime ==
    ASSUME NEW A, NEW B, NEW C, NEW D, NEW E, NEW F,
           NEW s \in [name : A, version : B, verdict : C, codes : D, engine : E, at : F],
           NEW t \in [name : A, version : B, verdict : C, codes : D, engine : E, at : F]
    PROVE  [s EXCEPT !.at = t.at] = t <=> SameFinding(s, t)
BY DEF SameFinding

\* The same of summaries.
LEMMA SameSummary ==
    ASSUME NEW s \in Summary, NEW t \in Summary
    PROVE  [s EXCEPT !.at = t.at] = t <=> SameFinding(s, t)
<1> DEFINE A == {"plug", "other"}
           D == SUBSET STRING
<1> HIDE DEF A, D
<1>1. /\ s \in [name : A, version : Versions, verdict : VerdictKinds, codes : D, engine : Engines, at : Nat]
      /\ t \in [name : A, version : Versions, verdict : VerdictKinds, codes : D, engine : Engines, at : Nat]
  BY DEF Summary, A, D
<1> QED  BY <1>1, SameExceptTime

\* The bounds are used up, but whether there are lists does not change.
LEMMA SpentIs ==
    ASSUME budget \in [Purposes -> Nat], NEW what \in Purposes \ {"lists"}, NEW fault, Spend(what, fault)
    PROVE  budget' \in [Purposes -> Nat] /\ budget'.lists = budget.lists
<1>1. budget[what] \in Nat /\ budget[what] > 0 /\ budget[what] - 1 \in Nat /\ "lists" \in Purposes
  <2>1. budget[what] > 0  BY DEF Spend
  <2>2. budget[what] \in Nat /\ "lists" \in Purposes  BY DEF Purposes
  <2> QED  BY <2>1, <2>2
<1>2. "faults" \in Purposes /\ budget["faults"] \in Nat  BY DEF Purposes
<1>3. CASE ~ fault
  <2>1. budget' = [budget EXCEPT ![what] = @ - 1, !["faults"] = @]  BY <1>3 DEF Spend
  <2> QED  BY <1>1, <1>2, <2>1
<1>4. CASE fault
  <2>1. budget' = [budget EXCEPT ![what] = @ - 1, !["faults"] = @ - 1]  BY <1>4 DEF Spend
  <2>2. budget["faults"] > 0  BY <1>4 DEF Spend
  <2>3. budget["faults"] - 1 \in Nat  BY <1>2, <2>2
  <2> QED  BY <1>1, <1>2, <2>1, <2>3
<1> QED  BY <1>3, <1>4

\* A failure in a later half of a step is paid for, too.
LEMMA FaultIs ==
    ASSUME budget \in [Purposes -> Nat], NEW fault, Fault(fault)
    PROVE  budget' \in [Purposes -> Nat] /\ budget'.lists = budget.lists
<1>1. "faults" \in Purposes \ {"lists"}  BY DEF Purposes
<1>2. CASE fault
  <2>1. Spend("faults", FALSE)  BY <1>2 DEF Fault
  <2> QED  BY <1>1, <2>1, SpentIs
<1>3. CASE ~ fault  BY <1>3 DEF Fault
<1> QED  BY <1>2, <1>3

\* No step of the stores turns the lists on or off.
LEMMA StoresSpend ==
    ASSUME budget \in [Purposes -> Nat], Next
    PROVE  budget' \in [Purposes -> Nat] /\ budget'.lists = budget.lists
<1> DEFINE Goal == budget' \in [Purposes -> Nat] /\ budget'.lists = budget.lists
<1>1. /\ "scans" \in Purposes \ {"lists"} /\ "marks" \in Purposes \ {"lists"}
      /\ "edits" \in Purposes \ {"lists"} /\ "restarts" \in Purposes \ {"lists"}
  BY DEF Purposes
<1>2. ASSUME NEW v \in Versions, Upgrade(v)  PROVE Goal  BY <1>2 DEF Upgrade
<1>3. ASSUME NEW h \in Hosts, NEW fault \in BOOLEAN, LoadCaps(h, fault) \/ Show(h, fault)  PROVE Goal
  BY <1>1, <1>3, SpentIs DEF LoadCaps, Show
<1>4. ASSUME NEW h \in Hosts, NEW fault \in BOOLEAN, SaveCaps(h, fault) \/ Reload(h, fault)  PROVE Goal
  BY <1>4, FaultIs DEF SaveCaps, Reload
<1>5. ASSUME NEW h \in Hosts, NEW fault \in BOOLEAN, ReadBase(h, fault)  PROVE Goal
  BY <1>1, <1>5, SpentIs DEF ReadBase
<1>6. ASSUME NEW h \in Hosts, NEW fault \in BOOLEAN, NEW x, SeePackage(h, x, fault) \/ Mark(h, x, fault)
      PROVE  Goal
  <2>1. Spend("marks", fault)  BY <1>6 DEF SeePackage, Mark
  <2> QED  BY <1>1, <2>1, SpentIs
<1>7. ASSUME NEW h \in Hosts, Restart(h)  PROVE Goal  BY <1>1, <1>7, SpentIs DEF Restart
<1>8. ASSUME NEW file \in Files, NEW wipe \in BOOLEAN, Edit(file, wipe)  PROVE Goal
  BY <1>1, <1>8, SpentIs DEF Edit
<1> HIDE DEF Goal
<1>9. Goal  BY <1>2, <1>3, <1>4, <1>5, <1>6, <1>7, <1>8 DEF Next
<1> QED  BY <1>9 DEF Goal

\* The latest record on the disk is not of the future.
LEMMA LatestOfCaps ==
    ASSUME StoresInv, caps.recs # {}
    PROVE  /\ Latest(caps.recs) \in caps.recs /\ Latest(caps.recs).at \in Nat
           /\ Latest(caps.recs).at <= clock /\ clock \in Nat
<1>1. \A r \in caps.recs : r.at \in Nat /\ r.at <= clock
  BY DEF StoresInv, RecordsInv, SavedInv, Scanned
<1>2. clock \in Nat  BY DEF StoresInv, StoresType
<1> QED  BY <1>1, <1>2, LatestIs

\* After a scan the latest record is its own.
LEMMA LatestIsOwn ==
    ASSUME StoresInv, NEW h \in Hosts, NEW fault \in BOOLEAN, SaveCaps(h, fault), ~ fault
    PROVE  Latest(caps'.recs).version = doing[h].to
<1> DEFINE d == doing[h]
           new == [version |-> d.to, at |-> clock + 1, can |-> Can[d.to]]
           W == WithRecord(d.recs, new)
           recs == Pruned(W, MaxKept)
<1>1. d.op = "scan" /\ ScanInv(saved, lost, clock, d)
  BY DEF SaveCaps, StoresInv, RecordsInv, DoingInv
<1>2. caps'.recs = recs  BY DEF SaveCaps
<1>3. clock \in Nat /\ clock + 1 \in Nat /\ new.at = clock + 1 /\ new.version = d.to
  BY DEF StoresInv, StoresType
<1>4. \A r \in d.recs : r.at \in Nat /\ r.at <= clock
  BY <1>1 DEF StoresInv, ScanInv, RecordsInv, SavedInv, Scanned
<1>5. new \in recs
  <2> HIDE DEF d, new
  <2> QED  BY <1>3, <1>4, NewestStays
<1>6. recs \subseteq d.recs \cup {new}
  <2> HIDE DEF d, new
  <2>1. W \subseteq d.recs \cup {new}  BY DEF WithRecord, Others
  <2> HIDE DEF W
  <2>2. recs \subseteq W  BY RecordsPruned
  <2> QED  BY <2>1, <2>2
<1> HIDE DEF new, d
<1>7. \A r \in recs : r.at \in Nat /\ r.at <= clock + 1
  <2> SUFFICES ASSUME NEW r \in recs  PROVE r.at \in Nat /\ r.at <= clock + 1  OBVIOUS
  <2>1. CASE r \in d.recs
    <3>1. r.at \in Nat /\ r.at <= clock  BY <1>4, <2>1
    <3> QED  BY <1>3, <3>1
  <2>2. CASE r = new  BY <1>3, <2>2
  <2> QED  BY <1>6, <2>1, <2>2
<1> HIDE DEF recs
<1>8. Latest(recs) \in recs /\ new.at <= Latest(recs).at  BY <1>3, <1>5, <1>7, LatestIs
<1>9. Latest(recs) \notin d.recs
  <2> SUFFICES ASSUME Latest(recs) \in d.recs  PROVE FALSE  OBVIOUS
  <2>1. Latest(recs).at \in Nat /\ Latest(recs).at <= clock  BY <1>4
  <2> QED  BY <1>3, <1>8, <2>1
<1>10. Latest(recs) = new  BY <1>6, <1>8, <1>9
<1> QED  BY <1>2, <1>3, <1>10 DEF d

-----------------------------------------------------------------------------
(* The lists stay as they should.                                          *)

ListsKept ==
    ListsType' /\ ListsInv' /\ budget'.lists = budget.lists

\* A scan reads the summaries and notes what it found.
LEMMA NotedKept ==
    ASSUME StoresInv, ListsType, ListsInv, NEW h \in Hosts, NEW fault \in BOOLEAN,
           NEW name \in {"plug", "other"}, NEW via \in {"load", "gate"}, via = "load" => name = "plug",
           NEW finding \in [verdict : VerdictKinds, codes : SUBSET STRING],
           NoteScan(h, name, via, finding, fault)
    PROVE  ListsKept
<1> DEFINE new == [name |-> name, version |-> installed, verdict |-> finding.verdict,
                   codes |-> finding.codes, engine |-> Engine[h], at |-> clock + 1]
           job == [at |-> "noting", via |-> via, read |-> IF fault THEN {} ELSE summaries,
                   seen |-> summaries, new |-> new]
<1>1. /\ UNCHANGED <<installed, caps, doing, clock, summaries, last>>
      /\ noting' = [noting EXCEPT ![h] = job] /\ spoiled' = (spoiled \/ fault)
  BY DEF NoteScan, stores
<1>2. clock \in Nat /\ clock + 1 \in Nat /\ installed \in Versions  BY DEF StoresInv, StoresType
<1>3. new \in Summary
  <2>1. Engine[h] \in Engines  BY DEF Engines
  <2>2. finding.verdict \in VerdictKinds /\ finding.codes \in SUBSET STRING  OBVIOUS
  <2> HIDE DEF Engines
  <2> QED  BY <1>2, <2>1, <2>2 DEF Summary
<1>4. job \in Jobs
  <2> HIDE DEF new, Summary
  <2>1. (IF fault THEN {} ELSE summaries) \in SUBSET Summary /\ summaries \in SUBSET Summary
    BY DEF ListsType
  <2> QED  BY <1>3, <2>1 DEF Jobs, Pending
<1>5. budget' \in [Purposes -> Nat] /\ budget'.lists = budget.lists
  <2>1. "gates" \in Purposes \ {"lists"}  BY DEF Purposes
  <2>2. Spend("gates", fault) \/ Fault(fault)  BY DEF NoteScan
  <2> QED  BY <2>1, <2>2, SpentIs, FaultIs DEF ListsType
<1>6. ListsType'
  <2> HIDE DEF job, Jobs, Summary
  <2> QED  BY <1>1, <1>4, <1>5 DEF ListsType
<1>7. ASSUME NEW g \in Hosts  PROVE JobInv(g)'
  <2>1. JobInv(g)  BY DEF ListsInv
  <2>2. CASE g # h
    <3>1. noting'[g] = noting[g]  BY <1>1, <2>2 DEF ListsType
    <3> QED  BY <1>1, <2>1, <3>1 DEF JobInv, Onward
  <2>3. CASE g = h
    <3>1. noting'[g] = job
      <4> HIDE DEF job
      <4> QED  BY <1>1, <2>3 DEF ListsType
    <3>2. doing[g].op # "scan"  BY <2>3 DEF NoteScan, FreeOf
    <3>3. /\ job.at = "noting" /\ job.new.version = installed /\ job.new.at = clock + 1
          /\ job.new.name = name /\ job.via = via /\ job.seen = summaries
      OBVIOUS
    <3>4. job.read \subseteq job.seen /\ (~ fault => job.read = job.seen)  OBVIOUS
    <3>5. OnePerName(summaries) /\ NoneAfter(summaries, clock + 1)  BY DEF ListsInv
    <3>6. Onward(installed, clock + 1)
      <4> SUFFICES ASSUME caps.recs # {}  PROVE clock + 1 > Latest(caps.recs).at  BY DEF Onward
      <4> QED  BY LatestOfCaps
    <3> HIDE DEF job
    <3>7. Onward(installed, clock + 1)'  BY <1>1, <3>6 DEF Onward
    <3>8. clock + 1 <= clock + 1  BY <1>2
    <3> QED  BY <1>1, <3>1, <3>2, <3>3, <3>4, <3>5, <3>7, <3>8 DEF JobInv
  <2> QED  BY <2>2, <2>3
<1>8. ListsInv'
  <2>1. OnePerName(summaries)' /\ NoneAfter(summaries, clock + 1)'
    BY <1>1 DEF ListsInv, OnePerName, NoneAfter
  <2>2. ~ spoiled' => PlugsInv' /\ LeftInv'
    BY <1>1 DEF ListsInv, PlugsInv, LeftInv, Onward
  <2> QED  BY <1>7, <2>1, <2>2 DEF ListsInv
<1> QED  BY <1>5, <1>6, <1>8 DEF ListsKept

\* A summary that is newer than the others stays, and no other comes with it than was there.
LEMMA KeptNewest ==
    ASSUME NEW R, NEW new \in R, \A t \in R : ~ (t.at > new.at)
    PROVE  new \in Kept(R) /\ Kept(R) \subseteq R
<1> DEFINE above == {t \in R : t.at > new.at}
<1>1. above = {}  OBVIOUS
<1>2. Cardinality(above) = 0  BY <1>1, FS_EmptySet
<1>3. Cardinality(above) < MostKept
  <2> HIDE DEF above
  <2> QED  BY <1>2, ListsAssumption
<1> QED  BY <1>3 DEF Kept

\* What is written when the finding is news.
Rewritten(read, new) == (read \ OfName(read, new.name)) \cup {new}

\* The other package takes the room of the plugin only when there is room for one.
LEMMA OtherLeavesRoom ==
    ASSUME NEW S \in SUBSET Summary, OnePerName(S), NEW new \in Summary, new.name = "other",
           NoneAfter(S, new.at),
           OfName(S, "plug") # {} \/ (MostKept = 1 /\ \E o : S = {o})
    PROVE  \/ OfName(Kept(Rewritten(S, new)), "plug") # {}
           \/ MostKept = 1 /\ \E o : Kept(Rewritten(S, new)) = {o}
<1> DEFINE R == Rewritten(S, new)
           K == Kept(R)
<1>1. new \in R /\ \A t \in R : t = new \/ (t \in S /\ t.name = "plug")
  BY DEF Rewritten, OfName, Summary
<1>2. \A t \in S : t.name = "plug" => t \in R  BY DEF Rewritten, OfName
<1>3. new \in K /\ K \subseteq R
  <2>1. \A t \in R : ~ (t.at > new.at)
    <3> SUFFICES ASSUME NEW t \in R  PROVE ~ (t.at > new.at)  OBVIOUS
    <3>1. new.at \in Nat  BY DEF Summary
    <3>2. CASE t = new  BY <3>1, <3>2
    <3>3. CASE t \in S
      <4>1. t.at \in Nat /\ t.at <= new.at  BY <3>3 DEF NoneAfter, Summary
      <4> QED  BY <3>1, <4>1
    <3> QED  BY <1>1, <3>2, <3>3
  <2> HIDE DEF R
  <2> QED  BY <1>1, <2>1, KeptNewest
<1>4. CASE OfName(S, "plug") = {}
  <2>1. \A t \in S : t.name # "plug"  BY <1>4 DEF OfName
  <2>2. R = {new}
    <3> HIDE DEF R
    <3> QED  BY <1>1, <2>1
  <2> HIDE DEF R, K
  <2>3. K = {new}  BY <1>3, <2>2
  <2> QED  BY <1>4, <2>3 DEF K, R
<1>5. CASE OfName(S, "plug") # {}
  <2>1. PICK p \in S : p.name = "plug"  BY <1>5 DEF OfName
  <2>2. CASE p \in K
    <3>1. OfName(K, "plug") # {}  BY <2>1, <2>2 DEF OfName
    <3> QED  BY <3>1
  <2>3. CASE p \notin K
    <3> DEFINE above == {t \in R : t.at > p.at}
    <3>1. p \in R  BY <1>2, <2>1
    <3>2. ~ (Cardinality(above) < MostKept)  BY <2>3, <3>1 DEF Kept
    <3>3. p.at \in Nat  BY <2>1 DEF Summary
    <3>4. \A t \in S : t.name = "plug" => t = p  BY <2>1 DEF OnePerName
    <3>5. above \subseteq {new}
      <4> SUFFICES ASSUME NEW t \in R, t.at > p.at  PROVE t = new  OBVIOUS
      <4>1. t # p  BY <3>3
      <4> HIDE DEF R
      <4> QED  BY <1>1, <3>4, <4>1
    <3> HIDE DEF above
    <3>6. IsFiniteSet({new}) /\ Cardinality({new}) = 1  BY FS_Singleton
    <3>7. Cardinality(above) <= 1 /\ Cardinality(above) \in Nat
      BY <3>5, <3>6, FS_Subset, FS_CardinalityType
    <3>8. MostKept = 1  BY <3>2, <3>7, ListsAssumption
    <3>9. K = {new}
      <4> HIDE DEF K, R
      <4> QED  BY <1>1, <1>3, <2>3, <3>4
    <3> QED  BY <3>8, <3>9
  <2> QED  BY <2>2, <2>3
<1> QED  BY <1>4, <1>5

\* The summary of a scan is put on file.
LEMMA SummaryKept ==
    ASSUME StoresInv, ListsType, ListsInv, NEW h \in Hosts, NEW fault \in BOOLEAN, SaveSummary(h, fault)
    PROVE  ListsKept
<1> DEFINE n == noting[h]
           new == n.new
           old == OfName(n.read, new.name)
           changed == Changed(old, new)
           next == Kept(Rewritten(n.read, new))
<1>1. /\ n.at = "noting"
      /\ summaries' = IF changed /\ ~ fault THEN next ELSE summaries
      /\ noting' = [noting EXCEPT ![h] = IF n.via = "load" THEN [at |-> "recording"] ELSE Nothing]
      /\ last' = IF new.name = "plug" THEN new ELSE last
      /\ clock' = IF n.via = "load" THEN clock ELSE clock + 1
      /\ spoiled' = (spoiled \/ fault \/ n.seen # summaries)
      /\ UNCHANGED <<installed, caps, doing>>
  BY DEF SaveSummary, stores, Rewritten
<1>2. budget' \in [Purposes -> Nat] /\ budget'.lists = budget.lists
  BY FaultIs DEF SaveSummary, ListsType
<1>3. n \in Pending
  <2>1. n \in Jobs  BY DEF ListsType
  <2> HIDE DEF n, Pending
  <2> QED  BY <1>1, <2>1 DEF Jobs, Nothing
<1>4. new \in Summary /\ n.read \in SUBSET Summary /\ n.seen \in SUBSET Summary /\ n.via \in {"load", "gate"}
  <2> HIDE DEF n, Summary
  <2> QED  BY <1>3 DEF Pending
<1>5. clock \in Nat /\ clock' \in Nat /\ clock <= clock'  BY <1>1 DEF StoresInv, StoresType
<1>6. /\ new.version = installed /\ new.at <= clock + 1 /\ (n.via = "load" => new.name = "plug")
      /\ n.read \subseteq n.seen /\ OnePerName(n.seen) /\ NoneAfter(n.seen, new.at)
      /\ ~ spoiled => n.read = n.seen /\ Onward(installed, new.at)
      /\ doing[h].op # "scan"
  <2>1. JobInv(h)  BY DEF ListsInv
  <2> QED  BY <1>1, <2>1 DEF JobInv
<1>7. installed \in Versions /\ 0 \notin Versions
  <2> DEFINE m == Cardinality(Versions)
  <2>1. Versions = 1..m /\ installed \in Versions  BY StoresAssumption DEF StoresInv, StoresType
  <2> HIDE DEF m
  <2>2. 0 \notin 1..m  OBVIOUS
  <2> QED  BY <2>1, <2>2
<1>8. new # NoScan
  <2> HIDE DEF n
  <2>1. NoScan.version = 0  BY DEF NoScan
  <2> QED  BY <1>6, <1>7, <2>1
<1>9. new \in Rewritten(n.read, new) /\ new \in next /\ next \subseteq Rewritten(n.read, new)
  <2> HIDE DEF n
  <2>1. new \in Rewritten(n.read, new)  BY DEF Rewritten
  <2>2. ASSUME NEW t \in Rewritten(n.read, new)  PROVE ~ (t.at > new.at)
    <3>1. new.at \in Nat  BY <1>4 DEF Summary
    <3>2. CASE t = new  BY <3>1, <3>2
    <3>3. CASE t \in n.read
      <4>1. t.at \in Nat /\ t.at <= new.at  BY <1>4, <1>6, <3>3 DEF NoneAfter, Summary
      <4> QED  BY <3>1, <4>1
    <3> QED  BY <3>2, <3>3 DEF Rewritten
  <2> QED  BY <2>1, <2>2, KeptNewest
<1>10. summaries' \in SUBSET Summary /\ OnePerName(summaries') /\ NoneAfter(summaries', clock' + 1)
  <2>1. summaries \in SUBSET Summary /\ OnePerName(summaries) /\ NoneAfter(summaries, clock + 1)
    BY DEF ListsType, ListsInv
  <2> HIDE DEF n
  <2>2. CASE summaries' = summaries
    <3>1. ASSUME NEW s \in summaries  PROVE s.at <= clock' + 1
      <4>1. s.at \in Nat /\ s.at <= clock + 1  BY <2>1 DEF NoneAfter, Summary
      <4> QED  BY <1>5, <4>1
    <3> QED  BY <2>1, <2>2, <3>1 DEF NoneAfter
  <2>3. CASE summaries' = next
    <3>1. next \in SUBSET Summary
      <4>1. Rewritten(n.read, new) \in SUBSET Summary
        <5> HIDE DEF Summary
        <5> QED  BY <1>4 DEF Rewritten
      <4> HIDE DEF Summary, next
      <4> QED  BY <1>9, <4>1
    <3>2. OnePerName(Rewritten(n.read, new))
      BY <1>6 DEF OnePerName, Rewritten, OfName
    <3>3. ASSUME NEW s \in Rewritten(n.read, new)  PROVE s.at <= clock' + 1
      <4>1. new.at \in Nat  BY <1>4 DEF Summary
      <4>2. CASE s = new  BY <1>5, <1>6, <4>1, <4>2
      <4>3. CASE s \in n.read
        <5>1. s.at \in Nat /\ s.at <= new.at  BY <1>4, <1>6, <4>3 DEF NoneAfter, Summary
        <5> QED  BY <1>5, <1>6, <4>1, <5>1
      <4> QED  BY <4>2, <4>3 DEF Rewritten
    <3> HIDE DEF next
    <3>4. OnePerName(next) /\ NoneAfter(next, clock' + 1)
      BY <1>9, <3>2, <3>3 DEF OnePerName, NoneAfter
    <3> QED  BY <2>3, <3>1, <3>4
  <2> QED  BY <1>1, <2>2, <2>3
<1>11. ListsType'
  <2>1. noting' \in [Hosts -> Jobs]
    <3>1. Nothing \in Jobs /\ [at |-> "recording"] \in Jobs  BY DEF Jobs
    <3> HIDE DEF Jobs, n
    <3> QED  BY <1>1, <3>1 DEF ListsType
  <2>2. last' = NoScan \/ (last' \in Summary /\ last'.name = "plug")
    <3> HIDE DEF n, Summary
    <3> QED  BY <1>1, <1>4 DEF ListsType
  <2>3. spoiled' \in BOOLEAN  BY <1>1
  <2> HIDE DEF Summary, Jobs
  <2> QED  BY <1>2, <1>10, <2>1, <2>2, <2>3 DEF ListsType
<1>12. ASSUME NEW g \in Hosts  PROVE JobInv(g)'
  <2>1. JobInv(g)  BY DEF ListsInv
  <2>2. CASE g = h
    <3>1. noting'[g] = IF n.via = "load" THEN [at |-> "recording"] ELSE Nothing
      <4> HIDE DEF n
      <4> QED  BY <1>1, <2>2 DEF ListsType
    <3> HIDE DEF n
    <3>2. CASE n.via = "load"
      <4>1. noting'[g].at = "recording" /\ last' = new  BY <1>1, <1>6, <3>1, <3>2
      <4> QED  BY <1>1, <1>6, <1>8, <2>2, <4>1 DEF JobInv
    <3>3. CASE n.via # "load"
      <4>1. noting'[g].at = "none"  BY <3>1, <3>3 DEF Nothing
      <4> QED  BY <1>1, <1>6, <2>2, <4>1 DEF JobInv
    <3> QED  BY <3>2, <3>3
  <2>3. CASE g # h
    <3>1. noting'[g] = noting[g]  BY <1>1, <2>3 DEF ListsType
    <3>2. ~ spoiled' => ~ spoiled  BY <1>1
    <3>3. noting[g].at = "recording" => last' # NoScan /\ last'.version = installed
      <4> HIDE DEF n
      <4> QED  BY <1>1, <1>6, <1>8, <2>1 DEF JobInv
    <3>4. noting[g].at = "noting" => noting[g].new.at <= clock' + 1
      <4> SUFFICES ASSUME noting[g].at = "noting"  PROVE noting[g].new.at <= clock' + 1  OBVIOUS
      <4>1. noting[g] \in Pending
        <5>1. noting[g] \in Jobs  BY DEF ListsType
        <5> HIDE DEF Pending
        <5> QED  BY <5>1 DEF Jobs, Nothing
      <4>2. noting[g].new \in Summary  BY <4>1 DEF Pending
      <4>3. noting[g].new.at \in Nat  BY <4>2 DEF Summary
      <4>4. noting[g].new.at <= clock + 1  BY <2>1 DEF JobInv
      <4> QED  BY <1>5, <4>3, <4>4
    <3>5. \A v, a : Onward(v, a)' <=> Onward(v, a)  BY <1>1 DEF Onward
    <3> HIDE DEF n
    <3> QED  BY <1>1, <2>1, <3>1, <3>2, <3>3, <3>4, <3>5 DEF JobInv
  <2> QED  BY <2>2, <2>3
<1>13. ASSUME ~ spoiled'  PROVE PlugsInv' /\ LeftInv'
  <2>1. ~ spoiled /\ ~ fault /\ n.seen = summaries  BY <1>1, <1>13
  <2>2. n.read = summaries /\ Onward(installed, new.at) /\ PlugsInv /\ LeftInv
    BY <1>6, <2>1 DEF ListsInv
  <2>3. OnePerName(summaries) /\ NoneAfter(summaries, new.at) /\ summaries \in SUBSET Summary
    BY <1>6, <2>1 DEF ListsType
  <2>4. \A v, a : Onward(v, a)' <=> Onward(v, a)  BY <1>1 DEF Onward
  <2>5. ASSUME NEW s \in old  PROVE [s EXCEPT !.at = new.at] = new <=> SameFinding(s, new)
    <3>1. s \in Summary  BY <1>4 DEF OfName
    <3> HIDE DEF n
    <3> QED  BY <1>4, <3>1, SameSummary
  <2>6. changed <=> \A s \in old : ~ SameFinding(s, new)
    <3> HIDE DEF old, n
    <3> QED  BY <2>5 DEF Changed
  <2>7. CASE new.name = "plug"
    <3>1. last' = new  BY <1>1, <2>7
    <3>2. CASE changed
      <4>1. summaries' = next  BY <1>1, <2>1, <3>2
      <4> HIDE DEF n
      <4>2. \A s \in Rewritten(n.read, new) : s.name = "plug" => s = new
        BY <2>7 DEF Rewritten, OfName
      <4>3. \A s \in OfName(next, "plug") : s = new  BY <1>9, <4>2 DEF OfName
      <4>4. new \in OfName(next, "plug")  BY <1>9, <2>7 DEF OfName
      <4> HIDE DEF next
      <4>5. SameFinding(new, new) /\ Onward(new.version, new.at)  BY <1>6, <2>2 DEF SameFinding
      <4>6. PlugsInv'  BY <1>8, <2>4, <3>1, <4>1, <4>3, <4>5 DEF PlugsInv
      <4>7. LeftInv'  BY <4>1, <4>4 DEF LeftInv
      <4> QED  BY <4>6, <4>7
    <3>3. CASE ~ changed
      <4>1. summaries' = summaries  BY <1>1, <3>3
      <4>2. PICK p \in old : SameFinding(p, new)  BY <2>6, <3>3
      <4>3. p \in OfName(summaries, "plug")  BY <2>2, <2>7
      <4>4. \A s \in OfName(summaries, "plug") : s = p  BY <2>3, <4>3 DEF OnePerName, OfName
      <4>5. Onward(p.version, p.at)  BY <2>2, <4>3 DEF PlugsInv
      <4> HIDE DEF n, old, changed
      <4>6. PlugsInv'  BY <1>8, <2>4, <3>1, <4>1, <4>2, <4>4, <4>5 DEF PlugsInv
      <4>7. LeftInv'  BY <4>1, <4>3 DEF LeftInv
      <4> QED  BY <4>6, <4>7
    <3> QED  BY <3>2, <3>3
  <2>8. CASE new.name # "plug"
    <3>1. last' = last /\ new.name = "other"  BY <1>1, <1>4, <2>8 DEF Summary
    <3>2. CASE changed
      <4>1. summaries' = next  BY <1>1, <2>1, <3>2
      <4> HIDE DEF n
      <4>2. OfName(next, "plug") \subseteq OfName(summaries, "plug")
        BY <1>9, <2>2, <3>1 DEF OfName, Rewritten
      <4>3. last # NoScan => OfName(next, "plug") # {} \/ (MostKept = 1 /\ \E o : next = {o})
        BY <1>4, <2>2, <2>3, <3>1, OtherLeavesRoom DEF LeftInv
      <4> HIDE DEF next
      <4>4. PlugsInv'  BY <2>2, <2>4, <3>1, <4>1, <4>2 DEF PlugsInv
      <4>5. LeftInv'  BY <3>1, <4>1, <4>3 DEF LeftInv
      <4> QED  BY <4>4, <4>5
    <3>3. CASE ~ changed
      <4>1. summaries' = summaries  BY <1>1, <3>3
      <4> QED  BY <2>2, <2>4, <3>1, <4>1 DEF PlugsInv, LeftInv
    <3> QED  BY <3>2, <3>3
  <2> QED  BY <2>7, <2>8
<1>14. ListsInv'  BY <1>10, <1>12, <1>13 DEF ListsInv
<1> QED  BY <1>2, <1>11, <1>14 DEF ListsKept

\* A job in the types, as it says what it is.
LEMMA PendingIs ==
    ASSUME ListsType, NEW g \in Hosts, noting[g].at = "noting"
    PROVE  noting[g] \in Pending /\ noting[g].new.at \in Nat
<1>1. noting[g] \in Pending
  <2>1. noting[g] \in Jobs  BY DEF ListsType
  <2> HIDE DEF Pending
  <2> QED  BY <2>1 DEF Jobs, Nothing
<1>2. noting[g].new \in Summary  BY <1>1 DEF Pending
<1> QED  BY <1>1, <1>2 DEF Summary

\* Time passes: the job is still in order, when the capabilities follow.
LEMMA JobLater ==
    ASSUME ListsType, NEW g \in Hosts, JobInv(g), clock \in Nat,
           clock' = clock \/ clock' = clock + 1,
           UNCHANGED <<installed, last>>, noting'[g] = noting[g], doing'[g] = doing[g],
           spoiled => spoiled',
           \A at : ~ spoiled' /\ Onward(installed, at) => Onward(installed, at)'
    PROVE  JobInv(g)'
<1>1. ASSUME noting[g].at = "noting"  PROVE noting[g].new.at <= clock' + 1
  <2>1. noting[g].new.at \in Nat  BY <1>1, PendingIs
  <2>2. noting[g].new.at <= clock + 1  BY <1>1 DEF JobInv
  <2> QED  BY <2>1, <2>2
<1> QED  BY <1>1 DEF JobInv

\* A step that leaves the summaries: they are still in order.
LEMMA SummariesLater ==
    ASSUME StoresInv, ListsType, ListsInv, UNCHANGED <<summaries, last>>,
           clock' = clock \/ clock' = clock + 1, spoiled => spoiled',
           \A s \in OfName(summaries, "plug") : ~ spoiled' /\ SameFinding(s, last) /\ Onward(s.version, s.at)
             => Onward(s.version, s.at)'
    PROVE  OnePerName(summaries)' /\ NoneAfter(summaries, clock + 1)' /\ (~ spoiled' => PlugsInv' /\ LeftInv')
<1>1. clock \in Nat  BY DEF StoresInv, StoresType
<1>2. ASSUME NEW s \in summaries  PROVE s.at <= clock' + 1
  <2>1. s.at \in Nat  BY DEF ListsType, Summary
  <2>2. s.at <= clock + 1  BY DEF ListsInv, NoneAfter
  <2> QED  BY <1>1, <2>1, <2>2
<1>3. OnePerName(summaries)' /\ NoneAfter(summaries, clock + 1)'
  BY <1>2 DEF ListsInv, OnePerName, NoneAfter
<1>4. ASSUME ~ spoiled'  PROVE PlugsInv' /\ LeftInv'
  <2>1. PlugsInv /\ LeftInv  BY <1>4 DEF ListsInv
  <2> QED  BY <1>4, <2>1 DEF PlugsInv, LeftInv
<1> QED  BY <1>3, <1>4

\* A scan goes on with the capabilities.
LEMMA RecordKept ==
    ASSUME StoresInv, ListsType, ListsInv, NEW h \in Hosts, NEW fault \in BOOLEAN, Record(h, fault)
    PROVE  ListsKept
<1>1. /\ UNCHANGED <<installed, caps, clock, summaries, noting, last>>
      /\ noting[h].at = "recording" /\ spoiled' = (spoiled \/ fault)
  BY DEF Record, LoadCaps
<1>2. budget' \in [Purposes -> Nat] /\ budget'.lists = budget.lists
  <2>1. "scans" \in Purposes \ {"lists"}  BY DEF Purposes
  <2>2. Spend("scans", fault)  BY DEF Record, LoadCaps
  <2> QED  BY <2>1, <2>2, SpentIs DEF ListsType
<1>3. ListsType'
  <2> HIDE DEF Summary, Jobs
  <2> QED  BY <1>1, <1>2 DEF ListsType
<1>4. clock \in Nat  BY DEF StoresInv, StoresType
<1>5. \A v, a : Onward(v, a)' <=> Onward(v, a)  BY <1>1 DEF Onward
<1>6. ASSUME NEW g \in Hosts  PROVE JobInv(g)'
  <2>1. JobInv(g)  BY DEF ListsInv
  <2>2. CASE g # h
    <3>1. doing'[g] = doing[g]  BY <2>2 DEF Record, LoadCaps, StoresInv, StoresType
    <3> QED  BY <1>1, <1>4, <1>5, <2>1, <3>1, JobLater
  <2>3. CASE g = h
    <3>1. doing'[g].to = installed
      BY <2>3 DEF Record, LoadCaps, StoresInv, StoresType
    <3> QED  BY <1>1, <2>1, <2>3, <3>1 DEF JobInv
  <2> QED  BY <2>2, <2>3
<1>7. ListsInv'
  BY <1>1, <1>5, <1>6, SummariesLater DEF ListsInv
<1> QED  BY <1>2, <1>3, <1>7 DEF ListsKept

\* A scan ends: the capabilities are of the installed version now.
LEMMA EndKept ==
    ASSUME StoresInv, ListsType, ListsInv, NEW h \in Hosts, NEW fault \in BOOLEAN, EndRecord(h, fault)
    PROVE  ListsKept
<1>1. /\ UNCHANGED <<installed, summaries, last>> /\ clock' = clock + 1
      /\ noting' = [noting EXCEPT ![h] = Nothing] /\ doing' = [doing EXCEPT ![h] = Idle]
      /\ noting[h].at = "recording" /\ spoiled' = (spoiled \/ fault \/ doing[h].seen # caps)
      /\ doing[h].op = "scan" /\ SaveCaps(h, fault)
  BY DEF EndRecord, SaveCaps
<1>2. budget' \in [Purposes -> Nat] /\ budget'.lists = budget.lists
  <2>1. Fault(fault)  BY <1>1 DEF SaveCaps
  <2> QED  BY <2>1, FaultIs DEF ListsType
<1>3. ListsType'
  <2>1. noting' \in [Hosts -> Jobs]
    <3>1. Nothing \in Jobs  BY DEF Jobs
    <3> HIDE DEF Jobs
    <3> QED  BY <1>1, <3>1 DEF ListsType
  <2> HIDE DEF Summary, Jobs
  <2> QED  BY <1>1, <1>2, <2>1 DEF ListsType
<1>4. clock \in Nat  BY DEF StoresInv, StoresType
<1>5. JobInv(h)  BY DEF ListsInv
<1>6. doing[h].to = installed /\ last.version = installed  BY <1>1, <1>5 DEF JobInv
<1>7. ~ spoiled' => Latest(caps'.recs).version = installed
  <2>1. ~ spoiled' => ~ fault  BY <1>1
  <2> QED  BY <1>1, <1>6, <2>1, LatestIsOwn
<1>8. \A at : ~ spoiled' => Onward(installed, at)'  BY <1>1, <1>7 DEF Onward
<1>9. ASSUME NEW g \in Hosts  PROVE JobInv(g)'
  <2>1. JobInv(g)  BY DEF ListsInv
  <2>2. CASE g # h
    <3>1. doing'[g] = doing[g] /\ noting'[g] = noting[g]
      BY <1>1, <2>2 DEF ListsType, StoresInv, StoresType
    <3> QED  BY <1>1, <1>4, <1>8, <2>1, <3>1, JobLater
  <2>3. CASE g = h
    <3>1. doing'[g] = Idle /\ noting'[g] = Nothing
      BY <1>1, <2>3 DEF ListsType, StoresInv, StoresType
    <3> QED  BY <3>1, SilentFiles DEF JobInv, Nothing
  <2> QED  BY <2>2, <2>3
<1>10. ASSUME NEW s, ~ spoiled', SameFinding(s, last)  PROVE Onward(s.version, s.at)'
  <2>1. s.version = installed  BY <1>6, <1>10 DEF SameFinding
  <2>2. Onward(installed, s.at)'  BY <1>8, <1>10
  <2> QED  BY <1>1, <1>7, <1>10, <2>1 DEF Onward
<1>11. ListsInv'
  BY <1>1, <1>9, <1>10, SummariesLater DEF ListsInv
<1> QED  BY <1>2, <1>3, <1>11 DEF ListsKept

\* A scan has nothing to record, or the process stops.
LEMMA SkipKept ==
    ASSUME StoresInv, ListsType, ListsInv, NEW h \in Hosts, SkipRecord(h) \/ Stop(h)
    PROVE  ListsKept
<1>1. /\ UNCHANGED <<installed, caps, summaries, last>> /\ (clock' = clock \/ clock' = clock + 1)
      /\ noting' = [noting EXCEPT ![h] = Nothing] /\ (spoiled => spoiled') /\ spoiled' \in BOOLEAN
      /\ doing' = doing \/ doing' = [doing EXCEPT ![h] = Idle]
  BY DEF SkipRecord, Stop, Restart, stores, ListsType
<1>2. budget' \in [Purposes -> Nat] /\ budget'.lists = budget.lists
  <2>1. "scans" \in Purposes \ {"lists"} /\ "restarts" \in Purposes \ {"lists"}  BY DEF Purposes
  <2>2. Spend("scans", FALSE) \/ Spend("restarts", FALSE)  BY DEF SkipRecord, Stop, Restart
  <2> QED  BY <2>1, <2>2, SpentIs DEF ListsType
<1>3. ListsType'
  <2>1. noting' \in [Hosts -> Jobs]
    <3>1. Nothing \in Jobs  BY DEF Jobs
    <3> HIDE DEF Jobs
    <3> QED  BY <1>1, <3>1 DEF ListsType
  <2> HIDE DEF Summary, Jobs
  <2> QED  BY <1>1, <1>2, <2>1 DEF ListsType
<1>4. clock \in Nat  BY DEF StoresInv, StoresType
<1>5. \A v, a : Onward(v, a)' <=> Onward(v, a)  BY <1>1 DEF Onward
<1>6. ASSUME NEW g \in Hosts  PROVE JobInv(g)'
  <2>1. JobInv(g)  BY DEF ListsInv
  <2>2. CASE g # h
    <3>1. doing'[g] = doing[g] /\ noting'[g] = noting[g]
      BY <1>1, <2>2 DEF ListsType, StoresInv, StoresType
    <3> QED  BY <1>1, <1>4, <1>5, <2>1, <3>1, JobLater
  <2>3. CASE g = h
    <3>1. noting'[g] = Nothing  BY <1>1, <2>3 DEF ListsType
    <3>2. doing'[g].op # "scan"
      <4>1. CASE SkipRecord(h)  BY <2>3, <4>1 DEF SkipRecord, FreeOf, stores
      <4>2. CASE Stop(h)
        <5>1. doing'[g] = Idle  BY <2>3, <4>2 DEF Stop, Restart, StoresInv, StoresType
        <5> QED  BY <5>1, SilentFiles
      <4> QED  BY <4>1, <4>2
    <3> QED  BY <3>1, <3>2 DEF JobInv, Nothing
  <2> QED  BY <2>2, <2>3
<1>7. ListsInv'
  BY <1>1, <1>5, <1>6, SummariesLater DEF ListsInv
<1> QED  BY <1>2, <1>3, <1>7 DEF ListsKept

\* The plugin is replaced between scans.
LEMMA InstallKept ==
    ASSUME StoresInv, ListsType, ListsInv, NEW v \in Versions, Install(v)
    PROVE  ListsKept
<1>1. /\ UNCHANGED <<caps, doing, clock, budget, summaries, noting, last, spoiled>>
      /\ \A g \in Hosts : noting[g] = Nothing
  BY DEF Install, Upgrade, stores, lists
<1>2. ListsType' /\ budget'.lists = budget.lists
  <2> HIDE DEF Summary, Jobs
  <2> QED  BY <1>1 DEF ListsType
<1>3. ASSUME NEW g \in Hosts  PROVE JobInv(g)'
  <2>1. JobInv(g)  BY DEF ListsInv
  <2> QED  BY <1>1, <2>1 DEF JobInv, Nothing
<1>4. \A w, a : Onward(w, a)' <=> Onward(w, a)  BY <1>1 DEF Onward
<1>5. ListsInv'
  BY <1>1, <1>3, <1>4, SummariesLater DEF ListsInv
<1> QED  BY <1>2, <1>5 DEF ListsKept

\* The capabilities are edited.
LEMMA EditKept ==
    ASSUME StoresInv, ListsType, ListsInv, NEW wipe \in BOOLEAN, EditCaps(wipe)
    PROVE  ListsKept
<1>1. UNCHANGED <<installed, doing, clock, summaries, noting, last>> /\ spoiled' = TRUE
  BY DEF EditCaps, Edit
<1>2. budget' \in [Purposes -> Nat] /\ budget'.lists = budget.lists
  <2>1. "edits" \in Purposes \ {"lists"}  BY DEF Purposes
  <2>2. Spend("edits", FALSE)  BY DEF EditCaps, Edit
  <2> QED  BY <2>1, <2>2, SpentIs DEF ListsType
<1>3. ListsType'
  <2> HIDE DEF Summary, Jobs
  <2> QED  BY <1>1, <1>2 DEF ListsType
<1>4. clock \in Nat  BY DEF StoresInv, StoresType
<1>5. ASSUME NEW g \in Hosts  PROVE JobInv(g)'
  <2>1. JobInv(g)  BY DEF ListsInv
  <2> QED  BY <1>1, <1>4, <2>1, JobLater
<1>6. ListsInv'
  BY <1>1, <1>5, SummariesLater DEF ListsInv
<1> QED  BY <1>2, <1>3, <1>6 DEF ListsKept

\* Each step with lists keeps them.
LEMMA StepKept ==
    ASSUME StoresInv, ListsType, ListsInv, Step
    PROVE  ListsKept
<1>1. ASSUME NEW h \in Hosts, NEW fault \in BOOLEAN, NEW finding \in Verdicts[installed],
             NEW via \in {"load", "gate"}, NoteScan(h, "plug", via, finding, fault)
      PROVE  ListsKept
  <2>1. installed \in Versions  BY DEF StoresInv, StoresType
  <2>2. finding \in [verdict : VerdictKinds, codes : SUBSET STRING]
    <3> DEFINE T == [verdict : VerdictKinds, codes : SUBSET STRING]
    <3>1. Verdicts \in [Versions -> SUBSET T]  BY ListsAssumption DEF VerdictKinds
    <3> HIDE DEF T
    <3>2. finding \in T  BY <2>1, <3>1
    <3> QED  BY <3>2 DEF T
  <2> QED  BY <1>1, <2>2, NotedKept
<1>2. ASSUME NEW h \in Hosts, NEW fault \in BOOLEAN,
             NoteScan(h, "other", "gate", [verdict |-> "clean", codes |-> {}], fault)
      PROVE  ListsKept
  <2>1. [verdict |-> "clean", codes |-> {}] \in [verdict : VerdictKinds, codes : SUBSET STRING]
    BY DEF VerdictKinds
  <2> QED  BY <1>2, <2>1, NotedKept
<1> QED  BY <1>1, <1>2, SummaryKept, RecordKept, EndKept, SkipKept, InstallKept, EditKept DEF Step

\* The inductive invariant of the stores and the lists.
LEMMA AllInvariant == ListsSpec => []AllInv
<1>1. ListsInit => AllInv
  <2> SUFFICES ASSUME ListsInit  PROVE AllInv  OBVIOUS
  <2>1. StoresInv
    BY RecordsInit, TamperInit DEF ListsInit, Init, Silent, StoresInv, TamperNamed
  <2>2. ListsType
    <3>1. Nothing \in Jobs  BY DEF Jobs
    <3>2. budget \in [Purposes -> Nat]  BY StoresAssumption DEF ListsInit, Init, Purposes
    <3> HIDE DEF Jobs, Summary
    <3> QED  BY <3>1, <3>2 DEF ListsInit, ListsType
  <2>3. last = NoScan /\ summaries = {} /\ \A h \in Hosts : noting[h] = Nothing /\ doing[h] = Idle
    BY DEF ListsInit, Init
  <2>4. ListsInv
    BY <2>3, SilentFiles DEF ListsInv, OnePerName, NoneAfter, JobInv, PlugsInv, LeftInv, OfName, Nothing
  <2> QED  BY <2>1, <2>2, <2>3, <2>4 DEF AllInv
<1>2. AllInv /\ [ListsNext]_allVars => AllInv'
  <2> SUFFICES ASSUME AllInv, [ListsNext]_allVars  PROVE AllInv'  OBVIOUS
  <2>1. StoreStep  BY StepsOfStores
  <2>2. StoresInv'  BY <2>1, TypesKept, RecordsKept, TamperKept, NamedStep DEF AllInv, StoresInv
  <2>3. CASE UNCHANGED allVars
    <3>1. UNCHANGED <<installed, caps, doing, clock, budget, summaries, noting, last, spoiled>>
      BY <2>3 DEF allVars, vars, stores, lists
    <3>2. ListsType' /\ budget' = budget /\ last' = last
      <4> HIDE DEF Jobs, Summary
      <4> QED  BY <3>1 DEF AllInv, ListsType
    <3>3. ListsInv => ListsInv'
      BY <3>1 DEF ListsInv, OnePerName, NoneAfter, JobInv, PlugsInv, LeftInv, Onward
    <3> QED  BY <2>2, <3>2, <3>3 DEF AllInv
  <2>4. CASE budget.lists = 0 /\ Next /\ UNCHANGED lists
    <3>1. UNCHANGED <<summaries, noting, last, spoiled>>  BY <2>4 DEF lists
    <3>2. budget' \in [Purposes -> Nat] /\ budget'.lists = 0
      BY <2>4, StoresSpend DEF AllInv, ListsType
    <3>3. ListsType'
      <4> HIDE DEF Jobs, Summary
      <4> QED  BY <3>1, <3>2 DEF AllInv, ListsType
    <3> QED  BY <2>2, <2>4, <3>1, <3>2, <3>3 DEF AllInv
  <2>5. CASE budget.lists = 1 /\ Step
    <3>1. ListsKept  BY <2>5, StepKept DEF AllInv
    <3> QED  BY <2>2, <2>5, <3>1 DEF AllInv, ListsKept
  <2> QED  BY <2>3, <2>4, <2>5 DEF ListsNext
<1> QED  BY <1>1, <1>2, PTL DEF ListsSpec

\* What the panel shows of the plugin, when its last finding is on file.
LEMMA ShownIs ==
    ASSUME AllInv, PlugsInv, NEW s \in OfName(summaries, "plug")
    PROVE  Shown.version = last.version /\ (Shown.pending = "no" <=> last.version \in Audited)
<1> DEFINE sums == OfName(summaries, "plug")
           seen == Seen(caps.recs, sums)
           capable == [version |-> Latest(caps.recs).version, verdict |-> "none",
                       first |-> Earliest(caps.recs).at, at |-> Latest(caps.recs).at]
           x == CHOOSE x \in sums : TRUE
<1>1. x \in sums  OBVIOUS
<1>2. SameFinding(x, last) /\ Onward(x.version, x.at) /\ last # NoScan  BY <1>1 DEF PlugsInv
<1>3. x.version = last.version  BY <1>2 DEF SameFinding
<1>4. seen.version = last.version
  <2>1. CASE caps.recs = {}
    <3>1. seen = [version |-> x.version, verdict |-> x.verdict, first |-> x.at, at |-> x.at]
      BY <2>1 DEF Seen
    <3> HIDE DEF seen, x
    <3> QED  BY <1>3, <3>1
  <2>2. CASE caps.recs # {} /\ x.at > capable.at
    <3>1. seen = [capable EXCEPT !.version = x.version, !.verdict = x.verdict, !.at = x.at]
      BY <2>2 DEF Seen
    <3> HIDE DEF seen, x
    <3> QED  BY <1>3, <3>1
  <2>3. CASE caps.recs # {} /\ ~ (x.at > capable.at)
    <3>1. seen = [capable EXCEPT !.first = IF x.at < @ THEN x.at ELSE @]
      BY <2>3 DEF Seen
    <3>2. seen.version = Latest(caps.recs).version
      <4> HIDE DEF seen, x
      <4> QED  BY <3>1
    <3>3. Latest(caps.recs).version = x.version
      <4> HIDE DEF x
      <4> QED  BY <1>2, <2>3 DEF Onward
    <3> QED  BY <1>3, <3>2, <3>3
  <2> QED  BY <2>1, <2>2, <2>3
<1>5. last.version \in Versions /\ 0 \notin Versions
  <2> DEFINE m == Cardinality(Versions)
  <2>1. Versions = 1..m  BY StoresAssumption
  <2>2. last \in Summary  BY <1>2 DEF AllInv, ListsType
  <2>3. last.version \in Versions  BY <2>2 DEF Summary
  <2> HIDE DEF m
  <2>4. 0 \notin 1..m  OBVIOUS
  <2> QED  BY <2>1, <2>3, <2>4
<1>6. seen # Unseen
  <2>1. Unseen.version = 0  BY DEF Unseen
  <2> HIDE DEF seen
  <2> QED  BY <1>4, <1>5, <2>1
<1>7. Shown.version = seen.version  BY DEF Shown
<1>8. Shown.pending = IF HasRecord(seen.version) THEN "no"
                      ELSE IF seen.verdict \in {"critical", "suspicious"} THEN "in doubt" ELSE "no record"
  BY <1>6 DEF Shown
<1> HIDE DEF seen
<1> QED  BY <1>4, <1>7, <1>8 DEF HasRecord

\* Between scans, when nothing failed and nobody wrote in between, the file has the
\* last finding of the plugin and the panel lists it so.
THEOREM ListsAreRight == ListsSpec => []ListsFollowScans
<1>1. AllInv => ListsFollowScans
  <2> SUFFICES ASSUME AllInv, last # NoScan, ~ spoiled
               PROVE  ListsFollowScans
    BY DEF ListsFollowScans
  <2> DEFINE plugs == OfName(summaries, "plug")
             onFile == \E s \in plugs : [s EXCEPT !.at = last.at] = last
             left == plugs = {} /\ Cardinality(summaries) = MostKept
  <2>1. budget.lists = 1 => PlugsInv /\ LeftInv  BY DEF AllInv, ListsInv
  <2>2. CASE budget.lists = 1
    <3>1. PlugsInv /\ LeftInv  BY <2>1, <2>2
    <3>2. last \in Summary  BY DEF AllInv, ListsType
    <3>3. ASSUME NEW s \in plugs  PROVE [s EXCEPT !.at = last.at] = last
      <4>1. s \in Summary /\ SameFinding(s, last)  BY <3>1 DEF AllInv, ListsType, OfName, PlugsInv
      <4> QED  BY <3>2, <4>1, SameSummary
    <3>4. onFile \/ left
      <4>1. CASE plugs # {}  BY <3>3, <4>1
      <4>2. CASE plugs = {}
        <5>1. MostKept = 1 /\ \E o : summaries = {o}  BY <3>1, <4>2 DEF LeftInv
        <5>2. Cardinality(summaries) = 1  BY <5>1, FS_Singleton
        <5> QED  BY <4>2, <5>1, <5>2
      <4> QED  BY <4>1, <4>2
    <3>5. ASSUME onFile
          PROVE  Shown.version = last.version /\ (Shown.pending = "no" <=> last.version \in Audited)
      <4>1. PICK s \in plugs : TRUE  BY <3>5
      <4> HIDE DEF onFile
      <4> QED  BY <3>1, ShownIs
    <3> QED  BY <3>4, <3>5 DEF ListsFollowScans
  <2>3. CASE budget.lists # 1  BY <2>3 DEF AllInv
  <2> QED  BY <2>2, <2>3
<1> QED  BY <1>1, AllInvariant, PTL

=============================================================================
