------------------------- MODULE ExfilLedgerProofs -------------------------
(***************************************************************************)
(* Proofs about ExfilLedger, for any events, windows and thresholds and    *)
(* any cap.                                                                *)
(*                                                                         *)
(* The argument: whatever a row remembers, a time or an entry of an array, *)
(* goes back to an event of the log, also after rows were dropped.  The    *)
(* bound of the arrays needs that the entries of an array have different   *)
(* numbers, which is why the events are numbered by the log.  An alarm of  *)
(* destruction is read off arrays that were just swept: their entries are  *)
(* different events of the window, or events on different paths, so no     *)
(* counter exceeds what the log shows.                                     *)
(*                                                                         *)
(* Conversely, the latest Cap events of a kind have their entries as long  *)
(* as they are in the window: a push loses an entry only for Cap newer     *)
(* ones, and a row is dropped only when all of its events are out of every *)
(* window.  Thresholds are within the cap, so what the log shows meets     *)
(* them in the counters too.                                               *)
(***************************************************************************)
EXTENDS ExfilLedger, TLAPS, FiniteSetTheorems, WellFoundedInduction

\* An array of a row after n events.
Array(S, n) ==
    /\ S \subseteq Entry /\ IsFiniteSet(S) /\ Cardinality(S) <= Cap
    /\ \A x \in S : x.id <= n
    /\ \A x, y \in S : x.id = y.id => x = y

FileArrays(r, n) ==
    /\ Array(r.deletes, n) /\ Array(r.renames, n) /\ Array(r.writes, n)
    /\ Array(r.inPlace, n) /\ Array(r.small, n) /\ Array(r.writeDeletes, n)

HostArrays(r, n) == Array(r.spawns, n) /\ Array(r.nets, n)

-----------------------------------------------------------------------------
(* Arrays.                                                                 *)

\* Among some numbers there is a least one.
LEMMA LeastOf ==
    ASSUME NEW T, T \subseteq Nat, T # {}
    PROVE  \E k \in T : \A j \in T : k <= j
<1> DEFINE R == {ss \in Nat \X Nat : ss[1] < ss[2]}
<1>1. IsWellFoundedOn(R, Nat)  BY NatLessThanWellFounded DEF OpToRel
<1> HIDE DEF R
<1>2. PICK k \in T : \A j \in T : ~ (<<j, k>> \in R)  BY <1>1, WFMin
<1>3. \A j \in T : j < k => <<j, k>> \in R  BY DEF R
<1>4. \A j \in T : ~ (j < k)  BY <1>2, <1>3
<1>5. \A j \in T : j \in Nat /\ k \in Nat  OBVIOUS
<1> QED  BY <1>4, <1>5

LEMMA ArrayEmpty ==
    ASSUME NEW n \in Nat
    PROVE  Array({}, n)
BY FS_EmptySet, LedgerAssumption DEF Array

LEMMA ArrayGrows ==
    ASSUME NEW n \in Nat, NEW S, Array(S, n)
    PROVE  Array(S, n + 1)
<1>1. \A x \in S : x.id \in Nat  BY DEF Array, Entry
<1> QED  BY <1>1 DEF Array

LEMMA ArraySubset ==
    ASSUME NEW n \in Nat, NEW S, Array(S, n), NEW T, T \subseteq S
    PROVE  Array(T, n)
<1>1. IsFiniteSet(S) /\ Cardinality(S) <= Cap  BY DEF Array
<1>2. IsFiniteSet(T) /\ Cardinality(T) <= Cardinality(S)  BY <1>1, FS_Subset
<1>3. Cardinality(T) \in Nat /\ Cardinality(S) \in Nat /\ Cap \in Nat
  BY <1>1, <1>2, FS_CardinalityType, LedgerAssumption
<1>4. Cardinality(T) <= Cap  BY <1>1, <1>2, <1>3
<1> QED  BY <1>2, <1>4 DEF Array

LEMMA ArrayRecent ==
    ASSUME NEW n \in Nat, NEW S, Array(S, n), NEW w
    PROVE  Array(Recent(S, w), n) /\ Recent(S, w) \subseteq S
<1>1. Recent(S, w) \subseteq S  BY DEF Recent
<1> QED  BY <1>1, ArraySubset

\* The cap holds after a push: all but the oldest entry that is kept are newer
\* than it.
LEMMA ArrayPush ==
    ASSUME NEW n \in Nat, NEW S, Array(S, n), NEW e \in Entry, e.id = n + 1
    PROVE  Array(Push(S, e), n + 1) /\ Push(S, e) \subseteq S \cup {e}
<1> DEFINE all == S \cup {e}
           P == Push(S, e)
           newer(x) == {y \in all : y.id > x.id}
<1>1. P = {x \in all : Cardinality(newer(x)) < Cap} /\ P \subseteq all
  BY DEF Push
<1>2. IsFiniteSet(all) /\ all \subseteq Entry  BY FS_AddElement DEF Array
<1>3. \A x \in all : x.id \in Nat  BY <1>2 DEF Entry
<1>4. \A x \in all : x.id <= n + 1
  <2>1. \A x \in S : x.id <= n /\ x.id \in Nat  BY <1>3 DEF Array
  <2> QED  BY <2>1
<1>5. \A x, y \in all : x.id = y.id => x = y
  <2>1. \A x \in S : x.id <= n /\ x.id \in Nat  BY <1>3 DEF Array
  <2>2. \A x \in S : x.id # e.id  BY <2>1
  <2> QED  BY <2>2 DEF Array
<1>6. IsFiniteSet(P)  BY <1>1, <1>2, FS_Subset
<1>7. Cardinality(P) <= Cap
  <2>1. CASE P = {}  BY <2>1, FS_EmptySet, LedgerAssumption
  <2>2. CASE P # {}
    <3> DEFINE T == {x.id : x \in P}
    <3>1. T \subseteq Nat /\ T # {}  BY <1>1, <1>3, <2>2
    <3>2. PICK k \in T : \A j \in T : k <= j
      <4> HIDE DEF T, P
      <4> QED  BY <3>1, LeastOf
    <3>3. PICK first \in P : first.id = k  OBVIOUS
    <3>4. \A x \in P : x # first => x.id > first.id
      <4> SUFFICES ASSUME NEW x \in P, x # first  PROVE x.id > first.id  OBVIOUS
      <4>1. x.id \in T /\ x \in all /\ first \in all  BY <1>1
      <4>2. first.id <= x.id  BY <3>2, <3>3, <4>1
      <4>3. first.id # x.id  BY <1>5, <4>1
      <4>4. x.id \in Nat /\ first.id \in Nat  BY <1>3, <4>1
      <4> QED  BY <4>2, <4>3, <4>4
    <3>5. P \subseteq newer(first) \cup {first}  BY <1>1, <3>4
    <3>6. Cardinality(newer(first)) < Cap  BY <1>1
    <3>7. IsFiniteSet(newer(first))
      <4>1. newer(first) \in SUBSET all  OBVIOUS
      <4> HIDE DEF newer, all
      <4> QED  BY <4>1, <1>2, FS_Subset
    <3> HIDE DEF newer, P, T
    <3>8. /\ IsFiniteSet(newer(first) \cup {first})
          /\ \/ Cardinality(newer(first) \cup {first}) = Cardinality(newer(first))
             \/ Cardinality(newer(first) \cup {first}) = Cardinality(newer(first)) + 1
      BY <3>7, FS_AddElement
    <3>9. Cardinality(P) <= Cardinality(newer(first) \cup {first})
      BY <3>5, <3>8, FS_Subset
    <3>10. Cardinality(P) \in Nat /\ Cardinality(newer(first)) \in Nat /\ Cap \in Nat
      BY <1>6, <3>7, FS_CardinalityType, LedgerAssumption
    <3> QED  BY <3>6, <3>8, <3>9, <3>10
  <2> QED  BY <2>1, <2>2
<1>8. \A x \in P : x \in Entry /\ x.id <= n + 1  BY <1>1, <1>2, <1>4
<1>9. \A x, y \in P : x.id = y.id => x = y  BY <1>1, <1>5
<1> HIDE DEF P, all
<1>10. Array(P, n + 1)  BY <1>6, <1>7, <1>8, <1>9 DEF Array
<1>11. P \subseteq S \cup {e}  BY <1>1 DEF all
<1> QED  BY <1>10, <1>11 DEF P

-----------------------------------------------------------------------------
(* The row, one part of an event at a time.                                *)

LEMMA AsEntryType ==
    ASSUME NEW e \in Events, now \in Nat, NEW n \in Nat
    PROVE  /\ AsEntry(e, n) \in Entry /\ AsEntry(e, n).id = n
           /\ AsEntry(e, n).at = now /\ AsEntry(e, n).on = e.on
BY LedgerAssumption DEF AsEntry, Entry, Event

\* What the file part of an event leaves alone.
SameTokens(q, r) ==
    /\ q.lastSecret = r.lastSecret /\ q.lastSpawn = r.lastSpawn /\ q.lastNet = r.lastNet
    /\ q.spawns = r.spawns /\ q.nets = r.nets

LEMMA TokensFacts ==
    ASSUME NEW e \in Events, now \in Nat, NEW n \in Nat, NEW r \in Row,
           FileArrays(r, n), HostArrays(r, n)
    PROVE  LET q == Tokens(r, e, n + 1) IN
           /\ q \in Row /\ FileArrays(q, n) /\ HostArrays(q, n + 1) /\ q.reads = r.reads
           /\ q.lastSecret = r.lastSecret \/
                (q.lastSecret = now /\ e.op = "read" /\ e.secret /\ e.bytes > 0)
           /\ q.lastSpawn = r.lastSpawn \/ (q.lastSpawn = now /\ e.op = "spawn")
           /\ q.lastNet = r.lastNet /\ q.nets = r.nets
           /\ q.spawns \subseteq r.spawns \cup
                (IF e.op = "spawn" THEN {AsEntry(e, n + 1)} ELSE {})
<1> DEFINE x == AsEntry(e, n + 1)
           pushed == Recent(Push(r.spawns, x), SpawnWindow)
           data == e.op = "read" /\ e.secret /\ e.bytes > 0
           tool == e.op = "spawn"
           a == IF data THEN r.secretBytes + e.bytes ELSE r.secretBytes
           b == IF data THEN now ELSE r.lastSecret
           c == IF tool THEN now ELSE r.lastSpawn
           s == IF tool /\ e.on # "" THEN pushed ELSE r.spawns
           q == Tokens(r, e, n + 1)
<1>1. x \in Entry /\ x.id = n + 1  BY AsEntryType
<1>2. Array(pushed, n + 1) /\ pushed \subseteq r.spawns \cup {x}
  <2>1. /\ Array(Push(r.spawns, x), n + 1) /\ Push(r.spawns, x) \subseteq r.spawns \cup {x}
    BY <1>1, ArrayPush DEF HostArrays
  <2>2. /\ Array(pushed, n + 1) /\ pushed \subseteq Push(r.spawns, x)
    BY <2>1, ArrayRecent
  <2> QED  BY <2>1, <2>2
<1>3. Array(s, n + 1) /\ s \subseteq r.spawns \cup (IF tool THEN {x} ELSE {})
  BY <1>2, ArrayGrows DEF HostArrays
<1>4. Array(r.nets, n + 1)  BY ArrayGrows DEF HostArrays
<1>5. a \in Nat /\ b \in Nat /\ c \in Nat  BY LedgerAssumption DEF Row, Event
<1>6. s \in SUBSET Entry  BY <1>3 DEF Array
<1>7. q = [r EXCEPT !.secretBytes = a, !.lastSecret = b, !.lastSpawn = c, !.spawns = s]
  BY DEF Tokens, Row
<1> HIDE DEF a, s, pushed, x
<1>8. /\ q \in Row /\ q.lastSecret = b /\ q.lastSpawn = c /\ q.spawns = s
      /\ q.lastNet = r.lastNet /\ q.nets = r.nets /\ q.reads = r.reads
      /\ q.deletes = r.deletes /\ q.renames = r.renames /\ q.writes = r.writes
      /\ q.inPlace = r.inPlace /\ q.small = r.small /\ q.writeDeletes = r.writeDeletes
  BY <1>5, <1>6, <1>7 DEF Row
<1> HIDE DEF q
<1>9. FileArrays(q, n) /\ HostArrays(q, n + 1)
  BY <1>3, <1>4, <1>8 DEF FileArrays, HostArrays
<1> QED  BY <1>3, <1>8, <1>9 DEF q, x

\* Pushed and swept, or left.
LEMMA ArrayPushed ==
    ASSUME NEW n \in Nat, NEW S, Array(S, n), NEW e \in Entry, e.id = n + 1, NEW w
    PROVE  Array(Recent(Push(S, e), w), n + 1)
BY ArrayPush, ArrayRecent

LEMMA FileArraysGrow ==
    ASSUME NEW n \in Nat, NEW r, FileArrays(r, n)
    PROVE  FileArrays(r, n + 1)
BY ArrayGrows DEF FileArrays

LEMMA DeletionFacts ==
    ASSUME NEW e \in Events, now \in Nat, NEW n \in Nat, NEW r \in Row, FileArrays(r, n)
    PROVE  LET q == Deletion(r, e, n + 1) IN
           q \in Row /\ FileArrays(q, n + 1) /\ SameTokens(q, r)
<1> DEFINE x == AsEntry(e, n + 1)
           d == Recent(Push(r.deletes, x), Window)
           w == IF On(Recent(r.writes, Window), e.on) # {}
                THEN Recent(Push(r.writeDeletes, x), Window) ELSE r.writeDeletes
           q == Deletion(r, e, n + 1)
<1>1. x \in Entry /\ x.id = n + 1  BY AsEntryType
<1>2. Array(d, n + 1) /\ Array(w, n + 1)  BY <1>1, ArrayPushed, ArrayGrows DEF FileArrays
<1>3. d \in SUBSET Entry /\ w \in SUBSET Entry  BY <1>2 DEF Array
<1>4. q = [r EXCEPT !.deletes = d, !.writeDeletes = w]  BY DEF Deletion, Row
<1> HIDE DEF d, w, x
<1>5. /\ q \in Row /\ q.deletes = d /\ q.writeDeletes = w
      /\ q.renames = r.renames /\ q.writes = r.writes /\ q.inPlace = r.inPlace
      /\ q.small = r.small /\ SameTokens(q, r)
  BY <1>3, <1>4 DEF Row, SameTokens
<1> HIDE DEF q
<1>6. FileArrays(q, n + 1)  BY <1>2, <1>5, FileArraysGrow DEF FileArrays
<1> QED  BY <1>5, <1>6 DEF q

LEMMA WritingFacts ==
    ASSUME NEW e \in Events, now \in Nat, NEW n \in Nat, NEW r \in Row, FileArrays(r, n)
    PROVE  LET q == Writing(r, e, n + 1) IN
           q \in Row /\ FileArrays(q, n + 1) /\ SameTokens(q, r)
<1> DEFINE x == AsEntry(e, n + 1)
           w == IF e.op = "write" /\ e.bytes > 0
                THEN Recent(Push(r.writes, x), Window) ELSE r.writes
           p == IF Overwrites(r, e) THEN Push(r.inPlace, x) ELSE r.inPlace
           m == IF e.op = "encrypt" THEN Recent(Push(r.renames, x), Window) ELSE r.renames
           q == Writing(r, e, n + 1)
<1>1. x \in Entry /\ x.id = n + 1  BY AsEntryType
<1>2. Array(w, n + 1) /\ Array(m, n + 1)  BY <1>1, ArrayPushed, ArrayGrows DEF FileArrays
<1>3. Array(p, n + 1)  BY <1>1, ArrayPush, ArrayGrows DEF FileArrays
<1>4. w \in SUBSET Entry /\ p \in SUBSET Entry /\ m \in SUBSET Entry  BY <1>2, <1>3 DEF Array
<1>5. q = [r EXCEPT !.writes = w, !.inPlace = p, !.renames = m]  BY DEF Writing, Row
<1> HIDE DEF w, p, m, x
<1>6. /\ q \in Row /\ q.writes = w /\ q.inPlace = p /\ q.renames = m
      /\ q.deletes = r.deletes /\ q.small = r.small /\ q.writeDeletes = r.writeDeletes
      /\ SameTokens(q, r)
  BY <1>4, <1>5 DEF Row, SameTokens
<1> HIDE DEF q
<1>7. FileArrays(q, n + 1)  BY <1>2, <1>3, <1>6, FileArraysGrow DEF FileArrays
<1> QED  BY <1>6, <1>7 DEF q

LEMMA ReadingFacts ==
    ASSUME NEW e \in Events, now \in Nat, NEW n \in Nat, NEW r \in Row, FileArrays(r, n),
           NEW kept \in SUBSET Entry
    PROVE  LET q == Reading(r, e, n + 1, kept) IN
           q \in Row /\ FileArrays(q, n + 1) /\ SameTokens(q, r)
<1> DEFINE x == AsEntry(e, n + 1)
           k == (kept \ On(kept, e.on)) \cup {x}
           new == e.bytes > 0 /\ e.bytes < Small /\ On(Recent(r.small, Window), e.on) = {}
           s == IF new THEN Recent(Push(r.small, x), Window) ELSE r.small
           q == Reading(r, e, n + 1, kept)
<1>1. x \in Entry /\ x.id = n + 1  BY AsEntryType
<1>2. Array(s, n + 1)  BY <1>1, ArrayPushed, ArrayGrows DEF FileArrays
<1>3. k \in SUBSET Entry  BY <1>1
<1>4. s \in SUBSET Entry  BY <1>2 DEF Array
<1>5. q = [r EXCEPT !.reads = k, !.small = s]  BY DEF Reading, Row
<1> HIDE DEF k, s, x
<1>6. /\ q \in Row /\ q.small = s
      /\ q.deletes = r.deletes /\ q.renames = r.renames /\ q.writes = r.writes
      /\ q.inPlace = r.inPlace /\ q.writeDeletes = r.writeDeletes /\ SameTokens(q, r)
  BY <1>3, <1>4, <1>5 DEF Row, SameTokens
<1> HIDE DEF q
<1>7. FileArrays(q, n + 1)  BY <1>2, <1>6, FileArraysGrow DEF FileArrays
<1> QED  BY <1>6, <1>7 DEF q

LEMMA NotedFacts ==
    ASSUME NEW e \in Events, now \in Nat, NEW n \in Nat, NEW r \in Row, FileArrays(r, n),
           NEW kept \in SUBSET Entry
    PROVE  LET q == Noted(r, e, n + 1, kept) IN
           q \in Row /\ FileArrays(q, n + 1) /\ SameTokens(q, r)
<1> DEFINE q == Noted(r, e, n + 1, kept)
<1>1. CASE q = r  BY <1>1, FileArraysGrow DEF SameTokens
<1>2. CASE q = Deletion(r, e, n + 1)  BY <1>2, DeletionFacts
<1>3. CASE q = Writing(r, e, n + 1)  BY <1>3, WritingFacts
<1>4. CASE q = Reading(r, e, n + 1, kept)  BY <1>4, ReadingFacts
<1>5. \/ q = r \/ q = Deletion(r, e, n + 1) \/ q = Writing(r, e, n + 1)
      \/ q = Reading(r, e, n + 1, kept)
  BY DEF Noted, ReadOps, WriteOps
<1> QED  BY <1>1, <1>2, <1>3, <1>4, <1>5

LEMMA SweptFacts ==
    ASSUME NEW n \in Nat, NEW r \in Row, FileArrays(r, n)
    PROVE  Swept(r) \in Row /\ FileArrays(Swept(r), n) /\ SameTokens(Swept(r), r)
<1> DEFINE q == Swept(r)
<1>1. \A S : Array(S, n) => Array(Recent(S, Window), n) /\ Recent(S, Window) \in SUBSET Entry
  BY ArrayRecent DEF Array
<1>2. /\ q \in Row /\ SameTokens(q, r)
      /\ q.deletes = Recent(r.deletes, Window) /\ q.renames = Recent(r.renames, Window)
      /\ q.writes = Recent(r.writes, Window) /\ q.inPlace = Recent(r.inPlace, Window)
      /\ q.small = Recent(r.small, Window) /\ q.writeDeletes = Recent(r.writeDeletes, Window)
  BY <1>1 DEF Swept, Row, SameTokens, FileArrays
<1> HIDE DEF q
<1>3. FileArrays(q, n)  BY <1>1, <1>2 DEF FileArrays
<1> QED  BY <1>2, <1>3 DEF q

LEMMA SentFacts ==
    ASSUME NEW e \in Events, now \in Nat, NEW n \in Nat, NEW r \in Row,
           FileArrays(r, n), HostArrays(r, n)
    PROVE  LET q == Sent(r, e, n + 1) IN
           /\ q \in Row /\ FileArrays(q, n + 1) /\ HostArrays(q, n + 1)
           /\ q.lastSecret = r.lastSecret /\ q.lastSpawn = r.lastSpawn /\ q.lastNet = now
           /\ q.spawns = Recent(r.spawns, SpawnWindow)
           /\ q.nets \subseteq r.nets \cup {AsEntry(e, n + 1)}
<1> DEFINE x == AsEntry(e, n + 1)
           held == IF e.on # "" THEN Push(r.nets, x) ELSE r.nets
           d == Recent(held, SpawnWindow)
           s == Recent(r.spawns, SpawnWindow)
           b == r.netBytes + e.bytes
           q == Sent(r, e, n + 1)
<1>1. x \in Entry /\ x.id = n + 1  BY AsEntryType
<1>2. Array(held, n + 1) /\ held \subseteq r.nets \cup {x}
  <2>1. Array(r.nets, n) /\ Array(r.nets, n + 1)  BY ArrayGrows DEF HostArrays
  <2>2. Array(Push(r.nets, x), n + 1) /\ Push(r.nets, x) \subseteq r.nets \cup {x}
    BY <1>1, <2>1, ArrayPush
  <2> QED  BY <2>1, <2>2
<1>3. Array(d, n + 1) /\ d \subseteq r.nets \cup {x}
  <2> HIDE DEF held
  <2> QED  BY <1>2, ArrayRecent
<1>4. Array(s, n + 1)
  <2>1. Array(r.spawns, n + 1)  BY ArrayGrows DEF HostArrays
  <2> QED  BY <2>1, ArrayRecent
<1>5. d \in SUBSET Entry /\ s \in SUBSET Entry /\ b \in Nat
  <2>1. d \in SUBSET Entry /\ s \in SUBSET Entry  BY <1>3, <1>4 DEF Array
  <2>2. e.bytes \in Nat /\ r.netBytes \in Nat  BY LedgerAssumption DEF Event, Row
  <2>3. b \in Nat  BY <2>2
  <2> HIDE DEF d, s, b
  <2> QED  BY <2>1, <2>3
<1>6. q = [r EXCEPT !.netBytes = b, !.lastNet = now, !.nets = d, !.spawns = s]
  BY DEF Sent, Row
<1> HIDE DEF d, s, b, x, held
<1>7. /\ q \in Row /\ q.nets = d /\ q.spawns = s /\ q.lastNet = now
      /\ q.lastSecret = r.lastSecret /\ q.lastSpawn = r.lastSpawn
      /\ q.deletes = r.deletes /\ q.renames = r.renames /\ q.writes = r.writes
      /\ q.inPlace = r.inPlace /\ q.small = r.small /\ q.writeDeletes = r.writeDeletes
  BY <1>5, <1>6 DEF Row
<1> HIDE DEF q
<1>8. FileArrays(q, n + 1) /\ HostArrays(q, n + 1)
  BY <1>3, <1>4, <1>7, FileArraysGrow DEF FileArrays, HostArrays
<1> QED  BY <1>3, <1>7, <1>8 DEF q, s, x

-----------------------------------------------------------------------------
(* The invariant.                                                          *)

\* Every time and every entry of a host array goes back to an event in lg.
Origin(r, lg) ==
    /\ r.lastSecret # 0 => \E i \in DOMAIN lg : /\ lg[i].ev.op = "read" /\ lg[i].ev.secret
                                                /\ lg[i].ev.bytes > 0 /\ lg[i].at = r.lastSecret
    /\ r.lastSpawn # 0 => \E i \in DOMAIN lg : lg[i].ev.op = "spawn" /\ lg[i].at = r.lastSpawn
    /\ r.lastNet # 0 => \E i \in DOMAIN lg : lg[i].ev.op = "net" /\ lg[i].at = r.lastNet
    /\ \A x \in r.spawns : /\ x.id \in DOMAIN lg /\ lg[x.id].ev.op = "spawn"
                           /\ lg[x.id].ev.on = x.on /\ lg[x.id].at = x.at
    /\ \A x \in r.nets : /\ x.id \in DOMAIN lg /\ lg[x.id].ev.op = "net"
                         /\ lg[x.id].ev.on = x.on /\ lg[x.id].at = x.at

\* What a row shows at time t for the exfiltration alarms R.
Justified(r, R, t) ==
    /\ "n3-seq-read-spawn" \in R => Follows(r.lastSecret, r.lastSpawn, SeqWindow)
    /\ "n3-seq-read-net" \in R => Follows(r.lastSecret, r.lastNet, SeqWindow)
    /\ R \cap {"n3-exfil", "n3-exfil-match"} # {} => Follows(r.lastSecret, r.lastNet, Assoc)
    /\ "n3-spawn-net-match" \in R =>
         \E s \in r.spawns, d \in r.nets :
             s.on = d.on /\ Follows(s.at, d.at, SpawnWindow) /\ s.at + SpawnWindow >= t

Remembered(r, lg) == FileArrays(r, Len(lg)) /\ HostArrays(r, Len(lg)) /\ Origin(r, lg)

\* The inductive invariant.
LedgerInv ==
    /\ TypeOK
    /\ row # NoRow => Remembered(row, log)
    /\ raised # {} => row # NoRow /\ Justified(row, raised, now)

LoggedEvents == [ev : Events, at : Nat]

LEMMA OriginGrows ==
    ASSUME NEW lg \in Seq(LoggedEvents), NEW x \in LoggedEvents, NEW r, Origin(r, lg)
    PROVE  Origin(r, Append(lg, x))
<1> DEFINE new == Append(lg, x)
<1>1. DOMAIN lg \subseteq DOMAIN new /\ \A i \in DOMAIN lg : new[i] = lg[i]
  OBVIOUS
<1> HIDE DEF new
<1> QED  BY <1>1 DEF Origin

LEMMA OriginKept ==
    ASSUME NEW lg, NEW r, NEW q, Origin(r, lg), SameTokens(q, r)
    PROVE  Origin(q, lg)
BY DEF Origin, SameTokens

\* An event is in the log when the row remembers it.
LEMMA TokensOrigin ==
    ASSUME NEW e \in Events, now \in Nat, NEW lg \in Seq(LoggedEvents), NEW r \in Row,
           Remembered(r, lg)
    PROVE  Origin(Tokens(r, e, Len(lg) + 1), Append(lg, [ev |-> e, at |-> now]))
<1> DEFINE n == Len(lg)
           x == [ev |-> e, at |-> now]
           new == Append(lg, x)
           q == Tokens(r, e, n + 1)
           a == AsEntry(e, n + 1)
<1>1. x \in LoggedEvents /\ n \in Nat  BY DEF LoggedEvents
<1>2. n + 1 \in DOMAIN new /\ new[n + 1].ev = e /\ new[n + 1].at = now  BY <1>1
<1>3. Origin(r, new)  BY <1>1, OriginGrows DEF Remembered
<1>4. a.id = n + 1 /\ a.at = now /\ a.on = e.on  BY AsEntryType, <1>1
<1>5. /\ q.lastSecret = r.lastSecret \/
           (q.lastSecret = now /\ e.op = "read" /\ e.secret /\ e.bytes > 0)
      /\ q.lastSpawn = r.lastSpawn \/ (q.lastSpawn = now /\ e.op = "spawn")
      /\ q.lastNet = r.lastNet /\ q.nets = r.nets
      /\ q.spawns \subseteq r.spawns \cup (IF e.op = "spawn" THEN {a} ELSE {})
  BY TokensFacts, <1>1 DEF Remembered
<1> HIDE DEF q, new, a, x, n
<1>6. q.lastSecret # 0 => \E i \in DOMAIN new : /\ new[i].ev.op = "read" /\ new[i].ev.secret
                                               /\ new[i].ev.bytes > 0 /\ new[i].at = q.lastSecret
  BY <1>2, <1>3, <1>5 DEF Origin
<1>7. q.lastSpawn # 0 => \E i \in DOMAIN new : new[i].ev.op = "spawn" /\ new[i].at = q.lastSpawn
  BY <1>2, <1>3, <1>5 DEF Origin
<1>8. \A y \in q.spawns : /\ y.id \in DOMAIN new /\ new[y.id].ev.op = "spawn"
                          /\ new[y.id].ev.on = y.on /\ new[y.id].at = y.at
  BY <1>2, <1>3, <1>4, <1>5 DEF Origin
<1>9. Origin(q, new)  BY <1>3, <1>5, <1>6, <1>7, <1>8 DEF Origin
<1> QED  BY <1>9 DEF q, new, x, n

LEMMA SentOrigin ==
    ASSUME NEW e \in Events, e.op = "net", now \in Nat, NEW lg \in Seq(LoggedEvents),
           NEW r \in Row, Remembered(r, lg)
    PROVE  Origin(Sent(r, e, Len(lg) + 1), Append(lg, [ev |-> e, at |-> now]))
<1> DEFINE n == Len(lg)
           x == [ev |-> e, at |-> now]
           new == Append(lg, x)
           q == Sent(r, e, n + 1)
           a == AsEntry(e, n + 1)
<1>1. x \in LoggedEvents /\ n \in Nat  BY DEF LoggedEvents
<1>2. n + 1 \in DOMAIN new /\ new[n + 1].ev = e /\ new[n + 1].at = now  BY <1>1
<1>3. Origin(r, new)  BY <1>1, OriginGrows DEF Remembered
<1>4. a.id = n + 1 /\ a.at = now /\ a.on = e.on  BY AsEntryType, <1>1
<1>5. /\ q.lastSecret = r.lastSecret /\ q.lastSpawn = r.lastSpawn /\ q.lastNet = now
      /\ q.spawns \subseteq r.spawns /\ q.nets \subseteq r.nets \cup {a}
  BY SentFacts, <1>1 DEF Remembered, Recent
<1> HIDE DEF q, new, a, x, n
<1>6. \A y \in q.nets : /\ y.id \in DOMAIN new /\ new[y.id].ev.op = "net"
                        /\ new[y.id].ev.on = y.on /\ new[y.id].at = y.at
  BY <1>2, <1>3, <1>4, <1>5 DEF Origin
<1>7. \E i \in DOMAIN new : new[i].ev.op = "net" /\ new[i].at = q.lastNet
  BY <1>2, <1>5
<1>8. Origin(q, new)  BY <1>3, <1>5, <1>6, <1>7 DEF Origin
<1> QED  BY <1>8 DEF q, new, x, n

-----------------------------------------------------------------------------
(* The alarms.                                                             *)

ExfilKinds == {"n3-exfil", "n3-exfil-match", "n3-seq-read-spawn", "n3-seq-read-net"}
DestroyKinds == {Kind[k] : k \in Signatures} \cup {"n3-ransom"}

LEMMA KindNames ==
    /\ \A k \in Signatures : Kind[k] \notin ExfilKinds \cup {"n3-spawn-net-match"}
    /\ "n3-ransom" \notin ExfilKinds
BY DEF Kind, Signatures, ExfilKinds

LEMMA ExfilFacts ==
    ASSUME NEW r
    PROVE  /\ ExfilChecks(r) \subseteq ExfilKinds
           /\ "n3-seq-read-spawn" \in ExfilChecks(r) => Follows(r.lastSecret, r.lastSpawn, SeqWindow)
           /\ "n3-seq-read-net" \in ExfilChecks(r) => Follows(r.lastSecret, r.lastNet, SeqWindow)
           /\ ExfilChecks(r) \cap {"n3-exfil", "n3-exfil-match"} # {} =>
                Follows(r.lastSecret, r.lastNet, Assoc)
<1> DEFINE sp == Follows(r.lastSecret, r.lastSpawn, SeqWindow)
           nt == Follows(r.lastSecret, r.lastNet, SeqWindow)
           as == Follows(r.lastSecret, r.lastNet, Assoc)
           mt == Matches(r)
           red == (IF sp THEN {"n3-seq-read-spawn"} ELSE {})
                  \cup (IF nt THEN {"n3-seq-read-net"} ELSE {})
                  \cup (IF mt THEN {"n3-exfil-match"} ELSE {})
<1>1. mt => as  BY DEF Matches
<1>2. \/ ExfilChecks(r) = red
      \/ ExfilChecks(r) = {"n3-exfil"} /\ as
  BY DEF ExfilChecks
<1>3. /\ red \subseteq {"n3-seq-read-spawn", "n3-seq-read-net", "n3-exfil-match"}
      /\ "n3-seq-read-spawn" \in red => sp
      /\ "n3-seq-read-net" \in red => nt
      /\ "n3-exfil-match" \in red => mt
  <2> HIDE DEF sp, nt, mt
  <2> QED  OBVIOUS
<1> HIDE DEF sp, nt, as, mt, red
<1>4. /\ ExfilChecks(r) \subseteq ExfilKinds
      /\ "n3-seq-read-spawn" \in ExfilChecks(r) => sp
      /\ "n3-seq-read-net" \in ExfilChecks(r) => nt
      /\ ExfilChecks(r) \cap {"n3-exfil", "n3-exfil-match"} # {} => as
  BY <1>1, <1>2, <1>3 DEF ExfilKinds
<1> QED  BY <1>4 DEF sp, nt, as

LEMMA DestroyFacts ==
    ASSUME NEW r
    PROVE  DestroyChecks(r) \subseteq DestroyKinds
<1>1. "writeDeletes" \in Signatures  BY DEF Signatures
<1> QED  BY <1>1 DEF DestroyChecks, DestroyKinds

LEMMA NetJustified ==
    ASSUME NEW r, NEW t,
           \A s \in r.spawns : s.at + SpawnWindow >= t
    PROVE  Justified(r, ExfilChecks(r) \cup SpawnNetChecks(r), t)
<1>1. SpawnNetChecks(r) \subseteq {"n3-spawn-net-match"}  BY DEF SpawnNetChecks
<1>2. "n3-spawn-net-match" \notin ExfilKinds  BY DEF ExfilKinds
<1>3. "n3-spawn-net-match" \in SpawnNetChecks(r) =>
        \E s \in r.spawns, d \in r.nets : s.on = d.on /\ Follows(s.at, d.at, SpawnWindow)
  BY DEF SpawnNetChecks
<1> QED  BY <1>1, <1>2, <1>3, ExfilFacts DEF Justified

LEMMA FileJustified ==
    ASSUME NEW r, NEW t
    PROVE  Justified(r, ExfilChecks(r) \cup DestroyChecks(r), t)
<1>1. DestroyChecks(r) \cap (ExfilKinds \cup {"n3-spawn-net-match"}) = {}
  BY DestroyFacts, KindNames DEF DestroyKinds, ExfilKinds
<1>2. "n3-spawn-net-match" \notin ExfilKinds  BY DEF ExfilKinds
<1> DEFINE A == ExfilChecks(r)
           B == DestroyChecks(r)
<1>3. A \subseteq ExfilKinds /\ B \cap (ExfilKinds \cup {"n3-spawn-net-match"}) = {}
  BY <1>1, ExfilFacts
<1>4. /\ "n3-seq-read-spawn" \in A => Follows(r.lastSecret, r.lastSpawn, SeqWindow)
      /\ "n3-seq-read-net" \in A => Follows(r.lastSecret, r.lastNet, SeqWindow)
      /\ A \cap {"n3-exfil", "n3-exfil-match"} # {} => Follows(r.lastSecret, r.lastNet, Assoc)
  BY ExfilFacts
<1> HIDE DEF A, B
<1>5. Justified(r, A \cup B, t)  BY <1>2, <1>3, <1>4 DEF Justified, ExfilKinds
<1> QED  BY <1>5 DEF A, B

-----------------------------------------------------------------------------
(* The steps.                                                              *)

LEMMA LogType ==
    ASSUME TypeOK
    PROVE  now \in Nat /\ log \in Seq(LoggedEvents) /\ Len(log) \in Nat
<1> DEFINE T == [ev : Events, at : 1..now]
<1>1. now \in Nat /\ log \in Seq(T)  BY DEF TypeOK
<1>2. T \subseteq LoggedEvents  BY <1>1 DEF LoggedEvents
<1> HIDE DEF T
<1> QED  BY <1>1, <1>2

LEMMA NewRowFacts ==
    ASSUME TypeOK
    PROVE  NewRow \in Row /\ Remembered(NewRow, log)
<1>1. now \in Nat /\ Len(log) \in Nat  BY LedgerAssumption DEF TypeOK
<1>2. NewRow \in Row  BY <1>1 DEF NewRow, Row
<1>3. /\ NewRow.lastSecret = 0 /\ NewRow.lastSpawn = 0 /\ NewRow.lastNet = 0
      /\ NewRow.spawns = {} /\ NewRow.nets = {} /\ NewRow.deletes = {} /\ NewRow.renames = {}
      /\ NewRow.writes = {} /\ NewRow.inPlace = {} /\ NewRow.small = {}
      /\ NewRow.writeDeletes = {}
  BY DEF NewRow
<1>4. Array({}, Len(log))  BY <1>1, ArrayEmpty
<1>5. FileArrays(NewRow, Len(log)) /\ HostArrays(NewRow, Len(log))
  BY <1>3, <1>4 DEF FileArrays, HostArrays
<1>6. Origin(NewRow, log)  BY <1>3 DEF Origin
<1> QED  BY <1>2, <1>5, <1>6 DEF Remembered

\* The row an event meets.
LEMMA CurrentFacts ==
    ASSUME LedgerInv, NEW r, r = [Current EXCEPT !.lastSeen = now]
    PROVE  r \in Row /\ Remembered(r, log)
<1>1. Current \in Row /\ Remembered(Current, log)
  BY NewRowFacts DEF LedgerInv, TypeOK, Current
<1>2. now \in Nat  BY DEF LedgerInv, TypeOK
<1> DEFINE c == Current
<1> HIDE DEF c
<1>3. c \in Row /\ Remembered(c, log) /\ r = [c EXCEPT !.lastSeen = now]  BY <1>1 DEF c
<1>4. /\ r \in Row /\ SameTokens(r, c)
      /\ r.deletes = c.deletes /\ r.renames = c.renames /\ r.writes = c.writes
      /\ r.inPlace = c.inPlace /\ r.small = c.small /\ r.writeDeletes = c.writeDeletes
  BY <1>2, <1>3 DEF Row, SameTokens
<1>5. FileArrays(r, Len(log)) /\ HostArrays(r, Len(log))
  BY <1>3, <1>4 DEF Remembered, FileArrays, HostArrays, SameTokens
<1>6. Origin(r, log)  BY <1>3, <1>4, OriginKept DEF Remembered
<1> QED  BY <1>4, <1>5, <1>6 DEF Remembered

\* The arrays of a row are within the cap.
LEMMA RowBounded ==
    ASSUME NEW r, NEW n, FileArrays(r, n), HostArrays(r, n)
    PROVE  \A k \in Counted : Cardinality(r[k]) <= Cap
BY DEF FileArrays, HostArrays, Array, Counted

\* A network event.
LEMMA SendStep ==
    ASSUME LedgerInv, NEW e \in Events, e.op = "net", NEW r, NEW q,
           r = [Current EXCEPT !.lastSeen = now], q = Sent(r, e, Len(log) + 1)
    PROVE  /\ q \in Row /\ Remembered(q, Append(log, [ev |-> e, at |-> now]))
           /\ Justified(q, ExfilChecks(q) \cup SpawnNetChecks(q), now)
<1>1. r \in Row /\ Remembered(r, log)  BY CurrentFacts
<1>2. now \in Nat /\ log \in Seq(LoggedEvents) /\ Len(log) \in Nat
  BY LogType DEF LedgerInv
<1> DEFINE new == Append(log, [ev |-> e, at |-> now])
<1>3. Len(new) = Len(log) + 1  BY <1>2
<1>4. Origin(q, new)  BY <1>1, <1>2, SentOrigin
<1>5. /\ q \in Row /\ FileArrays(q, Len(log) + 1) /\ HostArrays(q, Len(log) + 1)
      /\ q.spawns = Recent(r.spawns, SpawnWindow)
  BY <1>1, <1>2, SentFacts DEF Remembered
<1>6. \A s \in q.spawns : s.at + SpawnWindow >= now  BY <1>5 DEF Recent
<1>7. Justified(q, ExfilChecks(q) \cup SpawnNetChecks(q), now)  BY <1>6, NetJustified
<1> HIDE DEF new
<1>8. Remembered(q, new)  BY <1>3, <1>4, <1>5 DEF Remembered
<1> QED  BY <1>5, <1>7, <1>8 DEF new

\* A file event, or the start of a tool.
LEMMA FileStep ==
    ASSUME LedgerInv, NEW e \in Events, NEW r, NEW kept \in {r.reads, Recent(r.reads, Window)},
           r = [Current EXCEPT !.lastSeen = now], NEW q,
           q = Swept(Noted(Tokens(r, e, Len(log) + 1), e, Len(log) + 1, kept))
    PROVE  /\ q \in Row /\ Remembered(q, Append(log, [ev |-> e, at |-> now]))
           /\ Justified(q, ExfilChecks(q) \cup DestroyChecks(q), now)
<1>1. r \in Row /\ Remembered(r, log)  BY CurrentFacts
<1>2. now \in Nat /\ log \in Seq(LoggedEvents) /\ Len(log) \in Nat
  BY LogType DEF LedgerInv
<1> DEFINE new == Append(log, [ev |-> e, at |-> now])
           n == Len(log)
           a == Tokens(r, e, n + 1)
           b == Noted(a, e, n + 1, kept)
<1>3. Len(new) = n + 1  BY <1>2
<1>4. kept \in SUBSET Entry  BY <1>1 DEF Row, Recent
<1>5. a \in Row /\ FileArrays(a, n) /\ HostArrays(a, n + 1)
  BY <1>1, <1>2, TokensFacts DEF Remembered
<1>6. Origin(a, new)  BY <1>1, <1>2, TokensOrigin
<1> HIDE DEF a, new, n
<1>7. b \in Row /\ FileArrays(b, n + 1) /\ SameTokens(b, a)
  BY <1>2, <1>4, <1>5, NotedFacts DEF n
<1> HIDE DEF b
<1>8. q = Swept(b)  BY DEF a, b, n
<1>9. q \in Row /\ FileArrays(q, n + 1) /\ SameTokens(q, b)
  <2>1. n + 1 \in Nat  BY <1>2 DEF n
  <2> QED  BY <2>1, <1>7, <1>8, SweptFacts
<1>10. SameTokens(q, a)  BY <1>7, <1>9 DEF SameTokens
<1>11. HostArrays(q, n + 1)  BY <1>5, <1>10 DEF SameTokens, HostArrays
<1>12. Origin(q, new)  BY <1>6, <1>10, OriginKept
<1>13. Justified(q, ExfilChecks(q) \cup DestroyChecks(q), now)  BY FileJustified
<1>14. Remembered(q, new)  BY <1>3, <1>9, <1>11, <1>12 DEF Remembered
<1> QED  BY <1>9, <1>13, <1>14 DEF new

AlarmKinds == DestroyKinds \cup ExfilKinds \cup {"n3-spawn-net-match"}

LEMMA ObserveStep ==
    ASSUME LedgerInv, NEW e \in Events, Observe(e)
    PROVE  LedgerInv'
<1> DEFINE n == Len(log) + 1
           r == [Current EXCEPT !.lastSeen = now]
           new == Append(log, [ev |-> e, at |-> now])
<1>1. now' = now /\ log' = new  BY DEF Observe
<1>2. /\ row' \in Row /\ Remembered(row', new)
      /\ Justified(row', raised', now) /\ raised' \subseteq AlarmKinds
  <2>1. CASE e.op = "net"
    <3>1. row' = Sent(r, e, n) /\ raised' = ExfilChecks(row') \cup SpawnNetChecks(row')
      BY <2>1 DEF Observe
    <3>2. SpawnNetChecks(row') \subseteq {"n3-spawn-net-match"}  BY DEF SpawnNetChecks
    <3>3. raised' \subseteq AlarmKinds  BY <3>1, <3>2, ExfilFacts DEF AlarmKinds
    <3> HIDE DEF r
    <3>4. row' \in Row /\ Remembered(row', new) /\ Justified(row', raised', now)
      BY <2>1, <3>1, SendStep DEF r
    <3> QED  BY <3>3, <3>4
  <2>2. CASE e.op # "net"
    <3>1. PICK kept \in {r.reads, Recent(r.reads, Window)} :
             /\ row' = Swept(Noted(Tokens(r, e, n), e, n, kept))
             /\ raised' = ExfilChecks(row') \cup DestroyChecks(row')
      BY <2>2 DEF Observe
    <3>2. raised' \subseteq AlarmKinds  BY <3>1, ExfilFacts, DestroyFacts DEF AlarmKinds
    <3>3. row' \in Row /\ Remembered(row', new) /\ Justified(row', raised', now)
      BY <3>1, FileStep
    <3> QED  BY <3>2, <3>3
  <2> QED  BY <2>1, <2>2
<1>3. now \in 1..MaxTime  BY DEF LedgerInv, TypeOK
<1>4. new \in Seq([ev : Events, at : 1..now])
  <2> DEFINE T == [ev : Events, at : 1..now]
  <2>1. log \in Seq(T)  BY DEF LedgerInv, TypeOK
  <2>2. [ev |-> e, at |-> now] \in T
    <3>1. now \in 1..now  BY <1>3, LedgerAssumption
    <3> QED  BY <3>1
  <2>3. new \in Seq(T)
    <3> HIDE DEF T
    <3> QED  BY <2>1, <2>2
  <2> QED  BY <2>3
<1>5. \A k \in Counted : Cardinality(row'[k]) <= Cap
  BY <1>2, RowBounded DEF Remembered
<1> HIDE DEF new
<1>6. TypeOK'
  BY <1>1, <1>2, <1>3, <1>4, <1>5
     DEF TypeOK, AlarmKinds, DestroyKinds, ExfilKinds
<1>7. row' # NoRow  BY <1>2, NoRowAssumption
<1>8. (row # NoRow => Remembered(row, log))'  BY <1>1, <1>2
<1>9. (raised # {} => row # NoRow /\ Justified(row, raised, now))'  BY <1>1, <1>2, <1>7
<1> QED  BY <1>6, <1>8, <1>9 DEF LedgerInv

LEMMA MarkStep ==
    ASSUME LedgerInv, MarkSuspected
    PROVE  LedgerInv'
<1> DEFINE c == IF row = NoRow THEN NewRow ELSE row
<1>1. c \in Row /\ Remembered(c, log)  BY NewRowFacts DEF LedgerInv, TypeOK
<1>2. /\ row' = [c EXCEPT !.suspected = TRUE]
      /\ raised' = {} /\ now' = now /\ log' = log
  BY DEF MarkSuspected
<1> HIDE DEF c
<1>3. /\ row' \in Row /\ SameTokens(row', c)
      /\ row'.deletes = c.deletes /\ row'.renames = c.renames /\ row'.writes = c.writes
      /\ row'.inPlace = c.inPlace /\ row'.small = c.small /\ row'.writeDeletes = c.writeDeletes
  BY <1>1, <1>2 DEF Row, SameTokens
<1>4. FileArrays(row', Len(log)) /\ HostArrays(row', Len(log))
  BY <1>1, <1>3 DEF Remembered, FileArrays, HostArrays, SameTokens
<1>5. Origin(row', log)  BY <1>1, <1>3, OriginKept DEF Remembered
<1>6. \A k \in Counted : Cardinality(row'[k]) <= Cap  BY <1>4, RowBounded
<1>7. TypeOK'  BY <1>2, <1>3, <1>6 DEF LedgerInv, TypeOK
<1>8. Remembered(row', log')  BY <1>2, <1>4, <1>5 DEF Remembered
<1> QED  BY <1>2, <1>7, <1>8 DEF LedgerInv

\* LedgerInv is inductive.
THEOREM LedgerInvariant == Spec => []LedgerInv
<1>1. Init => LedgerInv
  <2> SUFFICES ASSUME Init  PROVE LedgerInv  OBVIOUS
  <2>1. now \in 1..MaxTime  BY LedgerAssumption DEF Init
  <2>2. log \in Seq([ev : Events, at : 1..now])  BY DEF Init
  <2> QED  BY <2>1, <2>2 DEF Init, LedgerInv, TypeOK
<1>2. LedgerInv /\ [Next]_vars => LedgerInv'
  <2> SUFFICES ASSUME LedgerInv, [Next]_vars  PROVE LedgerInv'  OBVIOUS
  <2>1. ASSUME NEW e \in Events, Observe(e)  PROVE LedgerInv'  BY <2>1, ObserveStep
  <2>2. CASE MarkSuspected  BY <2>2, MarkStep
  <2>3. CASE Sweep
    BY <2>3 DEF Sweep, LedgerInv, TypeOK
  <2>4. CASE Tick
    <3>1. /\ now' = now + 1 /\ now < MaxTime /\ raised' = {} /\ row' = row /\ log' = log
          /\ now \in 1..MaxTime /\ MaxTime \in Nat
      BY <2>4, LedgerAssumption DEF Tick, LedgerInv, TypeOK
    <3> DEFINE S == [ev : Events, at : 1..now]
               T == [ev : Events, at : 1..now']
    <3>2. log \in Seq(S)  BY DEF LedgerInv, TypeOK
    <3>3. S \subseteq T  BY <3>1
    <3>4. log' \in Seq(T)
      <4> HIDE DEF S, T
      <4> QED  BY <3>1, <3>2, <3>3
    <3>5. now' \in 1..MaxTime  BY <3>1
    <3>6. TypeOK'  BY <3>1, <3>4, <3>5 DEF LedgerInv, TypeOK
    <3> QED  BY <3>1, <3>6 DEF LedgerInv
  <2>5. CASE Restart
    <3>1. now' \in 1..MaxTime  BY <2>5, LedgerAssumption DEF Restart
    <3>2. log' \in Seq([ev : Events, at : 1..now'])  BY <2>5 DEF Restart
    <3> QED  BY <2>5, <3>1, <3>2 DEF Restart, LedgerInv, TypeOK
  <2>6. CASE UNCHANGED vars
    BY <2>6 DEF vars, LedgerInv, TypeOK, Remembered, Justified
  <2> QED  BY <2>1, <2>2, <2>3, <2>4, <2>5, <2>6 DEF Next
<1> QED  BY <1>1, <1>2, PTL DEF Spec

-----------------------------------------------------------------------------
(* Sums over sets.  The bytes of an array are summed by a recursive        *)
(* function over its subsets, which takes out an element of CHOOSE's at a  *)
(* time: such a function exists, its values are numbers, and any element   *)
(* may be taken first.  Each is proved from a smallest counterexample.     *)

\* The element a sum takes out first.
First(T) == CHOOSE x \in T : TRUE

\* The sum of T, from the sum f of what is left without its first element.
Added(f, w, T) == IF T = {} THEN 0 ELSE w[First(T)] + f[T \ {First(T)}]

\* f sums the weights w of the subsets of S.
Sums(f, w, S) == f = [T \in SUBSET S |-> Added(f, w, T)]

\* The same for the subsets with at most n elements.
UpTo(S, n) == {T \in SUBSET S : Cardinality(T) <= n}
SumsUpTo(f, w, S, n) ==
    /\ f \in [UpTo(S, n) -> Nat]
    /\ \A T \in UpTo(S, n) : f[T] = Added(f, w, T)

\* A set without one of its elements is smaller by one.
LEMMA OneLess ==
    ASSUME NEW S, IsFiniteSet(S), NEW T \in SUBSET S, NEW x \in T
    PROVE  /\ T \ {x} \in SUBSET S
           /\ Cardinality(T) \in Nat /\ Cardinality(T \ {x}) \in Nat
           /\ Cardinality(T) > 0 /\ Cardinality(T \ {x}) = Cardinality(T) - 1
<1>1. IsFiniteSet(T)  BY FS_Subset
<1>2. Cardinality(T \ {x}) = Cardinality(T) - 1 /\ IsFiniteSet(T \ {x})  BY <1>1, FS_RemoveElement
<1>3. Cardinality(T) \in Nat /\ Cardinality(T \ {x}) \in Nat  BY <1>1, <1>2, FS_CardinalityType
<1> QED  BY <1>2, <1>3

LEMMA FirstIn ==
    ASSUME NEW T, T # {}
    PROVE  First(T) \in T
BY DEF First

LEMMA SumsStart ==
    ASSUME NEW S, IsFiniteSet(S), NEW w \in [S -> Nat]
    PROVE  \E f : SumsUpTo(f, w, S, 0)
<1> DEFINE f == [T \in UpTo(S, 0) |-> 0]
<1>1. \A T \in UpTo(S, 0) : T = {}
  <2> SUFFICES ASSUME NEW T \in UpTo(S, 0), T # {}  PROVE FALSE  OBVIOUS
  <2>1. First(T) \in T /\ T \in SUBSET S /\ Cardinality(T) <= 0  BY FirstIn DEF UpTo
  <2>2. Cardinality(T) \in Nat /\ Cardinality(T) > 0  BY <2>1, OneLess
  <2> QED  BY <2>1, <2>2
<1>2. SumsUpTo(f, w, S, 0)  BY <1>1 DEF SumsUpTo, Added
<1> QED  BY <1>2

LEMMA SumsNext ==
    ASSUME NEW S, IsFiniteSet(S), NEW w \in [S -> Nat], NEW n \in Nat,
           NEW f, SumsUpTo(f, w, S, n)
    PROVE  \E g : SumsUpTo(g, w, S, n + 1)
<1> DEFINE g == [T \in UpTo(S, n + 1) |-> Added(f, w, T)]
<1>1. \A T \in UpTo(S, n) : T \in UpTo(S, n + 1) /\ g[T] = f[T]
  <2> SUFFICES ASSUME NEW T \in UpTo(S, n)  PROVE T \in UpTo(S, n + 1) /\ g[T] = f[T]  OBVIOUS
  <2>1. T \in SUBSET S /\ Cardinality(T) <= n  BY DEF UpTo
  <2>2. Cardinality(T) \in Nat  BY <2>1, FS_Subset, FS_CardinalityType
  <2>3. T \in UpTo(S, n + 1)  BY <2>1, <2>2 DEF UpTo
  <2> QED  BY <2>3 DEF SumsUpTo
<1>2. ASSUME NEW T \in UpTo(S, n + 1)
      PROVE  g[T] \in Nat /\ g[T] = Added(g, w, T)
  <2>1. CASE T = {}  BY <2>1 DEF Added
  <2>2. CASE T # {}
    <3> DEFINE x == First(T)
               U == T \ {x}
    <3>1. x \in T /\ T \in SUBSET S /\ Cardinality(T) <= n + 1  BY <2>2, FirstIn DEF UpTo
    <3>2. U \in SUBSET S /\ Cardinality(T) \in Nat /\ Cardinality(U) = Cardinality(T) - 1
      BY <3>1, OneLess
    <3>3. Cardinality(U) <= n  BY <3>1, <3>2
    <3>4. U \in UpTo(S, n)  BY <3>2, <3>3 DEF UpTo
    <3>5. g[U] = f[U] /\ f[U] \in Nat  BY <1>1, <3>4 DEF SumsUpTo
    <3>6. w[x] \in Nat  BY <3>1
    <3>7. g[T] = w[x] + f[U] /\ Added(g, w, T) = w[x] + g[U]  BY <2>2 DEF Added
    <3> HIDE DEF g, U, x
    <3>8. w[x] + f[U] \in Nat  BY <3>5, <3>6
    <3> QED  BY <3>5, <3>7, <3>8
  <2> QED  BY <2>1, <2>2
<1>3. g \in [UpTo(S, n + 1) -> Nat]
  <2>1. \A T \in UpTo(S, n + 1) : g[T] \in Nat  BY <1>2
  <2> QED  BY <2>1
<1> HIDE DEF g
<1>4. SumsUpTo(g, w, S, n + 1)  BY <1>2, <1>3 DEF SumsUpTo
<1> QED  BY <1>4

LEMMA SumsExist ==
    ASSUME NEW S, IsFiniteSet(S), NEW w \in [S -> Nat]
    PROVE  \E f : Sums(f, w, S)
<1> DEFINE Bad == {n \in Nat : ~ \E f : SumsUpTo(f, w, S, n)}
<1>1. Bad = {}
  <2> SUFFICES ASSUME Bad # {}  PROVE FALSE  OBVIOUS
  <2>1. Bad \subseteq Nat  OBVIOUS
  <2>2. PICK n \in Bad : \A j \in Bad : n <= j
    <3> HIDE DEF Bad
    <3> QED  BY <2>1, LeastOf
  <2>3. n # 0 /\ n \in Nat  BY SumsStart
  <2>4. n - 1 \in Nat /\ (n - 1) + 1 = n /\ ~ (n <= n - 1)  BY <2>3
  <2>5. n - 1 \notin Bad  BY <2>2, <2>4
  <2>6. PICK f : SumsUpTo(f, w, S, n - 1)  BY <2>4, <2>5
  <2>7. \E g : SumsUpTo(g, w, S, (n - 1) + 1)  BY <2>4, <2>6, SumsNext
  <2> QED  BY <2>4, <2>7
<1>2. Cardinality(S) \in Nat  BY FS_CardinalityType
<1>3. PICK f : SumsUpTo(f, w, S, Cardinality(S))  BY <1>1, <1>2
<1>4. UpTo(S, Cardinality(S)) = SUBSET S  BY FS_Subset DEF UpTo
<1>5. Sums(f, w, S)  BY <1>3, <1>4 DEF SumsUpTo, Sums
<1> QED  BY <1>5

\* The elements of T left after the first were fewer: what holds of them.
LEMMA SumsStep ==
    ASSUME NEW S, IsFiniteSet(S), NEW w, NEW f, Sums(f, w, S), NEW T \in SUBSET S, T # {}
    PROVE  /\ First(T) \in T /\ T \ {First(T)} \in SUBSET S
           /\ f[T] = w[First(T)] + f[T \ {First(T)}]
BY FirstIn DEF Sums, Added

LEMMA SumsNat ==
    ASSUME NEW S, IsFiniteSet(S), NEW w \in [S -> Nat], NEW f, Sums(f, w, S)
    PROVE  \A T \in SUBSET S : f[T] \in Nat
<1> DEFINE Bad == {T \in SUBSET S : f[T] \notin Nat}
           Size == {Cardinality(T) : T \in Bad}
<1> SUFFICES ASSUME Bad # {}  PROVE FALSE  OBVIOUS
<1>1. \A T \in SUBSET S : Cardinality(T) \in Nat  BY FS_Subset, FS_CardinalityType
<1>2. Size \subseteq Nat /\ Size # {}  BY <1>1
<1>3. PICK n \in Size : \A j \in Size : n <= j
  <2> HIDE DEF Size
  <2> QED  BY <1>2, LeastOf
<1>4. PICK T \in Bad : Cardinality(T) = n  OBVIOUS
<1> DEFINE x == First(T)
           U == T \ {x}
<1>5. T # {}  BY <1>4 DEF Sums, Added
<1>6. x \in T /\ U \in SUBSET S /\ f[T] = w[x] + f[U]  BY <1>4, <1>5, SumsStep
<1>7. /\ Cardinality(T) \in Nat /\ Cardinality(U) \in Nat
      /\ Cardinality(U) = Cardinality(T) - 1
  BY <1>4, <1>6, OneLess
<1>8. U \notin Bad
  <2>1. U \in Bad => n <= Cardinality(U)  BY <1>3
  <2>2. ~ (n <= Cardinality(U))  BY <1>4, <1>7
  <2> QED  BY <2>1, <2>2
<1>9. f[U] \in Nat /\ w[x] \in Nat  BY <1>4, <1>6, <1>8
<1>10. f[T] \in Nat
  <2> HIDE DEF U, x
  <2> QED  BY <1>6, <1>9
<1> QED  BY <1>4, <1>10

\* Any element may be taken first.
LEMMA AnyFirst ==
    ASSUME NEW S, IsFiniteSet(S), NEW w \in [S -> Nat], NEW f, Sums(f, w, S)
    PROVE  \A T \in SUBSET S, x \in S : x \in T => f[T] = w[x] + f[T \ {x}]
<1> DEFINE Holds(T) == \A x \in S : x \in T => f[T] = w[x] + f[T \ {x}]
           Bad == {T \in SUBSET S : ~ Holds(T)}
           Size == {Cardinality(T) : T \in Bad}
<1> SUFFICES ASSUME Bad # {}  PROVE FALSE  OBVIOUS
<1>1. \A T \in SUBSET S : Cardinality(T) \in Nat  BY FS_Subset, FS_CardinalityType
<1>2. Size \subseteq Nat /\ Size # {}  BY <1>1
<1>3. PICK n \in Size : \A j \in Size : n <= j
  <2> HIDE DEF Size
  <2> QED  BY <1>2, LeastOf
<1>4. PICK T \in Bad : Cardinality(T) = n  OBVIOUS
<1>5. PICK x \in S : x \in T /\ f[T] # w[x] + f[T \ {x}]  BY <1>4
<1> DEFINE y == First(T)
<1>6. /\ y \in T /\ T \ {y} \in SUBSET S /\ T \ {x} \in SUBSET S
      /\ f[T] = w[y] + f[T \ {y}]
  BY <1>4, <1>5, SumsStep
<1>7. x # y  BY <1>5, <1>6
<1>8. ASSUME NEW z \in T  PROVE Holds(T \ {z})
  <2>1. /\ T \ {z} \in SUBSET S
        /\ Cardinality(T) \in Nat /\ Cardinality(T \ {z}) \in Nat
        /\ Cardinality(T \ {z}) = Cardinality(T) - 1
    BY <1>4, OneLess
  <2>2. T \ {z} \in Bad => n <= Cardinality(T \ {z})  BY <1>3
  <2>3. ~ (n <= Cardinality(T \ {z}))  BY <1>4, <2>1
  <2> QED  BY <2>1, <2>2, <2>3
<1> DEFINE V == (T \ {x}) \ {y}
<1>9. V = (T \ {y}) \ {x} /\ V \in SUBSET S  BY <1>4
<1>10. f[T \ {y}] = w[x] + f[V]
  <2>1. Holds(T \ {y}) /\ x \in T \ {y}  BY <1>5, <1>6, <1>7, <1>8
  <2>2. f[T \ {y}] = w[x] + f[(T \ {y}) \ {x}]  BY <1>5, <2>1
  <2> QED  BY <1>9, <2>2
<1>11. f[T \ {x}] = w[y] + f[V]
  <2>1. Holds(T \ {x}) /\ y \in T \ {x} /\ y \in S  BY <1>4, <1>5, <1>6, <1>7, <1>8
  <2> QED  BY <2>1
<1>12. f[V] \in Nat /\ w[x] \in Nat /\ w[y] \in Nat  BY <1>4, <1>5, <1>6, <1>9, SumsNat
<1> HIDE DEF V, y
<1>13. f[T] = w[x] + f[T \ {x}]  BY <1>6, <1>10, <1>11, <1>12
<1> QED  BY <1>5, <1>13

\* More events, no smaller sum.
LEMMA SumsGrow ==
    ASSUME NEW S, IsFiniteSet(S), NEW w \in [S -> Nat], NEW f, Sums(f, w, S),
           NEW U \in SUBSET S
    PROVE  \A T \in SUBSET S : U \subseteq T => f[U] <= f[T]
<1> DEFINE Bad == {T \in SUBSET S : U \subseteq T /\ ~ (f[U] <= f[T])}
           Size == {Cardinality(T) : T \in Bad}
<1> SUFFICES ASSUME Bad # {}  PROVE FALSE  OBVIOUS
<1>1. \A T \in SUBSET S : Cardinality(T) \in Nat  BY FS_Subset, FS_CardinalityType
<1>2. Size \subseteq Nat /\ Size # {}  BY <1>1
<1>3. PICK n \in Size : \A j \in Size : n <= j
  <2> HIDE DEF Size
  <2> QED  BY <1>2, LeastOf
<1>4. PICK T \in Bad : Cardinality(T) = n  OBVIOUS
<1>5. \A V \in SUBSET S : f[V] \in Nat  BY SumsNat
<1>6. T # U  BY <1>4, <1>5
<1>7. PICK x \in T : x \notin U  BY <1>4, <1>6
<1>8. /\ T \ {x} \in SUBSET S /\ U \subseteq T \ {x}
      /\ Cardinality(T) \in Nat /\ Cardinality(T \ {x}) \in Nat
      /\ Cardinality(T \ {x}) = Cardinality(T) - 1
  BY <1>4, <1>7, OneLess
<1>9. f[U] <= f[T \ {x}]
  <2>1. T \ {x} \in Bad => n <= Cardinality(T \ {x})  BY <1>3
  <2>2. ~ (n <= Cardinality(T \ {x}))  BY <1>4, <1>8
  <2> QED  BY <1>8, <2>1, <2>2
<1>10. f[T] = w[x] + f[T \ {x}]  BY <1>4, <1>7, AnyFirst
<1>11. /\ w[x] \in Nat /\ f[U] \in Nat /\ f[T \ {x}] \in Nat
  BY <1>4, <1>5, <1>7, <1>8
<1>12. f[U] <= f[T]  BY <1>9, <1>10, <1>11
<1> QED  BY <1>4, <1>12

\* The same weights under other names: h names the elements of S that weigh
\* anything, and no two of them the same.
Heavy(w, T) == {x \in T : w[x] # 0}

Renames(h, S, w, D, v) ==
    /\ \A x \in Heavy(w, S) : h[x] \in D /\ w[x] = v[h[x]]
    /\ \A x, y \in Heavy(w, S) : h[x] = h[y] => x = y

Names(h, w, T) == {h[x] : x \in Heavy(w, T)}

LEMMA SumsRenamed ==
    ASSUME NEW S, IsFiniteSet(S), NEW w \in [S -> Nat], NEW f, Sums(f, w, S),
           NEW D, IsFiniteSet(D), NEW v \in [D -> Nat], NEW g, Sums(g, v, D),
           NEW h, Renames(h, S, w, D, v)
    PROVE  \A T \in SUBSET S : f[T] = g[Names(h, w, T)]
<1> DEFINE Bad == {T \in SUBSET S : f[T] # g[Names(h, w, T)]}
           Size == {Cardinality(T) : T \in Bad}
<1> SUFFICES ASSUME Bad # {}  PROVE FALSE  OBVIOUS
<1>1. \A T \in SUBSET S : Cardinality(T) \in Nat  BY FS_Subset, FS_CardinalityType
<1>2. Size \subseteq Nat /\ Size # {}
  <2>1. Bad \subseteq SUBSET S  OBVIOUS
  <2> HIDE DEF Bad
  <2> QED  BY <1>1, <2>1
<1>3. PICK n \in Size : \A j \in Size : n <= j
  <2> HIDE DEF Size
  <2> QED  BY <1>2, LeastOf
<1>4. PICK T \in Bad : Cardinality(T) = n  OBVIOUS
<1>a. T \in SUBSET S /\ f[T] # g[Names(h, w, T)]  BY <1>4
<1>5. T # {}
  <2>1. {} \in SUBSET S /\ {} \in SUBSET D  OBVIOUS
  <2>2. f[{}] = 0 /\ g[{}] = 0  BY <2>1 DEF Sums, Added
  <2>3. Names(h, w, {}) = {}  BY DEF Names, Heavy
  <2> QED  BY <1>4, <2>2, <2>3
<1> DEFINE x == First(T)
           U == T \ {x}
<1>6. x \in T /\ x \in S /\ U \in SUBSET S /\ f[T] = w[x] + f[U]
  <2>1. x \in T /\ U \in SUBSET S  BY <1>5, <1>a, SumsStep
  <2>2. f[T] = w[x] + f[U]  BY <1>5, <1>a, SumsStep
  <2> QED  BY <2>1, <2>2, <1>a
<1>7. /\ Cardinality(T) \in Nat /\ Cardinality(U) \in Nat
      /\ Cardinality(U) = Cardinality(T) - 1
  BY <1>4, <1>6, OneLess
<1>8. f[U] = g[Names(h, w, U)]
  <2>1. U \in Bad => n <= Cardinality(U)
    <3> HIDE DEF Bad, U
    <3> QED  BY <1>3
  <2>2. ~ (n <= Cardinality(U))  BY <1>4, <1>7
  <2> QED  BY <1>6, <2>1, <2>2
<1>9. Names(h, w, T) \in SUBSET D  BY <1>a DEF Renames, Names, Heavy
<1>10. CASE w[x] = 0
  <2>1. Heavy(w, T) = Heavy(w, U)  BY <1>10 DEF Heavy
  <2>2. Names(h, w, T) = Names(h, w, U)  BY <2>1 DEF Names
  <2>3. Names(h, w, U) \in SUBSET D  BY <1>9, <2>2
  <2>4. g[Names(h, w, U)] \in Nat  BY <2>3, SumsNat
  <2> QED  BY <1>a, <1>6, <1>8, <1>10, <2>2, <2>4
<1>11. CASE w[x] # 0
  <2>1. x \in Heavy(w, T) /\ x \in Heavy(w, S)  BY <1>6, <1>11 DEF Heavy
  <2>2. h[x] \in Names(h, w, T) /\ w[x] = v[h[x]]  BY <2>1 DEF Renames, Names
  <2>3. Names(h, w, T) \ {h[x]} = Names(h, w, U)
    <3>1. \A y \in Heavy(w, T) : y \in Heavy(w, S)  BY <1>a DEF Heavy
    <3>2. Heavy(w, U) = Heavy(w, T) \ {x}  BY DEF Heavy
    <3> HIDE DEF U, x
    <3> QED  BY <2>1, <3>1, <3>2 DEF Renames, Names
  <2>4. g[Names(h, w, T)] = v[h[x]] + g[Names(h, w, T) \ {h[x]}]
    BY <1>9, <2>2, AnyFirst
  <2> QED  BY <1>a, <1>6, <1>8, <2>2, <2>3, <2>4
<1> QED  BY <1>10, <1>11

-----------------------------------------------------------------------------
(* The bytes of an array and of the log.                                   *)

LEMMA BytesOfSums ==
    ASSUME NEW S \in SUBSET Entry, IsFiniteSet(S)
    PROVE  \E f : Sums(f, [x \in S |-> x.bytes], S) /\ BytesOf(S) = f[S]
<1> DEFINE w == [x \in S |-> x.bytes]
           Iter(f) == f = [s \in SUBSET S |->
                             IF s = {} THEN 0
                             ELSE (CHOOSE x \in s : TRUE).bytes + f[s \ {CHOOSE x \in s : TRUE}]]
<1>1. w \in [S -> Nat]  BY DEF Entry
<1>2. ASSUME NEW f  PROVE Sums(f, w, S) <=> Iter(f)
  <2>1. \A s \in SUBSET S : Added(f, w, s) =
             IF s = {} THEN 0
             ELSE (CHOOSE x \in s : TRUE).bytes + f[s \ {CHOOSE x \in s : TRUE}]
    <3> SUFFICES ASSUME NEW s \in SUBSET S, s # {}
                 PROVE  w[First(s)] = (CHOOSE x \in s : TRUE).bytes
      BY DEF Added, First
    <3>1. First(s) \in S  BY FirstIn
    <3> QED  BY <3>1 DEF First
  <2> QED  BY <2>1 DEF Sums
<1>3. PICK f : Sums(f, w, S)  BY <1>1, SumsExist
<1>4. Iter(f)  BY <1>2, <1>3
<1>5. BytesOf(S) = (CHOOSE g : Iter(g))[S]
  BY DEF BytesOf, MapThenSumSet, MapThenFoldSet
<1>6. Iter(CHOOSE g : Iter(g))
  <2> HIDE DEF Iter
  <2> QED  BY <1>4
<1> QED  BY <1>2, <1>5, <1>6

LEMMA LoggedBytesSums ==
    ASSUME NEW I \in SUBSET DOMAIN log, IsFiniteSet(I), log \in Seq([ev : Event, at : Nat])
    PROVE  \E f : Sums(f, [i \in I |-> log[i].ev.bytes], I) /\ LoggedBytes(I) = f[I]
<1> DEFINE w == [i \in I |-> log[i].ev.bytes]
           Iter(f) == f = [s \in SUBSET I |->
                             IF s = {} THEN 0
                             ELSE log[CHOOSE x \in s : TRUE].ev.bytes + f[s \ {CHOOSE x \in s : TRUE}]]
<1>1. w \in [I -> Nat]
  <2> DEFINE E == [ev : Event, at : Nat]
  <2>1. \A i \in I : log[i] \in E
    <3>1. log \in Seq(E)  OBVIOUS
    <3> HIDE DEF E
    <3> QED  BY <3>1
  <2> QED  BY <2>1 DEF Event
<1>2. ASSUME NEW f  PROVE Sums(f, w, I) <=> Iter(f)
  <2>1. \A s \in SUBSET I : Added(f, w, s) =
             IF s = {} THEN 0
             ELSE log[CHOOSE x \in s : TRUE].ev.bytes + f[s \ {CHOOSE x \in s : TRUE}]
    <3> SUFFICES ASSUME NEW s \in SUBSET I, s # {}
                 PROVE  w[First(s)] = log[CHOOSE x \in s : TRUE].ev.bytes
      BY DEF Added, First
    <3>1. First(s) \in I  BY FirstIn
    <3> QED  BY <3>1 DEF First
  <2> QED  BY <2>1 DEF Sums
<1>3. PICK f : Sums(f, w, I)  BY <1>1, SumsExist
<1>4. Iter(f)  BY <1>2, <1>3
<1>5. LoggedBytes(I) = (CHOOSE g : Iter(g))[I]
  BY DEF LoggedBytes, MapThenSumSet, MapThenFoldSet
<1>6. Iter(CHOOSE g : Iter(g))
  <2> HIDE DEF Iter
  <2> QED  BY <1>4
<1> QED  BY <1>2, <1>5, <1>6

\* Entries that name different events of I, and carry their bytes: what they sum
\* up to was in the events.
LEMMA BytesBound ==
    ASSUME NEW S \in SUBSET Entry, IsFiniteSet(S), NEW I \in SUBSET DOMAIN log, IsFiniteSet(I),
           log \in Seq([ev : Event, at : Nat]),
           \A x, y \in S : x.id = y.id => x = y,
           \A x \in S : x.id \in I /\ log[x.id].ev.bytes = x.bytes
    PROVE  BytesOf(S) <= LoggedBytes(I) /\ BytesOf(S) \in Nat /\ LoggedBytes(I) \in Nat
<1> DEFINE w == [x \in S |-> x.bytes]
           v == [i \in I |-> log[i].ev.bytes]
           h == [x \in S |-> x.id]
           J == Names(h, w, S)
<1>1. w \in [S -> Nat]  BY DEF Entry
<1>2. v \in [I -> Nat]
  <2> DEFINE E == [ev : Event, at : Nat]
  <2>1. \A i \in I : log[i] \in E
    <3>1. log \in Seq(E)  OBVIOUS
    <3> HIDE DEF E
    <3> QED  BY <3>1
  <2> QED  BY <2>1 DEF Event
<1>3. J \in SUBSET I  BY DEF Names, Heavy
<1>4. Renames(h, S, w, I, v)  BY DEF Renames, Heavy
<1>6. PICK f : Sums(f, w, S) /\ BytesOf(S) = f[S]  BY BytesOfSums
<1>7. PICK g : Sums(g, v, I) /\ LoggedBytes(I) = g[I]  BY LoggedBytesSums
<1>8. f[S] = g[J]
  <2> HIDE DEF w, v, h
  <2>1. Sums(f, w, S) /\ Sums(g, v, I)  BY <1>6, <1>7
  <2>2. IsFiniteSet(S) /\ IsFiniteSet(I)  OBVIOUS
  <2>3. \A T \in SUBSET S : f[T] = g[Names(h, w, T)]
    BY ONLY <1>1, <1>2, <1>4, <2>1, <2>2, SumsRenamed
  <2> QED  BY <2>3
<1>9. g[J] <= g[I] /\ g[I] \in Nat
  <2> HIDE DEF v, J
  <2> QED  BY <1>2, <1>3, <1>7, SumsGrow, SumsNat
<1>10. f[S] \in Nat
  <2> HIDE DEF w
  <2> QED  BY <1>1, <1>6, SumsNat
<1> QED  BY <1>6, <1>7, <1>8, <1>9, <1>10

\* Conversely: events that have their entries in S when they carry bytes.
LEMMA BytesHeld ==
    ASSUME NEW S \in SUBSET Entry, IsFiniteSet(S), NEW I \in SUBSET DOMAIN log, IsFiniteSet(I),
           log \in Seq([ev : Event, at : Nat]),
           \A i \in I : log[i].ev.bytes # 0 =>
                          \E x \in S : x.id = i /\ x.bytes = log[i].ev.bytes
    PROVE  LoggedBytes(I) <= BytesOf(S) /\ BytesOf(S) \in Nat /\ LoggedBytes(I) \in Nat
<1> DEFINE w == [x \in S |-> x.bytes]
           v == [i \in I |-> log[i].ev.bytes]
           h == [i \in I |-> CHOOSE x \in S : x.id = i /\ x.bytes = log[i].ev.bytes]
           J == Names(h, v, I)
<1>1. w \in [S -> Nat]  BY DEF Entry
<1>2. v \in [I -> Nat]
  <2> DEFINE E == [ev : Event, at : Nat]
  <2>1. \A i \in I : log[i] \in E
    <3>1. log \in Seq(E)  OBVIOUS
    <3> HIDE DEF E
    <3> QED  BY <3>1
  <2> QED  BY <2>1 DEF Event
<1>3. \A i \in Heavy(v, I) : h[i] \in S /\ h[i].id = i /\ h[i].bytes = v[i]  BY DEF Heavy
<1>4. J \in SUBSET S /\ Renames(h, I, v, S, w)
  <2> HIDE DEF h, v
  <2> QED  BY <1>3 DEF Names, Renames
<1>6. PICK f : Sums(f, w, S) /\ BytesOf(S) = f[S]  BY BytesOfSums
<1>7. PICK g : Sums(g, v, I) /\ LoggedBytes(I) = g[I]  BY LoggedBytesSums
<1>8. g[I] = f[J]
  <2> HIDE DEF w, v, h
  <2>1. Sums(f, w, S) /\ Sums(g, v, I)  BY <1>6, <1>7
  <2>2. IsFiniteSet(S) /\ IsFiniteSet(I)  OBVIOUS
  <2>3. \A T \in SUBSET I : g[T] = f[Names(h, v, T)]
    BY ONLY <1>1, <1>2, <1>4, <2>1, <2>2, SumsRenamed
  <2> QED  BY <2>3
<1>9. f[J] <= f[S] /\ f[S] \in Nat
  <2> HIDE DEF w, J
  <2> QED  BY <1>1, <1>4, <1>6, SumsGrow, SumsNat
<1>10. g[I] \in Nat
  <2> HIDE DEF v
  <2> QED  BY <1>2, <1>7, SumsNat
<1> QED  BY <1>6, <1>7, <1>8, <1>9, <1>10

-----------------------------------------------------------------------------
(* What the counts stand on.                                               *)

\* Entry x is event x.id of lg, one with an operation of ops.
IsEvent(x, ops, lg) ==
    /\ x.id \in DOMAIN lg /\ lg[x.id].ev.op \in ops /\ ~ lg[x.id].ev.noise
    /\ lg[x.id].ev.on = x.on /\ lg[x.id].ev.bytes = x.bytes /\ lg[x.id].at = x.at

Backed(S, ops, lg) == \A x \in S : IsEvent(x, ops, lg)

\* An event of ops on the path of x came before it, and not long before.
IsAfter(x, ops, lg) ==
    \E i \in DOMAIN lg : /\ i < x.id /\ lg[i].ev.op \in ops /\ ~ lg[i].ev.noise
                         /\ lg[i].ev.on = x.on /\ lg[i].at + Window >= x.at

Follow(S, ops, lg) == \A x \in S : IsAfter(x, ops, lg)

\* Two entries of one path are further apart than the window.
Apart(S) == \A x, y \in S : x.on = y.on /\ x.id < y.id => x.at + Window < y.at

SmallSize(S) == \A x \in S : x.bytes \in 1..(Small - 1)

\* The arrays of the destruction signatures stand on events of lg.
Grounded(r, lg) ==
    /\ Backed(r.deletes, {"delete"}, lg)
    /\ Backed(r.renames, {"encrypt"}, lg)
    /\ Backed(r.writes, {"write"}, lg)
    /\ Backed(r.inPlace, WriteOps, lg) /\ Follow(r.inPlace, ReadOps, lg) /\ Apart(r.inPlace)
    /\ Backed(r.small, ReadOps, lg) /\ SmallSize(r.small) /\ Apart(r.small)
    /\ Backed(r.writeDeletes, {"delete"}, lg) /\ Follow(r.writeDeletes, {"write"}, lg)
    /\ Backed(r.reads, ReadOps, lg)

\* Both survive a longer log.
LEMMA IsEventGrows ==
    ASSUME NEW lg \in Seq(LoggedEvents), NEW v \in LoggedEvents, NEW x, NEW ops
    PROVE  /\ IsEvent(x, ops, lg) => IsEvent(x, ops, Append(lg, v))
           /\ IsAfter(x, ops, lg) => IsAfter(x, ops, Append(lg, v))
<1> DEFINE new == Append(lg, v)
<1>1. DOMAIN lg \subseteq DOMAIN new /\ \A i \in DOMAIN lg : new[i] = lg[i]
  OBVIOUS
<1> HIDE DEF new
<1>2. IsEvent(x, ops, lg) => IsEvent(x, ops, new)  BY <1>1 DEF IsEvent
<1>3. IsAfter(x, ops, lg) => IsAfter(x, ops, new)  BY <1>1 DEF IsAfter
<1> QED  BY <1>2, <1>3 DEF new

LEMMA GroundedGrows ==
    ASSUME NEW lg \in Seq(LoggedEvents), NEW v \in LoggedEvents, NEW r, Grounded(r, lg)
    PROVE  Grounded(r, Append(lg, v))
<1>1. \A S, ops : Backed(S, ops, lg) => Backed(S, ops, Append(lg, v))
  BY IsEventGrows DEF Backed
<1>2. \A S, ops : Follow(S, ops, lg) => Follow(S, ops, Append(lg, v))
  BY IsEventGrows DEF Follow
<1> QED  BY <1>1, <1>2 DEF Grounded

\* Less of an array, and one entry more.
LEMMA BackedFewer ==
    ASSUME NEW S, NEW T \in SUBSET S, NEW ops, NEW lg
    PROVE  /\ Backed(S, ops, lg) => Backed(T, ops, lg)
           /\ Follow(S, ops, lg) => Follow(T, ops, lg)
           /\ Apart(S) => Apart(T) /\ (SmallSize(S) => SmallSize(T))
BY DEF Backed, Follow, Apart, SmallSize

LEMMA BackedMore ==
    ASSUME NEW S, NEW x, NEW ops, NEW lg, Backed(S, ops, lg), IsEvent(x, ops, lg)
    PROVE  Backed(S \cup {x}, ops, lg)
BY DEF Backed

LEMMA FollowMore ==
    ASSUME NEW S, NEW x, NEW ops, NEW lg, Follow(S, ops, lg), IsAfter(x, ops, lg)
    PROVE  Follow(S \cup {x}, ops, lg)
BY DEF Follow

\* The file part of an event looks at these only.
SameArrays(q, r) ==
    /\ q.deletes = r.deletes /\ q.renames = r.renames /\ q.writes = r.writes
    /\ q.inPlace = r.inPlace /\ q.small = r.small /\ q.writeDeletes = r.writeDeletes
    /\ q.reads = r.reads

LEMMA SameGrounded ==
    ASSUME NEW r, NEW q, NEW lg, SameArrays(q, r), Grounded(r, lg)
    PROVE  Grounded(q, lg)
BY DEF SameArrays, Grounded

\* An event is appended with its number, and entry of its own.
LEMMA NewEntry ==
    ASSUME NEW e \in Events, now \in Nat, NEW lg \in Seq(LoggedEvents), ~ e.noise, NEW ops, e.op \in ops
    PROVE  IsEvent(AsEntry(e, Len(lg) + 1), ops, Append(lg, [ev |-> e, at |-> now]))
<1> DEFINE v == [ev |-> e, at |-> now]
           new == Append(lg, v)
           n == Len(lg) + 1
           x == AsEntry(e, n)
<1>1. v \in LoggedEvents /\ n \in Nat /\ v.ev = e /\ v.at = now  BY DEF LoggedEvents
<1>2. x.id = n /\ x.on = e.on /\ x.bytes = e.bytes /\ x.at = now  BY DEF AsEntry
<1> HIDE DEF v, x
<1>3. n \in DOMAIN new /\ new[n] = v  BY <1>1
<1> HIDE DEF new, n
<1>4. IsEvent(x, ops, new)  BY <1>1, <1>2, <1>3 DEF IsEvent
<1> QED  BY <1>4 DEF x, new, n, v

\* An entry y of the row on the same path, still in the window, came before x.
LEMMA AfterIt ==
    ASSUME NEW lg \in Seq(LoggedEvents), NEW v \in LoggedEvents, NEW ops, NEW x, NEW y,
           IsEvent(y, ops, lg), y.on = x.on, y.at + Window >= x.at, x.id = Len(lg) + 1
    PROVE  IsAfter(x, ops, Append(lg, v))
<1> DEFINE new == Append(lg, v)
<1>1. IsEvent(y, ops, new)  BY IsEventGrows
<1>2. y.id < x.id  BY DEF IsEvent
<1> HIDE DEF new
<1>3. IsAfter(x, ops, new)  BY <1>1, <1>2 DEF IsEvent, IsAfter
<1> QED  BY <1>3 DEF new

\* The guard that counts a path once per window keeps its entries apart.
LEMMA ApartMore ==
    ASSUME NEW n \in Nat, NEW S, Array(S, n), Apart(S), now \in Nat,
           NEW x \in Entry, x.id = n + 1, x.at = now, On(Recent(S, Window), x.on) = {}
    PROVE  Apart(S \cup {x})
<1> SUFFICES ASSUME NEW y \in S \cup {x}, NEW z \in S \cup {x}, y.on = z.on, y.id < z.id
             PROVE  y.at + Window < z.at
  BY DEF Apart
<1>1. \A u \in S : u.id \in Nat /\ u.id <= n /\ u.at \in Nat  BY DEF Array, Entry
<1>2. CASE y \in S /\ z \in S  BY <1>2 DEF Apart
<1>3. CASE y \in S /\ z = x
  <2>1. y \notin Recent(S, Window)  BY <1>3 DEF On
  <2>2. ~ (y.at + Window >= now)  BY <1>3, <2>1 DEF Recent
  <2>3. y.at \in Nat /\ Window \in Nat  BY <1>1, <1>3, LedgerAssumption
  <2> QED  BY <1>3, <2>2, <2>3
<1>4. CASE y = x  BY <1>1, <1>4
<1> QED  BY <1>2, <1>3, <1>4

LEMMA PushedIn ==
    ASSUME NEW S, NEW x, NEW w
    PROVE  /\ Push(S, x) \in SUBSET (S \cup {x})
           /\ Recent(Push(S, x), w) \in SUBSET (S \cup {x})
BY DEF Push, Recent

\* The file part of an event, one case at a time.
LEMMA DeletionGrounded ==
    ASSUME NEW e \in Events, e.op = "delete", ~ e.noise, now \in Nat,
           NEW lg \in Seq(LoggedEvents), NEW r \in Row, Grounded(r, lg)
    PROVE  Grounded(Deletion(r, e, Len(lg) + 1), Append(lg, [ev |-> e, at |-> now]))
<1> DEFINE n == Len(lg) + 1
           v == [ev |-> e, at |-> now]
           new == Append(lg, v)
           x == AsEntry(e, n)
           near == On(Recent(r.writes, Window), e.on) # {}
           d == Recent(Push(r.deletes, x), Window)
           w == IF near THEN Recent(Push(r.writeDeletes, x), Window) ELSE r.writeDeletes
           q == Deletion(r, e, n)
<1>1. IsEvent(x, {"delete"}, new)  BY NewEntry
<1>2. v \in LoggedEvents /\ n \in Nat  BY DEF LoggedEvents
<1>3. Grounded(r, new)  BY <1>2, GroundedGrows
<1>4. Backed(d, {"delete"}, new)
  <2>1. d \in SUBSET (r.deletes \cup {x})  BY PushedIn
  <2>2. Backed(r.deletes \cup {x}, {"delete"}, new)  BY <1>1, <1>3, BackedMore DEF Grounded
  <2> HIDE DEF d, new, x
  <2> QED  BY <2>1, <2>2, BackedFewer
<1>5. Backed(w, {"delete"}, new) /\ Follow(w, {"write"}, new)
  <2>1. CASE ~ near  BY <2>1, <1>3 DEF Grounded
  <2>2. CASE near
    <3>1. PICK y \in r.writes : y.on = e.on /\ y.at + Window >= now
      BY <2>2 DEF On, Recent
    <3>2. IsEvent(y, {"write"}, lg)  BY <3>1 DEF Grounded, Backed
    <3>3. x.on = e.on /\ x.at = now /\ x.id = n  BY <1>2, AsEntryType
    <3>4. IsAfter(x, {"write"}, new)
      <4> HIDE DEF x, v
      <4> QED  BY <1>2, <3>1, <3>2, <3>3, AfterIt
    <3>5. w \in SUBSET (r.writeDeletes \cup {x})  BY <2>2, PushedIn
    <3> HIDE DEF w, x, new
    <3>6. /\ Backed(r.writeDeletes \cup {x}, {"delete"}, new)
          /\ Follow(r.writeDeletes \cup {x}, {"write"}, new)
      BY <1>1, <1>3, <3>4, BackedMore, FollowMore DEF Grounded
    <3> QED  BY <3>5, <3>6, BackedFewer
  <2> QED  BY <2>1, <2>2
<1>6. q = [r EXCEPT !.deletes = d, !.writeDeletes = w]  BY DEF Deletion, Row
<1> HIDE DEF d, w, x, new
<1>7. /\ q.deletes = d /\ q.writeDeletes = w /\ q.renames = r.renames /\ q.writes = r.writes
      /\ q.inPlace = r.inPlace /\ q.small = r.small /\ q.reads = r.reads
  BY <1>6 DEF Row
<1> HIDE DEF q
<1>8. Grounded(q, new)  BY <1>3, <1>4, <1>5, <1>7 DEF Grounded
<1> QED  BY <1>8 DEF q, new, v, n

LEMMA WritingGrounded ==
    ASSUME NEW e \in Events, e.op \in WriteOps, ~ e.noise, now \in Nat,
           NEW lg \in Seq(LoggedEvents), NEW r \in Row, FileArrays(r, Len(lg)), Grounded(r, lg)
    PROVE  Grounded(Writing(r, e, Len(lg) + 1), Append(lg, [ev |-> e, at |-> now]))
<1> DEFINE n == Len(lg) + 1
           v == [ev |-> e, at |-> now]
           new == Append(lg, v)
           x == AsEntry(e, n)
           w == IF e.op = "write" /\ e.bytes > 0
                THEN Recent(Push(r.writes, x), Window) ELSE r.writes
           p == IF Overwrites(r, e) THEN Push(r.inPlace, x) ELSE r.inPlace
           m == IF e.op = "encrypt" THEN Recent(Push(r.renames, x), Window) ELSE r.renames
           q == Writing(r, e, n)
<1>1. v \in LoggedEvents /\ n \in Nat /\ Len(lg) \in Nat  BY DEF LoggedEvents
<1>2. Grounded(r, new)  BY <1>1, GroundedGrows
<1>3. \A ops : e.op \in ops => IsEvent(x, ops, new)  BY NewEntry
<1>4. x \in Entry /\ x.on = e.on /\ x.at = now /\ x.id = n  BY <1>1, AsEntryType
<1>5. w \in SUBSET (r.writes \cup {x}) /\ p \in SUBSET (r.inPlace \cup {x})
      /\ m \in SUBSET (r.renames \cup {x})
  BY PushedIn
<1>6. Backed(w, {"write"}, new)
  <2>1. CASE e.op = "write"
    <3>1. IsEvent(x, {"write"}, new)  BY <1>3, <2>1
    <3> HIDE DEF w, x, new
    <3>2. Backed(r.writes \cup {x}, {"write"}, new)  BY <1>2, <3>1, BackedMore DEF Grounded
    <3> QED  BY <1>5, <3>2, BackedFewer
  <2>2. CASE e.op # "write"  BY <2>2, <1>2 DEF Grounded
  <2> QED  BY <2>1, <2>2
<1>7. Backed(m, {"encrypt"}, new)
  <2>1. CASE e.op = "encrypt"
    <3>1. IsEvent(x, {"encrypt"}, new)  BY <1>3, <2>1
    <3> HIDE DEF m, x, new
    <3>2. Backed(r.renames \cup {x}, {"encrypt"}, new)  BY <1>2, <3>1, BackedMore DEF Grounded
    <3> QED  BY <1>5, <3>2, BackedFewer
  <2>2. CASE e.op # "encrypt"  BY <2>2, <1>2 DEF Grounded
  <2> QED  BY <2>1, <2>2
<1>8. Backed(p, WriteOps, new) /\ Follow(p, ReadOps, new) /\ Apart(p)
  <2>1. CASE ~ Overwrites(r, e)  BY <2>1, <1>2 DEF Grounded
  <2>2. CASE Overwrites(r, e)
    <3>1. PICK y \in r.reads : y.on = e.on /\ y.at + Window >= now
      BY <2>2 DEF Overwrites, On, Recent
    <3>2. IsEvent(y, ReadOps, lg)  BY <3>1 DEF Grounded, Backed
    <3>3. IsAfter(x, ReadOps, new)
      <4> HIDE DEF x, v
      <4> QED  BY <1>1, <1>4, <3>1, <3>2, AfterIt
    <3>4. IsEvent(x, WriteOps, new)  BY <1>3
    <3>5. On(Recent(r.inPlace, Window), x.on) = {}  BY <1>4, <2>2 DEF Overwrites
    <3>6. Apart(r.inPlace \cup {x})
      <4> HIDE DEF x
      <4> QED  BY <1>1, <1>4, <3>5, ApartMore DEF FileArrays, Grounded
    <3> HIDE DEF p, x, new
    <3>7. /\ Backed(r.inPlace \cup {x}, WriteOps, new)
          /\ Follow(r.inPlace \cup {x}, ReadOps, new)
      BY <1>2, <3>3, <3>4, BackedMore, FollowMore DEF Grounded
    <3> QED  BY <1>5, <3>6, <3>7, BackedFewer
  <2> QED  BY <2>1, <2>2
<1>9. q = [r EXCEPT !.writes = w, !.inPlace = p, !.renames = m]  BY DEF Writing, Row
<1> HIDE DEF w, p, m, x, new
<1>10. /\ q.writes = w /\ q.inPlace = p /\ q.renames = m /\ q.deletes = r.deletes
       /\ q.small = r.small /\ q.writeDeletes = r.writeDeletes /\ q.reads = r.reads
  BY <1>9 DEF Row
<1> HIDE DEF q
<1>11. Grounded(q, new)  BY <1>2, <1>6, <1>7, <1>8, <1>10 DEF Grounded
<1> QED  BY <1>11 DEF q, new, v, n

LEMMA ReadingGrounded ==
    ASSUME NEW e \in Events, e.op \in ReadOps, ~ e.noise, now \in Nat,
           NEW lg \in Seq(LoggedEvents), NEW r \in Row, FileArrays(r, Len(lg)), Grounded(r, lg),
           NEW kept \in SUBSET r.reads
    PROVE  Grounded(Reading(r, e, Len(lg) + 1, kept), Append(lg, [ev |-> e, at |-> now]))
<1> DEFINE n == Len(lg) + 1
           v == [ev |-> e, at |-> now]
           new == Append(lg, v)
           x == AsEntry(e, n)
           k == (kept \ On(kept, e.on)) \cup {x}
           fresh == e.bytes > 0 /\ e.bytes < Small /\ On(Recent(r.small, Window), e.on) = {}
           s == IF fresh THEN Recent(Push(r.small, x), Window) ELSE r.small
           q == Reading(r, e, n, kept)
<1>1. v \in LoggedEvents /\ n \in Nat /\ Len(lg) \in Nat  BY DEF LoggedEvents
<1>2. Grounded(r, new)  BY <1>1, GroundedGrows
<1>3. IsEvent(x, ReadOps, new)  BY NewEntry
<1>4. /\ x \in Entry /\ x.on = e.on /\ x.at = now /\ x.id = n /\ x.bytes = e.bytes
      /\ e.bytes \in Nat /\ Small \in Nat
  BY <1>1, AsEntryType, LedgerAssumption DEF AsEntry, Event
<1>5. Backed(k, ReadOps, new)
  <2>1. Backed(r.reads \cup {x}, ReadOps, new)  BY <1>2, <1>3, BackedMore DEF Grounded
  <2>2. k \in SUBSET (r.reads \cup {x})  OBVIOUS
  <2> HIDE DEF k, x, new
  <2> QED  BY <2>1, <2>2, BackedFewer
<1>6. Backed(s, ReadOps, new) /\ SmallSize(s) /\ Apart(s)
  <2>1. CASE ~ fresh  BY <2>1, <1>2 DEF Grounded
  <2>2. CASE fresh
    <3>1. s \in SUBSET (r.small \cup {x})  BY <2>2, PushedIn
    <3>2. On(Recent(r.small, Window), x.on) = {}  BY <1>4, <2>2
    <3>3. Apart(r.small \cup {x})
      <4> HIDE DEF x
      <4> QED  BY <1>1, <1>4, <3>2, ApartMore DEF FileArrays, Grounded
    <3>4. x.bytes \in 1..(Small - 1)  BY <1>4, <2>2
    <3>5. SmallSize(r.small \cup {x})  BY <3>4 DEF Grounded, SmallSize
    <3> HIDE DEF s, x, new
    <3>6. Backed(r.small \cup {x}, ReadOps, new)  BY <1>2, <1>3, BackedMore DEF Grounded
    <3> QED  BY <3>1, <3>3, <3>5, <3>6, BackedFewer
  <2> QED  BY <2>1, <2>2
<1>7. q = [r EXCEPT !.reads = k, !.small = s]  BY DEF Reading, Row
<1> HIDE DEF k, s, x, new
<1>8. /\ q.reads = k /\ q.small = s /\ q.deletes = r.deletes /\ q.renames = r.renames
      /\ q.writes = r.writes /\ q.inPlace = r.inPlace /\ q.writeDeletes = r.writeDeletes
  BY <1>7 DEF Row
<1> HIDE DEF q
<1>9. Grounded(q, new)  BY <1>2, <1>5, <1>6, <1>8 DEF Grounded
<1> QED  BY <1>9 DEF q, new, v, n

\* Every entry of S is in the window at time t.
InWindow(S, t) == \A x \in S : x.at + Window >= t

Fresh(r, t) ==
    /\ InWindow(r.deletes, t) /\ InWindow(r.renames, t) /\ InWindow(r.writes, t)
    /\ InWindow(r.inPlace, t) /\ InWindow(r.small, t) /\ InWindow(r.writeDeletes, t)

LEMMA TokensSame ==
    ASSUME NEW e, NEW n, NEW r \in Row
    PROVE  SameArrays(Tokens(r, e, n), r)
BY DEF Tokens, Row, SameArrays

LEMMA SentSame ==
    ASSUME NEW e, NEW n, NEW r \in Row
    PROVE  SameArrays(Sent(r, e, n), r)
BY DEF Sent, Row, SameArrays

LEMMA SweptGrounded ==
    ASSUME NEW lg, NEW r \in Row, Grounded(r, lg)
    PROVE  Grounded(Swept(r), lg) /\ Fresh(Swept(r), now)
<1> DEFINE q == Swept(r)
<1>1. /\ q.deletes = Recent(r.deletes, Window) /\ q.renames = Recent(r.renames, Window)
      /\ q.writes = Recent(r.writes, Window) /\ q.inPlace = Recent(r.inPlace, Window)
      /\ q.small = Recent(r.small, Window) /\ q.writeDeletes = Recent(r.writeDeletes, Window)
      /\ q.reads = r.reads
  BY DEF Swept, Row
<1>2. \A S : Recent(S, Window) \in SUBSET S /\ InWindow(Recent(S, Window), now)
  BY DEF Recent, InWindow
<1> HIDE DEF q
<1>3. Fresh(q, now)  BY <1>1, <1>2 DEF Fresh
<1>4. \A S, ops : Backed(S, ops, lg) => Backed(Recent(S, Window), ops, lg)
  BY <1>2, BackedFewer
<1>5. \A S, ops : Follow(S, ops, lg) => Follow(Recent(S, Window), ops, lg)
  BY <1>2, BackedFewer
<1>6. \A S : /\ Apart(S) => Apart(Recent(S, Window))
             /\ SmallSize(S) => SmallSize(Recent(S, Window))
  BY <1>2 DEF Apart, SmallSize
<1>7. Grounded(q, lg)  BY <1>1, <1>4, <1>5, <1>6 DEF Grounded
<1> QED  BY <1>3, <1>7 DEF q

LEMMA NotedGrounded ==
    ASSUME NEW e \in Events, now \in Nat, NEW lg \in Seq(LoggedEvents), NEW r \in Row,
           FileArrays(r, Len(lg)), Grounded(r, lg), NEW kept \in SUBSET r.reads
    PROVE  Grounded(Noted(r, e, Len(lg) + 1, kept), Append(lg, [ev |-> e, at |-> now]))
<1> DEFINE n == Len(lg) + 1
           v == [ev |-> e, at |-> now]
           q == Noted(r, e, n, kept)
<1>1. CASE q = r
  <2>1. v \in LoggedEvents  BY DEF LoggedEvents
  <2> QED  BY <1>1, <2>1, GroundedGrows
<1>2. CASE e.op = "delete" /\ ~ e.noise
  <2>1. q = Deletion(r, e, n)  BY <1>2 DEF Noted, WriteOps, ReadOps
  <2> QED  BY <1>2, <2>1, DeletionGrounded
<1>3. CASE e.op \in WriteOps /\ ~ e.noise
  <2>1. q = Writing(r, e, n)  BY <1>3 DEF Noted, WriteOps, ReadOps
  <2> QED  BY <1>3, <2>1, WritingGrounded
<1>4. CASE e.op \in ReadOps /\ ~ e.noise
  <2>1. q = Reading(r, e, n, kept)  BY <1>4 DEF Noted, WriteOps, ReadOps
  <2> QED  BY <1>4, <2>1, ReadingGrounded
<1>5. CASE e.noise
  <2>1. q = r  BY <1>5 DEF Noted, WriteOps, ReadOps
  <2> QED  BY <1>1, <2>1
<1>6. CASE ~ e.noise /\ e.op # "delete" /\ e.op \notin WriteOps /\ e.op \notin ReadOps
  <2>1. q = r  BY <1>6 DEF Noted
  <2> QED  BY <1>1, <2>1
<1> QED  BY <1>2, <1>3, <1>4, <1>5, <1>6

\* A file event, from the row it meets to the swept row its alarms are read off.
LEMMA FileGrounded ==
    ASSUME LedgerInv, NEW e \in Events, NEW r, NEW kept \in {r.reads, Recent(r.reads, Window)},
           r = [Current EXCEPT !.lastSeen = now], Grounded(r, log), NEW q,
           q = Swept(Noted(Tokens(r, e, Len(log) + 1), e, Len(log) + 1, kept))
    PROVE  Grounded(q, Append(log, [ev |-> e, at |-> now])) /\ Fresh(q, now)
<1> DEFINE new == Append(log, [ev |-> e, at |-> now])
           n == Len(log)
           a == Tokens(r, e, n + 1)
           b == Noted(a, e, n + 1, kept)
<1>1. r \in Row /\ Remembered(r, log)  BY CurrentFacts
<1>2. now \in Nat /\ log \in Seq(LoggedEvents) /\ n \in Nat
  BY LogType DEF LedgerInv
<1>3. kept \in SUBSET r.reads /\ kept \in SUBSET Entry  BY <1>1 DEF Row, Recent
<1>4. a \in Row /\ FileArrays(a, n)
  BY <1>1, <1>2, TokensFacts DEF Remembered
<1>5. SameArrays(a, r)  BY <1>1, TokensSame
<1> HIDE DEF a
<1>6. Grounded(a, log) /\ kept \in SUBSET a.reads
  BY <1>3, <1>5, SameGrounded DEF SameArrays
<1>7. b \in Row  BY <1>2, <1>3, <1>4, NotedFacts
<1>8. Grounded(b, new)  BY <1>2, <1>4, <1>6, NotedGrounded
<1>9. q = Swept(b)  BY DEF a, b, n
<1> HIDE DEF b, new
<1> QED  BY <1>7, <1>8, <1>9, SweptGrounded DEF new

-----------------------------------------------------------------------------
(* From the arrays to the log.                                             *)

\* An array has no more entries than a set that holds their numbers, or their
\* paths when these differ.
LEMMA IdsBound ==
    ASSUME NEW n, NEW S, Array(S, n), NEW I, IsFiniteSet(I), \A x \in S : x.id \in I
    PROVE  Cardinality(S) <= Cardinality(I)
<1> DEFINE f == [x \in S |-> x.id]
<1>1. f \in [S -> I]  OBVIOUS
<1>2. \A x, y \in S : f[x] = f[y] => x = y  BY DEF Array
<1> HIDE DEF f
<1>3. f \in Injection(S, I)  BY <1>1, <1>2 DEF Injection, IsInjective
<1> QED  BY <1>3, FS_Injection

LEMMA PathsBound ==
    ASSUME NEW S, NEW P, IsFiniteSet(P), \A x \in S : x.on \in P,
           \A x, y \in S : x.on = y.on => x = y
    PROVE  Cardinality(S) <= Cardinality(P)
<1> DEFINE f == [x \in S |-> x.on]
<1>1. f \in [S -> P]  OBVIOUS
<1>2. \A x, y \in S : f[x] = f[y] => x = y  OBVIOUS
<1> HIDE DEF f
<1>3. f \in Injection(S, P)  BY <1>1, <1>2 DEF Injection, IsInjective
<1> QED  BY <1>3, FS_Injection

LEMMA DomainFinite ==
    ASSUME TypeOK, NEW I \in SUBSET DOMAIN log
    PROVE  IsFiniteSet(I) /\ Cardinality(I) \in Nat
<1>1. log \in Seq(LoggedEvents) /\ Len(log) \in Nat  BY LogType
<1>2. DOMAIN log = 1..Len(log)  BY <1>1
<1>3. IsFiniteSet(1..Len(log))  BY <1>1, FS_Interval
<1>4. IsFiniteSet(I)  BY <1>2, <1>3, FS_Subset
<1> QED  BY <1>4, FS_CardinalityType

LEMMA PathsFinite ==
    ASSUME TypeOK, NEW I \in SUBSET DOMAIN log
    PROVE  IsFiniteSet(Paths(I)) /\ Cardinality(Paths(I)) \in Nat
<1> DEFINE f == [i \in I |-> log[i].ev.on]
<1>1. f \in [I -> Paths(I)] /\ \A p \in Paths(I) : \E i \in I : f[i] = p  BY DEF Paths
<1> HIDE DEF f
<1>2. f \in Surjection(I, Paths(I))  BY <1>1 DEF Surjection
<1>3. IsFiniteSet(Paths(I))  BY <1>2, DomainFinite, FS_Surjection
<1> QED  BY <1>3, FS_CardinalityType

LEMMA LatelyIn ==
    ASSUME NEW ops
    PROVE  Lately(ops) \in SUBSET DOMAIN log
BY DEF Lately, Logged

\* An entry in the window names an event in the window.
LEMMA InLately ==
    ASSUME NEW S, NEW ops, Backed(S, ops, log), InWindow(S, now)
    PROVE  \A x \in S : x.id \in Lately(ops)
BY DEF Backed, IsEvent, InWindow, Lately, Logged

\* No two entries in the window are of one path.
LEMMA OncePerPath ==
    ASSUME TypeOK, NEW n, NEW S, Array(S, n), NEW ops, Backed(S, ops, log),
           InWindow(S, now), Apart(S)
    PROVE  \A x, y \in S : x.on = y.on => x = y
<1> SUFFICES ASSUME NEW x \in S, NEW y \in S, x.on = y.on, x # y  PROVE FALSE  OBVIOUS
<1>1. x.id \in Nat /\ y.id \in Nat /\ x.id # y.id /\ x.at \in Nat /\ y.at \in Nat
  BY DEF Array, Entry
<1>2. now \in Nat /\ Window \in Nat  BY LogType, LedgerAssumption
<1>3. x.at <= now /\ y.at <= now
  <2> DEFINE T == [ev : Events, at : 1..now]
  <2>1. \A i \in DOMAIN log : log[i] \in T
    <3>1. log \in Seq(T)  BY DEF TypeOK
    <3> HIDE DEF T
    <3> QED  BY <3>1
  <2>2. \A i \in DOMAIN log : log[i].at <= now  BY <1>2, <2>1
  <2> QED  BY <2>2 DEF Backed, IsEvent
<1>4. x.at + Window >= now /\ y.at + Window >= now  BY DEF InWindow
<1>5. CASE x.id < y.id
  <2>1. x.at + Window < y.at  BY <1>5 DEF Apart
  <2> QED  BY <1>1, <1>2, <1>3, <1>4, <2>1
<1>6. CASE y.id < x.id
  <2>1. y.at + Window < x.at  BY <1>6 DEF Apart
  <2> QED  BY <1>1, <1>2, <1>3, <1>4, <2>1
<1> QED  BY <1>1, <1>5, <1>6

\* The counter of a row in the window is no more than what the log shows.
LEMMA CountBound ==
    ASSUME TypeOK, NEW r, FileArrays(r, Len(log)), Grounded(r, log), Fresh(r, now),
           NEW k \in Signatures
    PROVE  Count(r, k) <= Evidence[k] /\ Count(r, k) \in Nat /\ Evidence[k] \in Nat
<1> USE DEF FileArrays, Grounded, Fresh
<1>1. \A S : Array(S, Len(log)) => IsFiniteSet(S) /\ Cardinality(S) \in Nat
  BY FS_CardinalityType DEF Array
<1>2. CASE k = "deletes"
  <2> DEFINE I == Lately({"delete"})
  <2>1. \A x \in r.deletes : x.id \in I  BY InLately
  <2>2. I \in SUBSET DOMAIN log  BY LatelyIn
  <2>3. IsFiniteSet(I) /\ Cardinality(I) \in Nat  BY <2>2, DomainFinite
  <2>4. Cardinality(r.deletes) <= Cardinality(I)  BY <2>1, <2>3, IdsBound
  <2>5. Evidence[k] = Cardinality(I) /\ Count(r, k) = Cardinality(r.deletes)
    BY <1>2 DEF Evidence, Count
  <2> QED  BY <1>1, <2>3, <2>4, <2>5
<1>3. CASE k = "renames"
  <2> DEFINE I == Lately({"encrypt"})
  <2>1. \A x \in r.renames : x.id \in I  BY InLately
  <2>2. I \in SUBSET DOMAIN log  BY LatelyIn
  <2>3. IsFiniteSet(I) /\ Cardinality(I) \in Nat  BY <2>2, DomainFinite
  <2>4. Cardinality(r.renames) <= Cardinality(I)  BY <2>1, <2>3, IdsBound
  <2>5. Evidence[k] = Cardinality(I) /\ Count(r, k) = Cardinality(r.renames)
    BY <1>3 DEF Evidence, Count
  <2> QED  BY <1>1, <2>3, <2>4, <2>5
<1>4. CASE k = "bytes"
  <2> DEFINE I == Lately({"write"})
             S == r.writes
  <2>1. \A x \in S : x.id \in I  BY InLately
  <2>2. I \in SUBSET DOMAIN log  BY LatelyIn
  <2>3. IsFiniteSet(I)  BY <2>2, DomainFinite
  <2>4. \A x \in S : log[x.id].ev.bytes = x.bytes  BY DEF Backed, IsEvent
  <2>5. S \in SUBSET Entry /\ IsFiniteSet(S) /\ \A x, y \in S : x.id = y.id => x = y
    BY DEF Array
  <2>6. log \in Seq([ev : Event, at : Nat])
    <3> DEFINE T == [ev : Event, at : Nat]
    <3>1. LoggedEvents \subseteq T  BY LedgerAssumption DEF LoggedEvents
    <3>2. log \in Seq(LoggedEvents)  BY LogType
    <3> HIDE DEF T
    <3>3. log \in Seq(T)  BY <3>1, <3>2
    <3> QED  BY <3>3 DEF T
  <2> HIDE DEF I, S
  <2>7. BytesOf(S) <= LoggedBytes(I) /\ BytesOf(S) \in Nat /\ LoggedBytes(I) \in Nat
    BY ONLY <2>1, <2>2, <2>3, <2>4, <2>5, <2>6, BytesBound
  <2>8. Evidence[k] = LoggedBytes(I) /\ Count(r, k) = BytesOf(S)
    BY <1>4 DEF Evidence, Count, I, S
  <2> QED  BY <2>7, <2>8
<1>5. CASE k = "inPlace"
  <2> DEFINE S == r.inPlace
             I == {j \in Lately(WriteOps) : Before(j, Logged(ReadOps), Window) # {}}
  <2>1. \A x \in S : x.id \in Lately(WriteOps)  BY InLately
  <2>2. ASSUME NEW x \in S  PROVE Before(x.id, Logged(ReadOps), Window) # {}
    <3>1. IsEvent(x, WriteOps, log) /\ IsAfter(x, ReadOps, log)  BY DEF Backed, Follow
    <3>2. PICK i \in DOMAIN log : /\ i < x.id /\ log[i].ev.op \in ReadOps /\ ~ log[i].ev.noise
                                  /\ log[i].ev.on = x.on /\ log[i].at + Window >= x.at
      BY <3>1 DEF IsAfter
    <3>3. i \in Before(x.id, Logged(ReadOps), Window)
      BY <3>1, <3>2 DEF Before, Logged, IsEvent
    <3> QED  BY <3>3
  <2>3. \A x \in S : x.id \in I /\ log[x.id].ev.on = x.on
    BY <2>1, <2>2 DEF Backed, IsEvent
  <2>4. \A x \in S : x.on \in Paths(I)  BY <2>3 DEF Paths
  <2>5. I \in SUBSET DOMAIN log  BY LatelyIn
  <2>6. \A x, y \in S : x.on = y.on => x = y  BY OncePerPath
  <2> HIDE DEF I, S
  <2>7. IsFiniteSet(Paths(I)) /\ Cardinality(Paths(I)) \in Nat  BY <2>5, PathsFinite
  <2>8. Cardinality(S) <= Cardinality(Paths(I))  BY <2>4, <2>6, <2>7, PathsBound
  <2>9. Evidence[k] = Cardinality(Paths(I)) /\ Count(r, k) = Cardinality(S)
    BY <1>5 DEF Evidence, Count, I, S
  <2>10. Cardinality(S) \in Nat  BY <1>1 DEF S
  <2> QED  BY <2>7, <2>8, <2>9, <2>10
<1>6. CASE k = "small"
  <2> DEFINE S == r.small
             I == {j \in Lately(ReadOps) : log[j].ev.bytes \in 1..(Small - 1)}
  <2>1. \A x \in S : x.id \in Lately(ReadOps)  BY InLately
  <2>2. \A x \in S : x.bytes \in 1..(Small - 1)  BY DEF SmallSize
  <2>3. \A x \in S : x.id \in I /\ log[x.id].ev.on = x.on
    BY <2>1, <2>2 DEF Backed, IsEvent
  <2>4. \A x \in S : x.on \in Paths(I)  BY <2>3 DEF Paths
  <2>5. I \in SUBSET DOMAIN log  BY LatelyIn
  <2>6. \A x, y \in S : x.on = y.on => x = y  BY OncePerPath
  <2> HIDE DEF I, S
  <2>7. IsFiniteSet(Paths(I)) /\ Cardinality(Paths(I)) \in Nat  BY <2>5, PathsFinite
  <2>8. Cardinality(S) <= Cardinality(Paths(I))  BY <2>4, <2>6, <2>7, PathsBound
  <2>9. Evidence[k] = Cardinality(Paths(I)) /\ Count(r, k) = Cardinality(S)
    BY <1>6 DEF Evidence, Count, I, S
  <2>10. Cardinality(S) \in Nat  BY <1>1 DEF S
  <2> QED  BY <2>7, <2>8, <2>9, <2>10
<1>7. CASE k = "writeDeletes"
  <2> DEFINE S == r.writeDeletes
             I == {j \in Lately({"delete"}) : Before(j, Logged({"write"}), Window) # {}}
  <2>1. \A x \in S : x.id \in Lately({"delete"})  BY InLately
  <2>2. ASSUME NEW x \in S  PROVE Before(x.id, Logged({"write"}), Window) # {}
    <3>1. IsEvent(x, {"delete"}, log) /\ IsAfter(x, {"write"}, log)  BY DEF Backed, Follow
    <3>2. PICK i \in DOMAIN log : /\ i < x.id /\ log[i].ev.op \in {"write"} /\ ~ log[i].ev.noise
                                  /\ log[i].ev.on = x.on /\ log[i].at + Window >= x.at
      BY <3>1 DEF IsAfter
    <3>3. i \in Before(x.id, Logged({"write"}), Window)
      BY <3>1, <3>2 DEF Before, Logged, IsEvent
    <3> QED  BY <3>3
  <2>3. \A x \in S : x.id \in I  BY <2>1, <2>2
  <2>4. I \in SUBSET DOMAIN log  BY LatelyIn
  <2> HIDE DEF I
  <2>5. IsFiniteSet(I) /\ Cardinality(I) \in Nat  BY <2>4, DomainFinite
  <2>6. Cardinality(S) <= Cardinality(I)  BY <2>3, <2>5, IdsBound
  <2>7. Evidence[k] = Cardinality(I) /\ Count(r, k) = Cardinality(S)
    BY <1>7 DEF Evidence, Count, I
  <2> QED  BY <1>1, <2>5, <2>6, <2>7
<1> QED  BY <1>2, <1>3, <1>4, <1>5, <1>6, <1>7 DEF Signatures

-----------------------------------------------------------------------------
(* The destruction alarms.                                                 *)

LEMMA KindsDiffer ==
    /\ \A j, k \in Signatures : Kind[j] = Kind[k] => j = k
    /\ \A k \in Signatures : Kind[k] # "n3-ransom"
BY DEF Kind, Signatures

\* What a destruction alarm says of the counters.
LEMMA DestroyMeans ==
    ASSUME NEW r
    PROVE  LET met == {k \in Signatures : Count(r, k) >= Threshold(r.suspected, k)} IN
           /\ \A k \in Signatures : Kind[k] \in DestroyChecks(r) => k \in met
           /\ "n3-ransom" \in DestroyChecks(r) => Cardinality(met \cap Destruction) >= 2
<1> DEFINE met == {k \in Signatures : Count(r, k) >= Threshold(r.suspected, k)}
           two == Cardinality(met \cap Destruction) >= 2
           red == (IF two THEN {"n3-ransom"} ELSE {})
                  \cup {Kind[k] : k \in met \cap {"writeDeletes"}}
<1>1. met \subseteq Signatures  OBVIOUS
<1>2. DestroyChecks(r) = IF red = {} THEN {Kind[k] : k \in met} ELSE red
  BY DEF DestroyChecks
<1> HIDE DEF met, two
<1>3. \A k \in Signatures : Kind[k] \in DestroyChecks(r) => k \in met
  BY <1>1, <1>2, KindsDiffer
<1>4. "n3-ransom" \in DestroyChecks(r) => two
  BY <1>1, <1>2, KindsDiffer
<1> QED  BY <1>3, <1>4 DEF met, two

LEMMA ThresholdType ==
    ASSUME NEW s, NEW k \in Signatures
    PROVE  Threshold(s, k) \in Int
<1>1. Limit[k] \in Nat /\ Least[k] \in Nat /\ Factor \in Nat \ {0}  BY LedgerAssumption
<1>2. Limit[k] \div Factor \in Int  BY <1>1
<1> QED  BY <1>1, <1>2 DEF Threshold

\* The arrays stand on the log, and a destruction alarm on the swept arrays.
Backing ==
    /\ row # NoRow => Grounded(row, log)
    /\ raised \cap DestroyKinds # {} =>
         /\ row # NoRow /\ Fresh(row, now)
         /\ raised \cap DestroyKinds = DestroyChecks(row)

LEMMA KindsApart ==
    DestroyKinds \cap (ExfilKinds \cup {"n3-spawn-net-match"}) = {}
BY KindNames DEF DestroyKinds, ExfilKinds

LEMMA NewRowGrounded ==
    ASSUME NEW lg
    PROVE  Grounded(NewRow, lg)
BY DEF NewRow, Grounded, Backed, Follow, Apart, SmallSize

LEMMA CurrentGrounded ==
    ASSUME LedgerInv, Backing, NEW r, r = [Current EXCEPT !.lastSeen = now]
    PROVE  Grounded(r, log)
<1> DEFINE c == Current
<1>1. c \in Row  BY NewRowFacts DEF LedgerInv, TypeOK, Current
<1>2. Grounded(c, log)  BY NewRowGrounded DEF Current, Backing
<1> HIDE DEF c
<1>3. r = [c EXCEPT !.lastSeen = now]  BY DEF c
<1>4. SameArrays(r, c)  BY <1>1, <1>3 DEF Row, SameArrays
<1> QED  BY <1>2, <1>4, SameGrounded

LEMMA ObserveBacking ==
    ASSUME LedgerInv, Backing, NEW e \in Events, Observe(e)
    PROVE  Backing'
<1> DEFINE n == Len(log) + 1
           r == [Current EXCEPT !.lastSeen = now]
           v == [ev |-> e, at |-> now]
           new == Append(log, v)
<1>1. now' = now /\ log' = new  BY DEF Observe
<1>2. /\ Grounded(row', new)
      /\ raised' \cap DestroyKinds # {} =>
           /\ Fresh(row', now)
           /\ raised' \cap DestroyKinds = DestroyChecks(row')
  <2>1. CASE e.op = "net"
    <3>1. row' = Sent(r, e, n) /\ raised' = ExfilChecks(row') \cup SpawnNetChecks(row')
      BY <2>1 DEF Observe
    <3>2. SpawnNetChecks(row') \subseteq {"n3-spawn-net-match"}  BY DEF SpawnNetChecks
    <3>3. raised' \cap DestroyKinds = {}  BY <3>1, <3>2, ExfilFacts, KindsApart
    <3> HIDE DEF r
    <3>4. r \in Row /\ Grounded(r, log)  BY CurrentFacts, CurrentGrounded DEF r
    <3>5. Grounded(row', log)  BY <3>1, <3>4, SentSame, SameGrounded
    <3>6. log \in Seq(LoggedEvents) /\ v \in LoggedEvents
      BY LogType DEF LedgerInv, LoggedEvents
    <3>7. Grounded(row', new)
      <4> HIDE DEF v
      <4> QED  BY <3>5, <3>6, GroundedGrows
    <3> QED  BY <3>3, <3>7
  <2>2. CASE e.op # "net"
    <3>1. PICK kept \in {r.reads, Recent(r.reads, Window)} :
             /\ row' = Swept(Noted(Tokens(r, e, n), e, n, kept))
             /\ raised' = ExfilChecks(row') \cup DestroyChecks(row')
      BY <2>2 DEF Observe
    <3>2. raised' \cap DestroyKinds = DestroyChecks(row')
      BY <3>1, ExfilFacts, DestroyFacts, KindsApart
    <3>3. Grounded(r, log)
      <4> HIDE DEF r
      <4> QED  BY CurrentGrounded DEF r
    <3>4. Grounded(row', new) /\ Fresh(row', now)  BY <3>1, <3>3, FileGrounded
    <3> QED  BY <3>2, <3>4
  <2> QED  BY <2>1, <2>2
<1>3. row' # NoRow
  <2>1. row' \in Row
    <3>1. LedgerInv'  BY ObserveStep
    <3>2. CASE e.op = "net"
      <4>1. row' = Sent(r, e, n)  BY <3>2 DEF Observe
      <4> HIDE DEF r
      <4> QED  BY <3>2, <4>1, SendStep DEF r
    <3>3. CASE e.op # "net"
      <4>1. PICK kept \in {r.reads, Recent(r.reads, Window)} :
               row' = Swept(Noted(Tokens(r, e, n), e, n, kept))
        BY <3>3 DEF Observe
      <4> QED  BY <4>1, FileStep
    <3> QED  BY <3>2, <3>3
  <2> QED  BY <2>1, NoRowAssumption
<1> HIDE DEF new
<1> QED  BY <1>1, <1>2, <1>3 DEF Backing

\* Backing is inductive together with LedgerInv.
THEOREM BackingInvariant == Spec => []Backing
<1>1. Init => Backing  BY DEF Init, Backing
<1>2. LedgerInv /\ Backing /\ [Next]_vars => Backing'
  <2> SUFFICES ASSUME LedgerInv, Backing, [Next]_vars  PROVE Backing'  OBVIOUS
  <2>1. ASSUME NEW e \in Events, Observe(e)  PROVE Backing'  BY <2>1, ObserveBacking
  <2>2. CASE MarkSuspected
    <3> DEFINE c == IF row = NoRow THEN NewRow ELSE row
    <3>1. c \in Row /\ Grounded(c, log)
      BY NewRowFacts, NewRowGrounded DEF LedgerInv, TypeOK, Backing
    <3>2. row' = [c EXCEPT !.suspected = TRUE] /\ raised' = {} /\ log' = log
      BY <2>2 DEF MarkSuspected
    <3> HIDE DEF c
    <3>3. SameArrays(row', c)  BY <3>1, <3>2 DEF Row, SameArrays
    <3>4. Grounded(row', log')  BY <3>1, <3>2, <3>3, SameGrounded
    <3> QED  BY <3>2, <3>4 DEF Backing
  <2>3. CASE Sweep  BY <2>3 DEF Sweep, Backing
  <2>4. CASE Tick  BY <2>4 DEF Tick, Backing
  <2>5. CASE Restart  BY <2>5 DEF Restart, Backing
  <2>6. CASE UNCHANGED vars  BY <2>6 DEF vars, Backing
  <2> QED  BY <2>1, <2>2, <2>3, <2>4, <2>5, <2>6 DEF Next
<1> QED  BY <1>1, <1>2, LedgerInvariant, PTL DEF Spec

-----------------------------------------------------------------------------
(* What the arrays keep.                                                   *)

\* The events of lg an array is about: those with an operation of ops, the writes
\* of some bytes, the tools started with a host, and the reads of secrets.
Of(lg, ops) == {i \in DOMAIN lg : lg[i].ev.op \in ops /\ ~ lg[i].ev.noise}
Filled(lg) == {i \in Of(lg, {"write"}) : lg[i].ev.bytes > 0}
Tools(lg) == {i \in DOMAIN lg : lg[i].ev.op = "spawn" /\ lg[i].ev.on # ""}
Secrets(lg) == {i \in DOMAIN lg : lg[i].ev.op = "read" /\ lg[i].ev.secret /\ lg[i].ev.bytes > 0}

\* The latest Cap events of I have their entries while they are in the window.
Keeps(S, I, lg, w, t) == \A i \in Held(I) : lg[i].at + w >= t => \E x \in S : x.id = i

FileKeeping(r, lg, t) ==
    /\ Keeps(r.deletes, Of(lg, {"delete"}), lg, Window, t)
    /\ Keeps(r.renames, Of(lg, {"encrypt"}), lg, Window, t)
    /\ Keeps(r.writes, Filled(lg), lg, Window, t)
    /\ \A x \in r.writes : x.bytes > 0

HostKeeping(r, lg, t) ==
    /\ Keeps(r.spawns, Tools(lg), lg, SpawnWindow, t)
    /\ \A x \in r.spawns : x.on # ""
    /\ \A i \in Secrets(lg) : lg[i].at + Assoc >= t => lg[i].at <= r.lastSecret
    /\ r.lastSecret <= t
    /\ r.lastSecret # 0 => r.secretBytes > 0

\* new is lg and one event more.
Longer(new, lg, v) ==
    /\ lg \in Seq(LoggedEvents) /\ v \in LoggedEvents /\ new = Append(lg, v)

Prefix(lg, new) == \A i \in DOMAIN lg : new[i] = lg[i]

LEMMA LongerFacts ==
    ASSUME NEW lg, NEW v, NEW new, Longer(new, lg, v)
    PROVE  /\ Len(lg) \in Nat /\ DOMAIN lg = 1..Len(lg)
           /\ DOMAIN new = DOMAIN lg \cup {Len(lg) + 1} /\ Len(lg) + 1 \notin DOMAIN lg
           /\ Prefix(lg, new) /\ new[Len(lg) + 1] = v
BY DEF Longer, Prefix

\* The events of a longer log.
LEMMA LongerSets ==
    ASSUME NEW lg, NEW v, NEW new, Longer(new, lg, v)
    PROVE  LET plus(c) == IF c THEN {Len(lg) + 1} ELSE {} IN
           /\ \A ops : Of(new, ops) = Of(lg, ops) \cup plus(v.ev.op \in ops /\ ~ v.ev.noise)
           /\ Filled(new) = Filled(lg) \cup plus(v.ev.op = "write" /\ ~ v.ev.noise /\ v.ev.bytes > 0)
           /\ Tools(new) = Tools(lg) \cup plus(v.ev.op = "spawn" /\ v.ev.on # "")
           /\ Secrets(new) = Secrets(lg) \cup
                               plus(v.ev.op = "read" /\ v.ev.secret /\ v.ev.bytes > 0)
<1> DEFINE n == Len(lg) + 1
<1>1. /\ DOMAIN new = DOMAIN lg \cup {n} /\ n \notin DOMAIN lg
      /\ Prefix(lg, new) /\ new[n] = v
  BY LongerFacts
<1> HIDE DEF n
<1> USE DEF Prefix
<1>2. ASSUME NEW ops
      PROVE  Of(new, ops) = Of(lg, ops) \cup (IF v.ev.op \in ops /\ ~ v.ev.noise THEN {n} ELSE {})
  BY <1>1 DEF Of
<1>3. Filled(new) = Filled(lg) \cup
        (IF v.ev.op = "write" /\ ~ v.ev.noise /\ v.ev.bytes > 0 THEN {n} ELSE {})
  BY <1>1 DEF Filled, Of
<1>4. Tools(new) = Tools(lg) \cup (IF v.ev.op = "spawn" /\ v.ev.on # "" THEN {n} ELSE {})
  BY <1>1 DEF Tools
<1>5. Secrets(new) = Secrets(lg) \cup
        (IF v.ev.op = "read" /\ v.ev.secret /\ v.ev.bytes > 0 THEN {n} ELSE {})
  BY <1>1 DEF Secrets
<1> QED  BY <1>2, <1>3, <1>4, <1>5 DEF n

\* Entries that are events of lg, of I.
Entries(S, I, lg) == \A x \in S : x.id \in I /\ lg[x.id].at = x.at

LEMMA KeepsLonger ==
    ASSUME NEW lg, NEW v, NEW new, Longer(new, lg, v), NEW I \in SUBSET DOMAIN lg, NEW S, NEW w, NEW t,
           Keeps(S, I, lg, w, t)
    PROVE  Keeps(S, I, new, w, t)
<1>1. Prefix(lg, new)  BY LongerFacts
<1> QED  BY <1>1 DEF Keeps, Held, Prefix

LEMMA KeepsLater ==
    ASSUME NEW lg, NEW I, NEW S, NEW w \in Nat, NEW t \in Nat, NEW u \in Nat, t <= u,
           \A i \in I : lg[i].at \in Nat, Keeps(S, I, lg, w, t)
    PROVE  Keeps(S, I, lg, w, u)
<1> SUFFICES ASSUME NEW i \in Held(I), lg[i].at + w >= u  PROVE \E x \in S : x.id = i
  BY DEF Keeps
<1>1. lg[i].at \in Nat  BY DEF Held
<1>2. lg[i].at + w >= t  BY <1>1
<1> QED  BY <1>2 DEF Keeps

LEMMA KeepsRecent ==
    ASSUME NEW lg, NEW I, NEW S, NEW w, Keeps(S, I, lg, w, now), Entries(S, I, lg)
    PROVE  Keeps(Recent(S, w), I, lg, w, now)
<1> SUFFICES ASSUME NEW i \in Held(I), lg[i].at + w >= now
             PROVE  \E x \in Recent(S, w) : x.id = i
  BY DEF Keeps
<1>1. PICK x \in S : x.id = i  BY DEF Keeps
<1>2. x.at + w >= now  BY <1>1 DEF Entries
<1> QED  BY <1>1, <1>2 DEF Recent

\* A push loses an entry only for Cap newer ones.
LEMMA KeepsPush ==
    ASSUME NEW n \in Nat, NEW S, Array(S, n), NEW x \in Entry, x.id = n + 1, x.at = now, now \in Nat,
           NEW I \in SUBSET (1..n), NEW lg, Entries(S, I, lg), NEW w \in Nat,
           Keeps(S, I, lg, w, now), NEW new, \A i \in 1..n : new[i] = lg[i]
    PROVE  Keeps(Recent(Push(S, x), w), I \cup {n + 1}, new, w, now)
<1> DEFINE J == I \cup {n + 1}
           all == S \cup {x}
           newer(y) == {z \in all : z.id > y.id}
           later(i) == {j \in J : j > i}
<1> SUFFICES ASSUME NEW i \in Held(J), new[i].at + w >= now
             PROVE  \E y \in Recent(Push(S, x), w) : y.id = i
  BY DEF Keeps
<1>1. i \in J /\ Cardinality(later(i)) < Cap  BY DEF Held
<1>2. IsFiniteSet(1..n) /\ IsFiniteSet(I) /\ IsFiniteSet(J)
  <2>1. IsFiniteSet(1..n)  BY FS_Interval
  <2>2. IsFiniteSet(I)  BY <2>1, FS_Subset
  <2> QED  BY <2>1, <2>2, FS_AddElement
<1>3. IsFiniteSet(later(i))
  <2>1. later(i) \in SUBSET J  OBVIOUS
  <2> HIDE DEF later, J
  <2> QED  BY <1>2, <2>1, FS_Subset
<1>4. Cap \in Nat /\ Cap > 0 /\ Cardinality(later(i)) \in Nat
  BY <1>3, FS_CardinalityType, LedgerAssumption
<1>5. \A z \in S : z.id \in I /\ z.id <= n /\ z.id \in Nat  BY DEF Array, Entry, Entries
<1>6. CASE i = n + 1
  <2>1. newer(x) = {}  BY <1>5
  <2>2. Cardinality(newer(x)) < Cap  BY <1>4, <2>1, FS_EmptySet
  <2>3. x \in Push(S, x)  BY <2>2 DEF Push
  <2>4. x.at + w >= now  OBVIOUS
  <2> QED  BY <1>6, <2>3, <2>4 DEF Recent
<1>7. CASE i \in I
  <2> DEFINE before == {j \in I : j > i}
  <2>1. Cardinality(before) < Cap
    <3>1. before \in SUBSET later(i)  OBVIOUS
    <3> HIDE DEF before, later
    <3>2. Cardinality(before) <= Cardinality(later(i)) /\ IsFiniteSet(before)
      BY <1>3, <3>1, FS_Subset
    <3>3. Cardinality(before) \in Nat  BY <3>2, FS_CardinalityType
    <3> QED  BY <1>1, <1>4, <3>2, <3>3
  <2>2. i \in Held(I)  BY <1>7, <2>1 DEF Held
  <2>3. lg[i].at + w >= now  BY <1>7
  <2>4. PICK y \in S : y.id = i  BY <2>2, <2>3 DEF Keeps
  <2>5. Cardinality(newer(y)) <= Cardinality(later(i))
    <3> DEFINE f == [z \in newer(y) |-> z.id]
    <3>1. \A z \in newer(y) : z.id \in later(i)  BY <1>5, <2>4
    <3>2. \A a, b \in newer(y) : a.id = b.id => a = b
      <4>1. \A a \in S : a.id # x.id  BY <1>5
      <4> QED  BY <4>1 DEF Array
    <3>3. f \in [newer(y) -> later(i)]  BY <3>1
    <3>4. \A a, b \in newer(y) : f[a] = f[b] => a = b  BY <3>2
    <3> HIDE DEF f, newer, later
    <3>5. f \in Injection(newer(y), later(i))  BY <3>3, <3>4 DEF Injection, IsInjective
    <3>6. IsFiniteSet(newer(y)) /\ Cardinality(newer(y)) <= Cardinality(later(i))
      BY <1>3, <3>5, FS_Injection
    <3> QED  BY <3>6
  <2>6. Cardinality(newer(y)) \in Nat
    <3>1. newer(y) \in SUBSET all  OBVIOUS
    <3>2. IsFiniteSet(all)  BY FS_AddElement DEF Array
    <3> HIDE DEF newer, all
    <3> QED  BY <3>1, <3>2, FS_Subset, FS_CardinalityType
  <2>7. Cardinality(newer(y)) < Cap
    <3> HIDE DEF newer, later
    <3> QED  BY <1>1, <1>4, <2>5, <2>6
  <2>8. y \in Push(S, x)  BY <2>4, <2>7 DEF Push
  <2>9. y.at + w >= now  BY <2>3, <2>4 DEF Entries
  <2> QED  BY <2>4, <2>8, <2>9 DEF Recent
<1> QED  BY <1>1, <1>6, <1>7

\* The entries of a row are events of the kinds its arrays are about.
LEMMA FileEntries ==
    ASSUME NEW r, NEW lg, Grounded(r, lg), \A x \in r.writes : x.bytes > 0
    PROVE  /\ Entries(r.deletes, Of(lg, {"delete"}), lg)
           /\ Entries(r.renames, Of(lg, {"encrypt"}), lg)
           /\ Entries(r.writes, Filled(lg), lg)
<1>1. Entries(r.deletes, Of(lg, {"delete"}), lg)
  BY DEF Grounded, Backed, IsEvent, Entries, Of
<1>2. Entries(r.renames, Of(lg, {"encrypt"}), lg)
  BY DEF Grounded, Backed, IsEvent, Entries, Of
<1>3. Entries(r.writes, Filled(lg), lg)
  BY DEF Grounded, Backed, IsEvent, Entries, Of, Filled
<1> QED  BY <1>1, <1>2, <1>3

LEMMA HostEntries ==
    ASSUME NEW r, NEW lg, Origin(r, lg), \A x \in r.spawns : x.on # ""
    PROVE  Entries(r.spawns, Tools(lg), lg)
<1> SUFFICES ASSUME NEW x \in r.spawns  PROVE x.id \in Tools(lg) /\ lg[x.id].at = x.at
  BY DEF Entries
<1>1. /\ x.id \in DOMAIN lg /\ lg[x.id].ev.op = "spawn"
      /\ lg[x.id].ev.on = x.on /\ lg[x.id].at = x.at
  BY DEF Origin
<1> QED  BY <1>1 DEF Tools

LEMMA SetsIn ==
    ASSUME NEW lg
    PROVE  /\ \A ops : Of(lg, ops) \in SUBSET DOMAIN lg
           /\ Filled(lg) \in SUBSET DOMAIN lg /\ Tools(lg) \in SUBSET DOMAIN lg
           /\ Secrets(lg) \in SUBSET DOMAIN lg
BY DEF Of, Filled, Tools, Secrets

\* The entry of the event just logged is pushed.
LEMMA KeepsPushed ==
    ASSUME NEW e \in Events, now \in Nat, NEW lg, NEW new, Longer(new, lg, [ev |-> e, at |-> now]),
           NEW S, Array(S, Len(lg)), NEW I \in SUBSET DOMAIN lg, Entries(S, I, lg), NEW w \in Nat,
           Keeps(S, I, lg, w, now)
    PROVE  Keeps(Recent(Push(S, AsEntry(e, Len(lg) + 1)), w), I \cup {Len(lg) + 1}, new, w, now)
<1> DEFINE x == AsEntry(e, Len(lg) + 1)
           n == Len(lg)
<1>1. n \in Nat /\ DOMAIN lg = 1..n /\ Prefix(lg, new)  BY LongerFacts
<1>2. x \in Entry /\ x.id = n + 1 /\ x.at = now  BY <1>1, AsEntryType
<1>3. \A i \in 1..n : new[i] = lg[i]  BY <1>1 DEF Prefix
<1>4. I \in SUBSET (1..n)  BY <1>1
<1> HIDE DEF x, n
<1>5. Keeps(Recent(Push(S, x), w), I \cup {n + 1}, new, w, now)
  <2>1. Array(S, n)  BY DEF n
  <2> QED  BY ONLY <1>1, <1>2, <1>3, <1>4, <2>1, now \in Nat, w \in Nat, Entries(S, I, lg),
              Keeps(S, I, lg, w, now), KeepsPush
<1> QED  BY <1>5 DEF x, n

LEMMA TokensKeeps ==
    ASSUME NEW e \in Events, now \in Nat, NEW lg, NEW new, Longer(new, lg, [ev |-> e, at |-> now]),
           NEW r \in Row, Remembered(r, lg), HostKeeping(r, lg, now),
           \A i \in DOMAIN lg : lg[i].at <= now
    PROVE  HostKeeping(Tokens(r, e, Len(lg) + 1), new, now)
<1> DEFINE n == Len(lg) + 1
           v == [ev |-> e, at |-> now]
           x == AsEntry(e, n)
           data == e.op = "read" /\ e.secret /\ e.bytes > 0
           tool == e.op = "spawn" /\ e.on # ""
           q == Tokens(r, e, n)
           pushed == Recent(Push(r.spawns, x), SpawnWindow)
<1>1. /\ q.spawns = IF tool THEN pushed ELSE r.spawns
      /\ q.lastSecret = IF data THEN now ELSE r.lastSecret
      /\ q.secretBytes = IF data THEN r.secretBytes + e.bytes ELSE r.secretBytes
  BY DEF Tokens, Row
<1>2. Entries(r.spawns, Tools(lg), lg) /\ Array(r.spawns, Len(lg))
  BY HostEntries DEF Remembered, HostArrays, HostKeeping
<1>3. Tools(lg) \in SUBSET DOMAIN lg /\ Secrets(lg) \in SUBSET DOMAIN lg  BY SetsIn
<1>4. /\ Tools(new) = Tools(lg) \cup (IF tool THEN {n} ELSE {})
      /\ Secrets(new) = Secrets(lg) \cup (IF data THEN {n} ELSE {})
  <2>1. v.ev = e  OBVIOUS
  <2> HIDE DEF v
  <2>2. Longer(new, lg, v)  BY DEF v
  <2> QED  BY <2>1, <2>2, LongerSets
<1>5. Prefix(lg, new) /\ new[n].at = now
  <2>1. Prefix(lg, new) /\ new[n] = v  BY LongerFacts
  <2> QED  BY <2>1
<1>6. SpawnWindow \in Nat  BY LedgerAssumption
<1> HIDE DEF q
<1>7. Keeps(q.spawns, Tools(new), new, SpawnWindow, now)
  <2>1. CASE tool
    <3>1. Keeps(pushed, Tools(lg) \cup {n}, new, SpawnWindow, now)
      BY <1>2, <1>3, <1>6, KeepsPushed DEF HostKeeping
    <3> QED  BY <2>1, <1>1, <1>4, <3>1
  <2>2. CASE ~ tool
    <3>1. Keeps(r.spawns, Tools(lg), new, SpawnWindow, now)
      BY <1>3, KeepsLonger DEF HostKeeping
    <3> HIDE DEF tool
    <3> QED  BY <2>2, <1>1, <1>4, <3>1
  <2> QED  BY <2>1, <2>2
<1>8. \A y \in q.spawns : y.on # ""
  <2>1. CASE tool
    <3>1. x.on = e.on  BY DEF AsEntry
    <3>2. pushed \in SUBSET (r.spawns \cup {x})  BY PushedIn
    <3> HIDE DEF x, pushed
    <3> QED  BY <2>1, <1>1, <3>1, <3>2 DEF HostKeeping
  <2>2. CASE ~ tool  BY <2>2, <1>1 DEF HostKeeping
  <2> QED  BY <2>1, <2>2
<1>9. \A i \in Secrets(new) : new[i].at + Assoc >= now => new[i].at <= q.lastSecret
  <2>1. CASE data
    <3> HIDE DEF data, n
    <3>1. q.lastSecret = now  BY <2>1, <1>1
    <3>2. \A i \in Secrets(lg) : new[i].at <= now  BY <1>3, <1>5 DEF Prefix
    <3>3. Secrets(new) = Secrets(lg) \cup {n}  BY <2>1, <1>4
    <3> QED  BY <1>5, <3>1, <3>2, <3>3
  <2>2. CASE ~ data
    <3> HIDE DEF data, n
    <3>1. q.lastSecret = r.lastSecret /\ Secrets(new) = Secrets(lg)  BY <2>2, <1>1, <1>4
    <3>2. \A i \in Secrets(lg) : new[i] = lg[i]  BY <1>3, <1>5 DEF Prefix
    <3> QED  BY <3>1, <3>2 DEF HostKeeping
  <2> QED  BY <2>1, <2>2
<1>10. q.lastSecret <= now /\ (q.lastSecret # 0 => q.secretBytes > 0)
  <2>1. e.bytes \in Nat /\ r.secretBytes \in Nat  BY LedgerAssumption DEF Event, Row
  <2>2. CASE data  BY <2>1, <2>2, <1>1
  <2>3. CASE ~ data
    <3> HIDE DEF data
    <3> QED  BY <2>3, <1>1 DEF HostKeeping
  <2> QED  BY <2>2, <2>3
<1> HIDE DEF n
<1>11. HostKeeping(q, new, now)  BY <1>7, <1>8, <1>9, <1>10 DEF HostKeeping
<1> QED  BY <1>11 DEF q, n

\* What the file part of an event does to the counters that are kept.
LEMMA NotedArrays ==
    ASSUME NEW e \in Events, NEW n, NEW kept, NEW r \in Row
    PROVE  LET q == Noted(r, e, n, kept)
               push(S) == Recent(Push(S, AsEntry(e, n)), Window) IN
           /\ q.deletes = IF e.op \in {"delete"} /\ ~ e.noise THEN push(r.deletes) ELSE r.deletes
           /\ q.renames = IF e.op \in {"encrypt"} /\ ~ e.noise THEN push(r.renames) ELSE r.renames
           /\ q.writes = IF e.op = "write" /\ ~ e.noise /\ e.bytes > 0
                         THEN push(r.writes) ELSE r.writes
           /\ q.secretBytes = r.secretBytes /\ q.lastSeen = r.lastSeen
<1> DEFINE push(S) == Recent(Push(S, AsEntry(e, n)), Window)
           q == Noted(r, e, n, kept)
<1>1. CASE e.noise
  <2>1. q = r  BY <1>1 DEF Noted
  <2> HIDE DEF q, push
  <2> QED  BY <1>1, <2>1 DEF q, push
<1>2. CASE ~ e.noise /\ e.op = "delete"
  <2>1. q = Deletion(r, e, n)  BY <1>2 DEF Noted, WriteOps, ReadOps
  <2> HIDE DEF q
  <2>2. /\ q.deletes = push(r.deletes) /\ q.renames = r.renames /\ q.writes = r.writes
        /\ q.secretBytes = r.secretBytes /\ q.lastSeen = r.lastSeen
    BY <2>1 DEF Deletion, Row
  <2> HIDE DEF push
  <2> QED  BY <1>2, <2>2 DEF q, push
<1>3. CASE ~ e.noise /\ e.op \in WriteOps
  <2>1. q = Writing(r, e, n)  BY <1>3 DEF Noted, WriteOps, ReadOps
  <2> HIDE DEF q
  <2>2. /\ q.deletes = r.deletes
        /\ q.renames = IF e.op = "encrypt" THEN push(r.renames) ELSE r.renames
        /\ q.writes = IF e.op = "write" /\ e.bytes > 0 THEN push(r.writes) ELSE r.writes
        /\ q.secretBytes = r.secretBytes /\ q.lastSeen = r.lastSeen
    BY <2>1 DEF Writing, Row
  <2>3. e.op # "delete"  BY <1>3 DEF WriteOps
  <2> HIDE DEF push
  <2> QED  BY <1>3, <2>2, <2>3 DEF q, push
<1>4. CASE ~ e.noise /\ e.op \in ReadOps
  <2>1. q = Reading(r, e, n, kept)  BY <1>4 DEF Noted, WriteOps, ReadOps
  <2> HIDE DEF q
  <2>2. /\ q.deletes = r.deletes /\ q.renames = r.renames /\ q.writes = r.writes
        /\ q.secretBytes = r.secretBytes /\ q.lastSeen = r.lastSeen
    BY <2>1 DEF Reading, Row
  <2>3. e.op # "delete" /\ e.op # "encrypt" /\ e.op # "write"  BY <1>4 DEF ReadOps
  <2> HIDE DEF push
  <2> QED  BY <1>4, <2>2, <2>3 DEF q, push
<1>5. CASE ~ e.noise /\ e.op # "delete" /\ e.op \notin WriteOps /\ e.op \notin ReadOps
  <2>1. q = r  BY <1>5 DEF Noted
  <2>2. e.op # "encrypt" /\ e.op # "write"  BY <1>5 DEF WriteOps
  <2> HIDE DEF q, push
  <2> QED  BY <1>5, <2>1, <2>2 DEF q, push
<1> QED  BY <1>1, <1>2, <1>3, <1>4, <1>5

LEMMA NotedKeeps ==
    ASSUME NEW e \in Events, now \in Nat, NEW lg, NEW new, Longer(new, lg, [ev |-> e, at |-> now]),
           NEW r \in Row, FileArrays(r, Len(lg)), Grounded(r, lg), FileKeeping(r, lg, now), NEW kept
    PROVE  FileKeeping(Noted(r, e, Len(lg) + 1, kept), new, now)
<1> DEFINE n == Len(lg) + 1
           v == [ev |-> e, at |-> now]
           x == AsEntry(e, n)
           push(S) == Recent(Push(S, x), Window)
           q == Noted(r, e, n, kept)
           deleted == e.op \in {"delete"} /\ ~ e.noise
           renamed == e.op \in {"encrypt"} /\ ~ e.noise
           written == e.op = "write" /\ ~ e.noise /\ e.bytes > 0
<1>1. /\ q.deletes = IF deleted THEN push(r.deletes) ELSE r.deletes
      /\ q.renames = IF renamed THEN push(r.renames) ELSE r.renames
      /\ q.writes = IF written THEN push(r.writes) ELSE r.writes
  BY NotedArrays
<1>2. /\ Of(new, {"delete"}) = Of(lg, {"delete"}) \cup (IF deleted THEN {n} ELSE {})
      /\ Of(new, {"encrypt"}) = Of(lg, {"encrypt"}) \cup (IF renamed THEN {n} ELSE {})
      /\ Filled(new) = Filled(lg) \cup (IF written THEN {n} ELSE {})
  <2>1. v.ev = e  OBVIOUS
  <2> HIDE DEF v
  <2>2. Longer(new, lg, v)  BY DEF v
  <2>3. \A ops : Of(new, ops) = Of(lg, ops) \cup
                    (IF v.ev.op \in ops /\ ~ v.ev.noise THEN {n} ELSE {})
    BY <2>2, LongerSets
  <2>4. Filled(new) = Filled(lg) \cup
          (IF v.ev.op = "write" /\ ~ v.ev.noise /\ v.ev.bytes > 0 THEN {n} ELSE {})
    BY <2>2, LongerSets
  <2> HIDE DEF n
  <2> QED  BY <2>1, <2>3, <2>4
<1>3. ASSUME NEW S, Array(S, Len(lg)), NEW I \in SUBSET DOMAIN lg, Entries(S, I, lg),
             Keeps(S, I, lg, Window, now), NEW c
      PROVE  Keeps(IF c THEN push(S) ELSE S, I \cup (IF c THEN {n} ELSE {}), new, Window, now)
  <2>1. CASE c
    <3>1. Keeps(push(S), I \cup {n}, new, Window, now)
      BY <1>3, KeepsPushed, LedgerAssumption
    <3> HIDE DEF push
    <3> QED  BY <2>1, <3>1
  <2>2. CASE ~ c
    <3>1. Keeps(S, I, new, Window, now)  BY <1>3, KeepsLonger
    <3> HIDE DEF push
    <3> QED  BY <2>2, <3>1
  <2> QED  BY <2>1, <2>2
<1>4. /\ Entries(r.deletes, Of(lg, {"delete"}), lg) /\ Entries(r.renames, Of(lg, {"encrypt"}), lg)
      /\ Entries(r.writes, Filled(lg), lg)
  BY FileEntries DEF FileKeeping
<1>5. /\ Of(lg, {"delete"}) \in SUBSET DOMAIN lg /\ Of(lg, {"encrypt"}) \in SUBSET DOMAIN lg
      /\ Filled(lg) \in SUBSET DOMAIN lg
  BY SetsIn
<1> HIDE DEF q, push, deleted, renamed, written
<1>6. Keeps(q.deletes, Of(new, {"delete"}), new, Window, now)
  BY <1>1, <1>2, <1>3, <1>4, <1>5 DEF FileKeeping, FileArrays
<1>7. Keeps(q.renames, Of(new, {"encrypt"}), new, Window, now)
  BY <1>1, <1>2, <1>3, <1>4, <1>5 DEF FileKeeping, FileArrays
<1>8. Keeps(q.writes, Filled(new), new, Window, now)
  BY <1>1, <1>2, <1>3, <1>4, <1>5 DEF FileKeeping, FileArrays
<1>9. \A y \in q.writes : y.bytes > 0
  <2>1. push(r.writes) \in SUBSET (r.writes \cup {x})  BY PushedIn DEF push
  <2>2. written => x.bytes > 0  BY DEF AsEntry, written
  <2> HIDE DEF x
  <2> QED  BY <1>1, <2>1, <2>2 DEF FileKeeping
<1>10. FileKeeping(q, new, now)  BY <1>6, <1>7, <1>8, <1>9 DEF FileKeeping
<1> QED  BY <1>10 DEF q

LEMMA SweptKeeps ==
    ASSUME NEW lg, NEW r \in Row, Grounded(r, lg), FileKeeping(r, lg, now)
    PROVE  /\ FileKeeping(Swept(r), lg, now)
           /\ Swept(r).secretBytes = r.secretBytes /\ Swept(r).lastSeen = r.lastSeen
<1> DEFINE q == Swept(r)
<1>1. /\ q.deletes = Recent(r.deletes, Window) /\ q.renames = Recent(r.renames, Window)
      /\ q.writes = Recent(r.writes, Window)
      /\ q.secretBytes = r.secretBytes /\ q.lastSeen = r.lastSeen
  BY DEF Swept, Row
<1>2. /\ Entries(r.deletes, Of(lg, {"delete"}), lg) /\ Entries(r.renames, Of(lg, {"encrypt"}), lg)
      /\ Entries(r.writes, Filled(lg), lg)
  BY FileEntries DEF FileKeeping
<1> HIDE DEF q
<1>3. /\ Keeps(q.deletes, Of(lg, {"delete"}), lg, Window, now)
      /\ Keeps(q.renames, Of(lg, {"encrypt"}), lg, Window, now)
      /\ Keeps(q.writes, Filled(lg), lg, Window, now)
  BY <1>1, <1>2, KeepsRecent DEF FileKeeping
<1>4. \A x \in q.writes : x.bytes > 0  BY <1>1 DEF FileKeeping, Recent
<1>5. FileKeeping(q, lg, now)  BY <1>3, <1>4 DEF FileKeeping
<1> QED  BY <1>1, <1>5 DEF q

LEMMA SentKeeps ==
    ASSUME NEW e \in Events, e.op = "net", now \in Nat, NEW lg, NEW new,
           Longer(new, lg, [ev |-> e, at |-> now]), NEW r \in Row, Remembered(r, lg),
           FileKeeping(r, lg, now), HostKeeping(r, lg, now)
    PROVE  LET q == Sent(r, e, Len(lg) + 1) IN
           FileKeeping(q, new, now) /\ HostKeeping(q, new, now) /\ q.lastSeen = r.lastSeen
<1> DEFINE n == Len(lg) + 1
           v == [ev |-> e, at |-> now]
           q == Sent(r, e, n)
<1>1. /\ q.deletes = r.deletes /\ q.renames = r.renames /\ q.writes = r.writes
      /\ q.spawns = Recent(r.spawns, SpawnWindow) /\ q.lastSecret = r.lastSecret
      /\ q.secretBytes = r.secretBytes /\ q.lastSeen = r.lastSeen
  BY DEF Sent, Row
<1>2. /\ Of(new, {"delete"}) = Of(lg, {"delete"}) /\ Of(new, {"encrypt"}) = Of(lg, {"encrypt"})
      /\ Filled(new) = Filled(lg) /\ Tools(new) = Tools(lg) /\ Secrets(new) = Secrets(lg)
  <2>1. v.ev.op = "net"  OBVIOUS
  <2> HIDE DEF v
  <2>2. Longer(new, lg, v)  BY DEF v
  <2>3. \A ops : Of(new, ops) = Of(lg, ops) \cup
                    (IF v.ev.op \in ops /\ ~ v.ev.noise THEN {n} ELSE {})
    BY <2>2, LongerSets
  <2>4. /\ Filled(new) = Filled(lg) \cup
             (IF v.ev.op = "write" /\ ~ v.ev.noise /\ v.ev.bytes > 0 THEN {n} ELSE {})
        /\ Tools(new) = Tools(lg) \cup (IF v.ev.op = "spawn" /\ v.ev.on # "" THEN {n} ELSE {})
        /\ Secrets(new) = Secrets(lg) \cup
             (IF v.ev.op = "read" /\ v.ev.secret /\ v.ev.bytes > 0 THEN {n} ELSE {})
    BY <2>2, LongerSets
  <2> HIDE DEF n
  <2> QED  BY <2>1, <2>3, <2>4
<1>3. /\ Of(lg, {"delete"}) \in SUBSET DOMAIN lg /\ Of(lg, {"encrypt"}) \in SUBSET DOMAIN lg
      /\ Filled(lg) \in SUBSET DOMAIN lg /\ Tools(lg) \in SUBSET DOMAIN lg
      /\ Secrets(lg) \in SUBSET DOMAIN lg
  BY SetsIn
<1>4. Prefix(lg, new)  BY LongerFacts
<1> HIDE DEF q, n, v
<1>5. /\ Keeps(q.deletes, Of(new, {"delete"}), new, Window, now)
      /\ Keeps(q.renames, Of(new, {"encrypt"}), new, Window, now)
      /\ Keeps(q.writes, Filled(new), new, Window, now)
  BY <1>1, <1>2, <1>3, KeepsLonger DEF FileKeeping
<1>6. FileKeeping(q, new, now)  BY <1>1, <1>5 DEF FileKeeping
<1>7. Keeps(q.spawns, Tools(new), new, SpawnWindow, now)
  <2>1. Entries(r.spawns, Tools(lg), lg)  BY HostEntries DEF Remembered, HostKeeping
  <2>2. Keeps(q.spawns, Tools(lg), lg, SpawnWindow, now)
    BY <1>1, <2>1, KeepsRecent DEF HostKeeping
  <2> QED  BY <1>2, <1>3, <2>2, KeepsLonger
<1>8. \A i \in Secrets(new) : new[i].at + Assoc >= now => new[i].at <= q.lastSecret
  <2>1. \A i \in Secrets(lg) : new[i] = lg[i]  BY <1>3, <1>4 DEF Prefix
  <2> QED  BY <1>1, <1>2, <2>1 DEF HostKeeping
<1>9. \A x \in q.spawns : x.on # ""  BY <1>1 DEF HostKeeping, Recent
<1>10. HostKeeping(q, new, now)  BY <1>1, <1>7, <1>8, <1>9 DEF HostKeeping
<1> QED  BY <1>1, <1>6, <1>10 DEF q, n

\* The log is in the order of time, and nothing in a window is missing from the
\* row; of a plugin without a row everything is long past.
Kept ==
    /\ \A i, j \in DOMAIN log : i < j => log[i].at <= log[j].at
    /\ row = NoRow => \A i \in DOMAIN log : log[i].at + Ttl < now
    /\ row # NoRow =>
         /\ row.lastSeen <= now /\ \A i \in DOMAIN log : log[i].at <= row.lastSeen
         /\ FileKeeping(row, log, now) /\ HostKeeping(row, log, now)

LEMMA LogTimes ==
    ASSUME TypeOK
    PROVE  \A i \in DOMAIN log : log[i].at \in Nat /\ log[i].at <= now
<1> DEFINE T == [ev : Events, at : 1..now]
<1>1. now \in Nat  BY LogType
<1>2. \A i \in DOMAIN log : log[i] \in T
  <2>1. log \in Seq(T)  BY DEF TypeOK
  <2> HIDE DEF T
  <2> QED  BY <2>1
<1> QED  BY <1>1, <1>2

\* A new row has nothing to keep.
LEMMA NewRowKeeps ==
    ASSUME TypeOK, \A i \in DOMAIN log : log[i].at + Ttl < now
    PROVE  FileKeeping(NewRow, log, now) /\ HostKeeping(NewRow, log, now)
<1>1. now \in Nat  BY LogType
<1>2. ASSUME NEW w \in {Window, SpawnWindow, Assoc}, NEW i \in DOMAIN log
      PROVE  ~ (log[i].at + w >= now)
  <2>1. w \in Nat /\ w < Ttl /\ Ttl \in Nat  BY LedgerAssumption
  <2>2. log[i].at \in Nat  BY LogTimes
  <2>3. log[i].at + Ttl < now  OBVIOUS
  <2> QED  BY <1>1, <2>1, <2>2, <2>3
<1>3. ASSUME NEW w \in {Window, SpawnWindow}, NEW I \in SUBSET DOMAIN log
      PROVE  Keeps({}, I, log, w, now)
  BY <1>2, <1>3 DEF Keeps, Held
<1>4. /\ NewRow.deletes = {} /\ NewRow.renames = {} /\ NewRow.writes = {} /\ NewRow.spawns = {}
      /\ NewRow.lastSecret = 0
  BY DEF NewRow
<1>5. FileKeeping(NewRow, log, now)  BY <1>3, <1>4, SetsIn DEF FileKeeping
<1>6. \A i \in Secrets(log) : ~ (log[i].at + Assoc >= now)  BY <1>2, SetsIn
<1>7. HostKeeping(NewRow, log, now)  BY <1>1, <1>3, <1>4, <1>6, SetsIn DEF HostKeeping
<1> QED  BY <1>5, <1>7

\* Nor does the row that an event meets.
LEMMA CurrentKeeps ==
    ASSUME LedgerInv, Kept, NEW r, r = [Current EXCEPT !.lastSeen = now]
    PROVE  FileKeeping(r, log, now) /\ HostKeeping(r, log, now) /\ r.lastSeen = now
<1> DEFINE c == Current
<1>1. c \in Row  BY NewRowFacts DEF LedgerInv, TypeOK, Current
<1>2. FileKeeping(c, log, now) /\ HostKeeping(c, log, now)
  <2>1. CASE row = NoRow
    <3>1. c = NewRow  BY <2>1 DEF Current
    <3> HIDE DEF c
    <3> QED  BY <2>1, <3>1, NewRowKeeps DEF Kept, LedgerInv
  <2>2. CASE row # NoRow /\ Idle
    <3>1. \A i \in DOMAIN log : log[i].at + Ttl < now
      <4> SUFFICES ASSUME NEW i \in DOMAIN log  PROVE log[i].at + Ttl < now  OBVIOUS
      <4>1. log[i].at <= row.lastSeen /\ row.lastSeen + Ttl < now  BY <2>2 DEF Kept, Idle
      <4>2. log[i].at \in Nat /\ row.lastSeen \in Nat /\ Ttl \in Nat /\ now \in Nat
        BY <2>2, LogTimes, LogType, LedgerAssumption DEF LedgerInv, TypeOK, Row
      <4> QED  BY <4>1, <4>2
    <3>2. c = NewRow  BY <2>2 DEF Current
    <3> HIDE DEF c
    <3> QED  BY <3>1, <3>2, NewRowKeeps DEF LedgerInv
  <2>3. CASE row # NoRow /\ ~ Idle
    <3>1. c = row  BY <2>3 DEF Current
    <3> HIDE DEF c
    <3> QED  BY <2>3, <3>1 DEF Kept
  <2> QED  BY <2>1, <2>2, <2>3
<1> HIDE DEF c
<1>3. r = [c EXCEPT !.lastSeen = now]  BY DEF c
<1>4. /\ r.deletes = c.deletes /\ r.renames = c.renames /\ r.writes = c.writes
      /\ r.spawns = c.spawns /\ r.lastSecret = c.lastSecret /\ r.secretBytes = c.secretBytes
      /\ r.lastSeen = now
  BY <1>1, <1>3 DEF Row
<1> QED  BY <1>2, <1>4 DEF FileKeeping, HostKeeping

\* The alarms were just derived from the row, and the last event was the cause.
Derived ==
    /\ row # NoRow /\ Len(log) > 0
    /\ LET last == log[Len(log)] IN
       /\ last.at = now
       /\ last.ev.op # "net" => raised = ExfilChecks(row) \cup DestroyChecks(row)
       /\ last.ev.op = "net" => raised = ExfilChecks(row) \cup SpawnNetChecks(row)
       /\ last.ev.op = "spawn" => row.lastSpawn = now
       /\ last.ev.op = "net" => row.lastNet = now /\ row.netBytes >= last.ev.bytes
       /\ last.ev.op = "net" /\ last.ev.on # "" => \E d \in row.nets : d.on = last.ev.on /\ d.at = now

\* A network event.
LEMMA SendKept ==
    ASSUME LedgerInv, Kept, NEW e \in Events, e.op = "net", NEW r, NEW q,
           r = [Current EXCEPT !.lastSeen = now], q = Sent(r, e, Len(log) + 1),
           NEW new, new = Append(log, [ev |-> e, at |-> now])
    PROVE  /\ FileKeeping(q, new, now) /\ HostKeeping(q, new, now) /\ q.lastSeen = now
           /\ q.lastNet = now /\ q.netBytes >= e.bytes
           /\ e.on # "" => \E d \in q.nets : d.on = e.on /\ d.at = now
<1> DEFINE v == [ev |-> e, at |-> now]
           n == Len(log) + 1
           x == AsEntry(e, n)
<1>1. r \in Row /\ Remembered(r, log)  BY CurrentFacts
<1>2. now \in Nat /\ log \in Seq(LoggedEvents) /\ Len(log) \in Nat
  BY LogType DEF LedgerInv
<1>3. FileKeeping(r, log, now) /\ HostKeeping(r, log, now) /\ r.lastSeen = now
  BY CurrentKeeps
<1>4. Longer(new, log, v)  BY <1>2 DEF Longer, LoggedEvents
<1>5. FileKeeping(q, new, now) /\ HostKeeping(q, new, now) /\ q.lastSeen = now
  BY <1>1, <1>2, <1>3, <1>4, SentKeeps
<1>6. q.lastNet = now /\ q.netBytes = r.netBytes + e.bytes
  BY <1>1 DEF Sent, Row
<1>7. e.bytes \in Nat /\ r.netBytes \in Nat  BY <1>1, LedgerAssumption DEF Event, Row
<1>8. q.netBytes >= e.bytes  BY <1>6, <1>7
<1>9. ASSUME e.on # ""  PROVE x \in q.nets /\ x.on = e.on /\ x.at = now
  <2>1. x.on = e.on /\ x.at = now /\ x.id = n  BY <1>2, AsEntryType
  <2>2. q.nets = Recent(Push(r.nets, x), SpawnWindow)  BY <1>1, <1>9 DEF Sent, Row
  <2>3. {y \in r.nets \cup {x} : y.id > x.id} = {}
    <3>1. \A y \in r.nets : y.id \in Nat /\ y.id <= Len(log)
      BY <1>1 DEF Remembered, HostArrays, Array, Entry
    <3> HIDE DEF x
    <3> QED  BY <1>2, <2>1, <3>1
  <2>4. x \in Push(r.nets, x)
    <3> HIDE DEF x
    <3> QED  BY <2>3, FS_EmptySet, LedgerAssumption DEF Push
  <2>5. x.at + SpawnWindow >= now  BY <1>2, <2>1, LedgerAssumption
  <2> HIDE DEF x
  <2> QED  BY <2>1, <2>2, <2>4, <2>5 DEF Recent
<1> HIDE DEF x
<1> QED  BY <1>5, <1>6, <1>8, <1>9

\* A file event, or the start of a tool.
LEMMA FileKept ==
    ASSUME LedgerInv, Backing, Kept, NEW e \in Events, NEW r,
           NEW kept \in {r.reads, Recent(r.reads, Window)},
           r = [Current EXCEPT !.lastSeen = now], NEW q,
           q = Swept(Noted(Tokens(r, e, Len(log) + 1), e, Len(log) + 1, kept)),
           NEW new, new = Append(log, [ev |-> e, at |-> now])
    PROVE  /\ FileKeeping(q, new, now) /\ HostKeeping(q, new, now) /\ q.lastSeen = now
           /\ e.op = "spawn" => q.lastSpawn = now
<1> DEFINE v == [ev |-> e, at |-> now]
           n == Len(log)
           a == Tokens(r, e, n + 1)
           b == Noted(a, e, n + 1, kept)
<1>1. r \in Row /\ Remembered(r, log) /\ Grounded(r, log)
  BY CurrentFacts, CurrentGrounded
<1>2. now \in Nat /\ log \in Seq(LoggedEvents) /\ n \in Nat
  BY LogType DEF LedgerInv
<1>3. FileKeeping(r, log, now) /\ HostKeeping(r, log, now) /\ r.lastSeen = now
  BY CurrentKeeps
<1>4. Longer(new, log, v)  BY <1>2 DEF Longer, LoggedEvents
<1>5. \A i \in DOMAIN log : log[i].at <= now  BY LogTimes DEF LedgerInv
<1>6. kept \in SUBSET r.reads /\ kept \in SUBSET Entry  BY <1>1 DEF Row, Recent
<1>7. HostKeeping(a, new, now)
  BY ONLY <1>1, <1>2, <1>3, <1>4, <1>5, e \in Events, TokensKeeps
<1>8. a \in Row /\ FileArrays(a, n)  BY <1>1, <1>2, TokensFacts DEF Remembered
<1>9. SameArrays(a, r)  BY <1>1, TokensSame
<1>10. a.lastSeen = r.lastSeen /\ (e.op = "spawn" => a.lastSpawn = now)
  BY <1>1 DEF Tokens, Row
<1> HIDE DEF a
<1>11. Grounded(a, log) /\ kept \in SUBSET a.reads
  BY <1>1, <1>6, <1>9, SameGrounded DEF SameArrays
<1>12. FileKeeping(a, log, now)  BY <1>3, <1>9 DEF FileKeeping, SameArrays
<1>13. b \in Row /\ SameTokens(b, a)  BY <1>2, <1>6, <1>8, NotedFacts
<1>14. Grounded(b, new)  BY <1>2, <1>8, <1>11, NotedGrounded
<1>15. FileKeeping(b, new, now)
  BY ONLY <1>2, <1>4, <1>8, <1>11, <1>12, e \in Events, NotedKeeps DEF b
<1>16. b.secretBytes = a.secretBytes /\ b.lastSeen = a.lastSeen  BY <1>8, NotedArrays
<1>17. q = Swept(b)  BY DEF a, b, n
<1> HIDE DEF b, v
<1>18. /\ FileKeeping(q, new, now) /\ q.secretBytes = b.secretBytes
       /\ q.lastSeen = b.lastSeen
  BY <1>13, <1>14, <1>15, <1>17, SweptKeeps
<1>19. SameTokens(q, b)  BY <1>13, <1>17 DEF Swept, Row, SameTokens
<1>20. HostKeeping(q, new, now)
  BY <1>7, <1>13, <1>16, <1>18, <1>19 DEF HostKeeping, SameTokens
<1> QED  BY <1>3, <1>10, <1>13, <1>16, <1>18, <1>19, <1>20 DEF SameTokens


\* The log stays in the order of time.
LEMMA LogOrdered ==
    ASSUME LedgerInv, Kept, NEW e \in Events, NEW new, new = Append(log, [ev |-> e, at |-> now])
    PROVE  /\ \A i, j \in DOMAIN new : i < j => new[i].at <= new[j].at
           /\ \A i \in DOMAIN new : new[i].at <= now
           /\ Len(new) > 0 /\ new[Len(new)].ev = e /\ new[Len(new)].at = now
<1> DEFINE v == [ev |-> e, at |-> now]
           n == Len(log) + 1
<1>1. now \in Nat /\ log \in Seq(LoggedEvents) /\ Len(log) \in Nat
  BY LogType DEF LedgerInv
<1>2. Longer(new, log, v)  BY <1>1 DEF Longer, LoggedEvents
<1>3. /\ DOMAIN log = 1..Len(log) /\ DOMAIN new = DOMAIN log \cup {n} /\ n \notin DOMAIN log
      /\ Prefix(log, new) /\ new[n] = v
  BY <1>2, LongerFacts
<1>4. Len(new) = n /\ n > 0  BY <1>1, <1>2 DEF Longer
<1>5. new[n].ev = e /\ new[n].at = now  BY <1>3
<1>6. \A i \in DOMAIN log : new[i].at = log[i].at  BY <1>3 DEF Prefix
<1>7. \A i \in DOMAIN log : log[i].at <= now  BY LogTimes DEF LedgerInv
<1> HIDE DEF v
<1>8. ASSUME NEW i \in DOMAIN new  PROVE new[i].at <= now
  <2>1. CASE i \in DOMAIN log  BY <2>1, <1>6, <1>7
  <2>2. CASE i = n  BY <2>2, <1>1, <1>5
  <2> QED  BY <2>1, <2>2, <1>3
<1>9. ASSUME NEW i \in DOMAIN new, NEW j \in DOMAIN new, i < j  PROVE new[i].at <= new[j].at
  <2>1. CASE j = n  BY <2>1, <1>5, <1>8
  <2>2. CASE j \in DOMAIN log
    <3>1. i \in DOMAIN log
      <4>1. i # n  BY <2>2, <1>1, <1>3, <1>9
      <4> QED  BY <4>1, <1>3
    <3>2. log[i].at <= log[j].at  BY <3>1, <2>2, <1>9 DEF Kept
    <3> QED  BY <3>1, <3>2, <2>2, <1>6
  <2> QED  BY <2>1, <2>2, <1>3
<1> QED  BY <1>4, <1>5, <1>8, <1>9

LEMMA ObserveKept ==
    ASSUME LedgerInv, Backing, Kept, NEW e \in Events, Observe(e)
    PROVE  Kept' /\ Derived'
<1> DEFINE n == Len(log) + 1
           r == [Current EXCEPT !.lastSeen = now]
           new == Append(log, [ev |-> e, at |-> now])
           last == new[Len(new)]
<1>1. now' = now /\ log' = new  BY DEF Observe
<1>2. /\ \A i, j \in DOMAIN new : i < j => new[i].at <= new[j].at
      /\ \A i \in DOMAIN new : new[i].at <= now
      /\ Len(new) > 0 /\ last.ev = e /\ last.at = now
  BY LogOrdered
<1>3. now \in Nat  BY LogType DEF LedgerInv
<1>4. /\ row' \in Row /\ FileKeeping(row', new, now) /\ HostKeeping(row', new, now)
      /\ row'.lastSeen = now
      /\ e.op # "net" => raised' = ExfilChecks(row') \cup DestroyChecks(row')
      /\ e.op = "net" => raised' = ExfilChecks(row') \cup SpawnNetChecks(row')
      /\ e.op = "spawn" => row'.lastSpawn = now
      /\ e.op = "net" => row'.lastNet = now /\ row'.netBytes >= e.bytes
      /\ e.op = "net" /\ e.on # "" => \E d \in row'.nets : d.on = e.on /\ d.at = now
  <2>1. CASE e.op = "net"
    <3>1. row' = Sent(r, e, n) /\ raised' = ExfilChecks(row') \cup SpawnNetChecks(row')
      BY <2>1 DEF Observe
    <3> HIDE DEF r
    <3>2. row' \in Row  BY <2>1, <3>1, SendStep DEF r
    <3>3. /\ FileKeeping(row', new, now) /\ HostKeeping(row', new, now) /\ row'.lastSeen = now
          /\ row'.lastNet = now /\ row'.netBytes >= e.bytes
          /\ e.on # "" => \E d \in row'.nets : d.on = e.on /\ d.at = now
      BY <2>1, <3>1, SendKept DEF r
    <3> HIDE DEF new
    <3> QED  BY <2>1, <3>1, <3>2, <3>3
  <2>2. CASE e.op # "net"
    <3>1. PICK kept \in {r.reads, Recent(r.reads, Window)} :
             /\ row' = Swept(Noted(Tokens(r, e, n), e, n, kept))
             /\ raised' = ExfilChecks(row') \cup DestroyChecks(row')
      BY <2>2 DEF Observe
    <3>2. row' \in Row  BY <3>1, FileStep
    <3>3. /\ FileKeeping(row', new, now) /\ HostKeeping(row', new, now) /\ row'.lastSeen = now
          /\ e.op = "spawn" => row'.lastSpawn = now
      BY <3>1, FileKept
    <3> HIDE DEF new, r
    <3> QED  BY <2>2, <3>1, <3>2, <3>3
  <2> QED  BY <2>1, <2>2
<1> HIDE DEF new, r
<1>5. row' # NoRow  BY <1>4, NoRowAssumption
<1>6. Kept'
  <2>1. (\A i, j \in DOMAIN log : i < j => log[i].at <= log[j].at)'  BY <1>1, <1>2
  <2>2. row'.lastSeen <= now'
    <3>1. row'.lastSeen = now  BY <1>4
    <3> QED  BY <1>1, <1>3, <3>1
  <2>4. (\A i \in DOMAIN log : log[i].at <= row.lastSeen)'  BY <1>1, <1>2, <1>4
  <2>3. FileKeeping(row', log', now') /\ HostKeeping(row', log', now')  BY <1>1, <1>4
  <2> QED  BY <1>5, <2>1, <2>2, <2>3, <2>4 DEF Kept
<1>7. Derived'  BY <1>1, <1>2, <1>4, <1>5 DEF Derived
<1> QED  BY <1>6, <1>7

LEMMA MarkKept ==
    ASSUME LedgerInv, Kept, MarkSuspected
    PROVE  Kept'
<1> DEFINE c == IF row = NoRow THEN NewRow ELSE row
<1>1. c \in Row  BY NewRowFacts DEF LedgerInv, TypeOK
<1>2. /\ row' = [c EXCEPT !.suspected = TRUE] /\ now' = now /\ log' = log
  BY DEF MarkSuspected
<1>3. /\ FileKeeping(c, log, now) /\ HostKeeping(c, log, now) /\ c.lastSeen <= now
      /\ \A i \in DOMAIN log : log[i].at <= c.lastSeen
  <2>1. CASE row = NoRow
    <3>1. c = NewRow /\ NewRow.lastSeen = now  BY <2>1 DEF NewRow
    <3> HIDE DEF c
    <3>2. now \in Nat /\ \A i \in DOMAIN log : log[i].at <= now  BY LogType, LogTimes DEF LedgerInv
    <3> QED  BY <2>1, <3>1, <3>2, NewRowKeeps DEF Kept, LedgerInv
  <2>2. CASE row # NoRow
    <3>1. c = row  BY <2>2
    <3> HIDE DEF c
    <3> QED  BY <2>2, <3>1 DEF Kept
  <2> QED  BY <2>1, <2>2
<1> HIDE DEF c
<1>4. /\ row'.deletes = c.deletes /\ row'.renames = c.renames /\ row'.writes = c.writes
      /\ row'.spawns = c.spawns /\ row'.lastSecret = c.lastSecret
      /\ row'.secretBytes = c.secretBytes /\ row'.lastSeen = c.lastSeen /\ row' \in Row
  BY <1>1, <1>2 DEF Row
<1>5. row' # NoRow  BY <1>4, NoRowAssumption
<1>6. FileKeeping(row', log, now) /\ HostKeeping(row', log, now)
  BY <1>3, <1>4 DEF FileKeeping, HostKeeping
<1> QED  BY <1>2, <1>3, <1>4, <1>5, <1>6 DEF Kept

\* Time makes nothing come back into a window.
LEMMA TickKept ==
    ASSUME LedgerInv, Kept, Tick
    PROVE  Kept'
<1>1. row # NoRow /\ now' = now + 1 /\ row' = row /\ log' = log  BY DEF Tick
<1>2. now \in Nat /\ now' \in Nat /\ now <= now'  BY <1>1, LogType DEF LedgerInv
<1>3. \A i \in DOMAIN log : log[i].at \in Nat  BY LogTimes DEF LedgerInv
<1>4. /\ Of(log, {"delete"}) \in SUBSET DOMAIN log /\ Of(log, {"encrypt"}) \in SUBSET DOMAIN log
      /\ Filled(log) \in SUBSET DOMAIN log /\ Tools(log) \in SUBSET DOMAIN log
      /\ Secrets(log) \in SUBSET DOMAIN log
  BY SetsIn
<1>5. Window \in Nat /\ SpawnWindow \in Nat /\ Assoc \in Nat  BY LedgerAssumption
<1>6. ASSUME NEW I \in SUBSET DOMAIN log, NEW S, NEW w \in Nat, Keeps(S, I, log, w, now)
      PROVE  Keeps(S, I, log, w, now')
  <2>1. \A i \in I : log[i].at \in Nat  BY <1>3
  <2> QED  BY <1>2, <1>6, <2>1, KeepsLater
<1>7. FileKeeping(row, log, now) /\ HostKeeping(row, log, now) /\ row.lastSeen <= now
  BY <1>1 DEF Kept
<1>8. FileKeeping(row, log, now')  BY <1>4, <1>5, <1>6, <1>7 DEF FileKeeping
<1>9. \A i \in Secrets(log) : log[i].at + Assoc >= now' => log[i].at <= row.lastSecret
  <2> SUFFICES ASSUME NEW i \in Secrets(log), log[i].at + Assoc >= now'
               PROVE  log[i].at <= row.lastSecret
    OBVIOUS
  <2>1. log[i].at \in Nat  BY <1>3, <1>4
  <2>2. log[i].at + Assoc >= now  BY <1>2, <1>5, <2>1
  <2> QED  BY <1>7, <2>2 DEF HostKeeping
<1>10. row.lastSecret \in Nat /\ row.lastSeen \in Nat  BY <1>1 DEF LedgerInv, TypeOK, Row
<1>11. row.lastSecret <= now' /\ row.lastSeen <= now'
  <2>1. row.lastSecret <= now  BY <1>7 DEF HostKeeping
  <2> QED  BY <1>2, <1>7, <1>10, <2>1
<1>12. HostKeeping(row, log, now')
  BY <1>4, <1>5, <1>6, <1>7, <1>9, <1>11 DEF HostKeeping
<1> QED  BY <1>1, <1>8, <1>11, <1>12 DEF Kept

\* Kept is inductive together with LedgerInv and Backing.
THEOREM KeptInvariant == Spec => []Kept
<1>1. Init => Kept
  <2> SUFFICES ASSUME Init  PROVE Kept  OBVIOUS
  <2>1. row = NoRow /\ DOMAIN log = {}  BY DEF Init
  <2> QED  BY <2>1 DEF Kept
<1>2. LedgerInv /\ Backing /\ Kept /\ [Next]_vars => Kept'
  <2> SUFFICES ASSUME LedgerInv, Backing, Kept, [Next]_vars  PROVE Kept'  OBVIOUS
  <2>1. ASSUME NEW e \in Events, Observe(e)  PROVE Kept'  BY <2>1, ObserveKept
  <2>2. CASE MarkSuspected  BY <2>2, MarkKept
  <2>3. CASE Sweep
    <3>1. row # NoRow /\ row.lastSeen + Ttl < now  BY <2>3 DEF Sweep, Idle
    <3>2. row' = NoRow /\ now' = now /\ log' = log  BY <2>3 DEF Sweep
    <3>3. ASSUME NEW i \in DOMAIN log  PROVE log[i].at + Ttl < now
      <4>1. log[i].at <= row.lastSeen  BY <3>1 DEF Kept
      <4>2. log[i].at \in Nat /\ row.lastSeen \in Nat /\ Ttl \in Nat /\ now \in Nat
        BY <3>1, LogTimes, LogType, LedgerAssumption DEF LedgerInv, TypeOK, Row
      <4> QED  BY <3>1, <4>1, <4>2
    <3> QED  BY <3>2, <3>3 DEF Kept
  <2>4. CASE Tick  BY <2>4, TickKept
  <2>5. CASE Restart
    <3>1. row' = NoRow /\ DOMAIN log' = {}  BY <2>5 DEF Restart
    <3> QED  BY <3>1 DEF Kept
  <2>6. CASE UNCHANGED vars  BY <2>6 DEF vars, Kept
  <2> QED  BY <2>1, <2>2, <2>3, <2>4, <2>5, <2>6 DEF Next
<1> QED  BY <1>1, <1>2, LedgerInvariant, BackingInvariant, PTL DEF Spec

-----------------------------------------------------------------------------
(* What the arrays keep is enough for the alarms.                          *)

\* Enough events in the window means enough that an array holds: if one in the
\* window was pushed out, Cap newer ones, all in the window, pushed it.
LEMMA HeldEnough ==
    ASSUME TypeOK, NEW I \in SUBSET DOMAIN log, NEW w \in Nat, NEW T \in Nat, T <= Cap,
           \A i, j \in DOMAIN log : i < j => log[i].at <= log[j].at,
           T <= Cardinality({i \in I : log[i].at + w >= now})
    PROVE  T <= Cardinality({i \in Held(I) : log[i].at + w >= now})
<1> DEFINE L == {i \in I : log[i].at + w >= now}
           H == {i \in Held(I) : log[i].at + w >= now}
           late(i) == {j \in I : j > i}
<1>1. now \in Nat /\ Len(log) \in Nat /\ DOMAIN log = 1..Len(log) /\ Cap \in Nat
  BY LogType, LedgerAssumption
<1>2. \A i \in DOMAIN log : log[i].at \in Nat  BY LogTimes
<1>3. H \in SUBSET L /\ L \in SUBSET DOMAIN log /\ H \in SUBSET DOMAIN log  BY DEF Held
<1>4. CASE L = H  BY <1>4
<1>5. CASE L # H
  <2> DEFINE G == {Len(log) - i : i \in L \ H}
  <2>1. G \subseteq Nat /\ G # {}
    <3> HIDE DEF L, H
    <3> QED  BY <1>1, <1>3, <1>5
  <2>2. PICK g \in G : \A k \in G : g <= k
    <3> HIDE DEF G
    <3> QED  BY <2>1, LeastOf
  <2>3. PICK i \in L \ H : g = Len(log) - i  BY <2>2
  <2>4. \A j \in L \ H : Len(log) - i <= Len(log) - j  BY <2>2, <2>3
  <2>5. i \in DOMAIN log /\ i \in I /\ log[i].at + w >= now  BY <2>3
  <2>6. ~ (Cardinality(late(i)) < Cap)  BY <2>3 DEF Held
  <2>7. late(i) \in SUBSET L
    <3> SUFFICES ASSUME NEW j \in I, j > i  PROVE log[j].at + w >= now
      OBVIOUS
    <3>1. log[i].at <= log[j].at  BY <1>1, <2>5
    <3>2. log[i].at \in Nat /\ log[j].at \in Nat  BY <1>2, <2>5
    <3> QED  BY <1>1, <2>5, <3>1, <3>2
  <2>8. late(i) \in SUBSET H
    <3> SUFFICES ASSUME NEW j \in I, j > i, j \notin H  PROVE FALSE
      OBVIOUS
    <3>1. j \in L  BY <2>7
    <3>2. Len(log) - i <= Len(log) - j
      <4> HIDE DEF L, H
      <4> QED  BY <2>4, <3>1
    <3>3. i \in Nat /\ j \in Nat  BY <1>1, <2>5
    <3> QED  BY <1>1, <3>2, <3>3
  <2>9. IsFiniteSet(H) /\ Cardinality(H) \in Nat  BY <1>3, DomainFinite
  <2> HIDE DEF L, H, late
  <2>10. Cardinality(late(i)) <= Cardinality(H) /\ Cardinality(late(i)) \in Nat
    BY <2>8, <2>9, FS_Subset, FS_CardinalityType
  <2> QED  BY <1>1, <2>6, <2>9, <2>10 DEF H
<1> QED  BY <1>4, <1>5

\* What an array keeps, it has an entry for.
LEMMA KeptCount ==
    ASSUME NEW S, IsFiniteSet(S), NEW I, NEW w, Keeps(S, I, log, w, now)
    PROVE  Cardinality({i \in Held(I) : log[i].at + w >= now}) <= Cardinality(S)
<1> DEFINE H == {i \in Held(I) : log[i].at + w >= now}
           f == [i \in H |-> CHOOSE x \in S : x.id = i]
<1>1. \A i \in H : f[i] \in S /\ f[i].id = i  BY DEF Keeps
<1>2. f \in [H -> S]  BY <1>1
<1>3. \A i, j \in H : f[i] = f[j] => i = j  BY <1>1
<1> HIDE DEF f, H
<1>4. f \in Injection(H, S)  BY <1>2, <1>3 DEF Injection, IsInjective
<1>5. Cardinality(H) <= Cardinality(S)  BY <1>4, FS_Injection
<1> QED  BY <1>5 DEF H

\* A threshold of a counter can be reached.
LEMMA ThresholdCap ==
    ASSUME NEW s, NEW k \in Signatures \ {"bytes"}
    PROVE  Threshold(s, k) \in Nat /\ Threshold(s, k) <= Cap
<1>1. Limit[k] \in Nat /\ Least[k] \in Nat /\ Factor \in Nat \ {0}  BY LedgerAssumption
<1>2. Limit[k] <= Cap /\ Least[k] <= Cap /\ Cap \in Nat  BY LedgerAssumption
<1>3. Limit[k] \div Factor \in Nat /\ Limit[k] \div Factor <= Limit[k]  BY <1>1
<1> QED  BY <1>1, <1>2, <1>3 DEF Threshold

\* Deletions and renames that are enough are counted.
LEMMA CountsKept ==
    ASSUME TypeOK, NEW r, NEW s, FileArrays(r, Len(log)), FileKeeping(r, log, now),
           \A i, j \in DOMAIN log : i < j => log[i].at <= log[j].at
    PROVE  \A k \in {"deletes", "renames"} : Evidence[k] >= Threshold(s, k) =>
                                               Count(r, k) >= Threshold(s, k)
<1>1. ASSUME NEW S, IsFiniteSet(S), NEW ops, Keeps(S, Of(log, ops), log, Window, now),
             NEW T \in Nat, T <= Cap, Cardinality(Lately(ops)) >= T
      PROVE  Cardinality(S) >= T
  <2> DEFINE I == Of(log, ops)
             L == {i \in I : log[i].at + Window >= now}
             H == {i \in Held(I) : log[i].at + Window >= now}
  <2>1. I \in SUBSET DOMAIN log /\ Lately(ops) = L  BY DEF Of, Lately, Logged
  <2>2. L \in SUBSET DOMAIN log /\ H \in SUBSET DOMAIN log  BY <2>1 DEF Held
  <2>3. Cardinality(L) \in Nat /\ Cardinality(H) \in Nat /\ Cardinality(S) \in Nat
    BY <1>1, <2>2, DomainFinite, FS_CardinalityType
  <2>4. T <= Cardinality(L)  BY <1>1, <2>1, <2>3
  <2>5. T <= Cardinality(H)
    <3> HIDE DEF I
    <3> QED  BY <1>1, <2>1, <2>4, HeldEnough, LedgerAssumption
  <2>6. Cardinality(H) <= Cardinality(S)  BY <1>1, KeptCount
  <2> QED  BY <1>1, <2>3, <2>5, <2>6
<1>2. IsFiniteSet(r.deletes) /\ IsFiniteSet(r.renames)  BY DEF FileArrays, Array
<1>3. /\ Keeps(r.deletes, Of(log, {"delete"}), log, Window, now)
      /\ Keeps(r.renames, Of(log, {"encrypt"}), log, Window, now)
  BY DEF FileKeeping
<1>4. /\ Evidence["deletes"] = Cardinality(Lately({"delete"}))
      /\ Evidence["renames"] = Cardinality(Lately({"encrypt"}))
      /\ Count(r, "deletes") = Cardinality(r.deletes)
      /\ Count(r, "renames") = Cardinality(r.renames)
  BY DEF Evidence, Count
<1>5. /\ Threshold(s, "deletes") \in Nat /\ Threshold(s, "deletes") <= Cap
      /\ Threshold(s, "renames") \in Nat /\ Threshold(s, "renames") <= Cap
  BY ThresholdCap DEF Signatures
<1> QED  BY <1>1, <1>2, <1>3, <1>4, <1>5

\* So are the bytes written.
LEMMA BytesKept ==
    ASSUME TypeOK, NEW r \in Row, FileArrays(r, Len(log)), Grounded(r, log),
           FileKeeping(r, log, now)
    PROVE  LET A == Held(Logged({"write"})) \cap Lately({"write"}) IN
           LoggedBytes(A) <= Count(r, "bytes") /\ Count(r, "bytes") \in Nat /\ LoggedBytes(A) \in Nat
<1> DEFINE W == Logged({"write"})
           A == Held(W) \cap Lately({"write"})
           S == r.writes
<1>1. A \in SUBSET DOMAIN log /\ W \in SUBSET DOMAIN log  BY DEF Held, Logged
<1>2. IsFiniteSet(A) /\ IsFiniteSet(W)  BY <1>1, DomainFinite
<1>3. S \in SUBSET Entry /\ IsFiniteSet(S)  BY DEF FileArrays, Array
<1>4. log \in Seq([ev : Event, at : Nat])
  <2>1. log \in Seq(LoggedEvents)  BY LogType
  <2>2. LoggedEvents \subseteq [ev : Event, at : Nat]  BY LedgerAssumption DEF LoggedEvents
  <2> DEFINE E == [ev : Event, at : Nat]
  <2>3. LoggedEvents \subseteq E  BY <2>2
  <2>4. log \in Seq(E)
    <3> HIDE DEF E
    <3> QED  BY <2>1, <2>3
  <2> QED  BY <2>4
<1>5. ASSUME NEW i \in A, log[i].ev.bytes # 0
      PROVE  \E x \in S : x.id = i /\ x.bytes = log[i].ev.bytes
  <2> DEFINE F == Filled(log)
             later(I) == {j \in I : j > i}
  <2>1. log[i].ev.bytes \in Nat
    <3> DEFINE E == [ev : Event, at : Nat]
    <3>1. log[i] \in E
      <4>1. log \in Seq(E)  BY <1>4
      <4> HIDE DEF E, A
      <4> QED  BY <1>1, <4>1
    <3> QED  BY <3>1 DEF Event
  <2>2. i \in F  BY <2>1, <1>5 DEF Filled, Of, Held, Logged
  <2>3. F \subseteq W  BY DEF Filled, Of, Logged
  <2>4. later(F) \in SUBSET later(W) /\ later(W) \in SUBSET W  BY <2>3
  <2>5. IsFiniteSet(later(W))  BY <1>2, <2>4, FS_Subset
  <2>6. Cardinality(later(F)) <= Cardinality(later(W)) /\ IsFiniteSet(later(F))
    <3> HIDE DEF later
    <3> QED  BY <2>4, <2>5, FS_Subset
  <2>7. Cardinality(later(W)) < Cap  BY <1>5 DEF Held
  <2>8. Cardinality(later(F)) < Cap
    <3>1. Cardinality(later(F)) \in Nat /\ Cardinality(later(W)) \in Nat /\ Cap \in Nat
      BY <2>5, <2>6, FS_CardinalityType, LedgerAssumption
    <3> HIDE DEF later, F, W
    <3> QED  BY <2>6, <2>7, <3>1
  <2>9. i \in Held(F)  BY <2>2, <2>8 DEF Held
  <2>10. log[i].at + Window >= now  BY <1>5 DEF Lately
  <2>11. PICK x \in S : x.id = i  BY <2>9, <2>10 DEF FileKeeping, Keeps
  <2> QED  BY <2>11 DEF Grounded, Backed, IsEvent
<1> HIDE DEF A, S
<1>6. LoggedBytes(A) <= BytesOf(S) /\ BytesOf(S) \in Nat /\ LoggedBytes(A) \in Nat
  BY <1>1, <1>2, <1>3, <1>4, <1>5, BytesHeld
<1> QED  BY <1>6 DEF A, S, Count

\* What the counters that are met oblige the checks to say.
LEMMA DestroyOwes ==
    ASSUME NEW r, NEW k \in Signatures, Count(r, k) >= Threshold(r.suspected, k)
    PROVE  Kind[k] \in DestroyChecks(r) \/ DestroyChecks(r) \cap Red # {}
<1> DEFINE met == {j \in Signatures : Count(r, j) >= Threshold(r.suspected, j)}
           two == Cardinality(met \cap Destruction) >= 2
           red == (IF two THEN {"n3-ransom"} ELSE {})
                  \cup {Kind[j] : j \in met \cap {"writeDeletes"}}
<1>1. DestroyChecks(r) = IF red = {} THEN {Kind[j] : j \in met} ELSE red
  BY DEF DestroyChecks
<1>2. red \subseteq Red  BY DEF Red, Kind
<1>3. k \in met  OBVIOUS
<1> HIDE DEF red, met
<1> QED  BY <1>1, <1>2, <1>3

LEMMA DestructionFinite == IsFiniteSet(Destruction)
<1>1. Destruction = (({"deletes"} \cup {"renames"}) \cup {"inPlace"}) \cup {"bytes"}
  BY DEF Destruction
<1>2. IsFiniteSet({"deletes"})  BY FS_Singleton
<1> QED  BY <1>1, <1>2, FS_AddElement

LEMMA RansomOwed ==
    ASSUME NEW r, NEW X,
           X \subseteq {k \in Destruction : Count(r, k) >= Threshold(r.suspected, k)},
           Cardinality(X) >= 2
    PROVE  "n3-ransom" \in DestroyChecks(r)
<1> DEFINE met == {j \in Signatures : Count(r, j) >= Threshold(r.suspected, j)}
           both == met \cap Destruction
           red == (IF Cardinality(both) >= 2 THEN {"n3-ransom"} ELSE {})
                  \cup {Kind[j] : j \in met \cap {"writeDeletes"}}
<1>1. DestroyChecks(r) = IF red = {} THEN {Kind[j] : j \in met} ELSE red
  BY DEF DestroyChecks
<1>2. Cardinality(both) >= 2
  <2>1. X \in SUBSET both  BY DEF Signatures, Destruction
  <2>2. IsFiniteSet(Destruction)  BY DestructionFinite
  <2>3. both \in SUBSET Destruction  OBVIOUS
  <2> HIDE DEF both
  <2>4. IsFiniteSet(both)  BY <2>2, <2>3, FS_Subset
  <2>5. Cardinality(X) <= Cardinality(both) /\ IsFiniteSet(X)  BY <2>1, <2>4, FS_Subset
  <2>6. Cardinality(X) \in Nat /\ Cardinality(both) \in Nat
    BY <2>4, <2>5, FS_CardinalityType
  <2> QED  BY <2>5, <2>6
<1> HIDE DEF both, met
<1> QED  BY <1>1, <1>2

LEMMA SeesDestruction ==
    ASSUME LedgerInv, Backing, Kept, Derived, log[Len(log)].ev.op # "net"
    PROVE  DestructionSeen
<1> DEFINE sum == LoggedBytes(Held(Logged({"write"})) \cap Lately({"write"}))
           shown == {k \in {"deletes", "renames"} : Evidence[k] >= Threshold(row.suspected, k)}
                    \cup {k \in {"bytes"} : sum >= Threshold(row.suspected, k)}
<1>1. /\ TypeOK /\ row # NoRow /\ row \in Row /\ FileArrays(row, Len(log))
      /\ Grounded(row, log) /\ FileKeeping(row, log, now)
      /\ raised = ExfilChecks(row) \cup DestroyChecks(row)
  BY DEF LedgerInv, Backing, Kept, Derived, TypeOK, Remembered
<1>2. \A i, j \in DOMAIN log : i < j => log[i].at <= log[j].at  BY DEF Kept
<1>3. \A k \in {"deletes", "renames"} : Evidence[k] >= Threshold(row.suspected, k) =>
                                          Count(row, k) >= Threshold(row.suspected, k)
  BY <1>1, <1>2, CountsKept
<1>4. sum >= Threshold(row.suspected, "bytes") => Count(row, "bytes") >= Threshold(row.suspected, "bytes")
  <2>1. sum <= Count(row, "bytes") /\ Count(row, "bytes") \in Nat /\ sum \in Nat
    BY <1>1, BytesKept
  <2>2. Threshold(row.suspected, "bytes") \in Int  BY ThresholdType DEF Signatures
  <2> HIDE DEF sum
  <2> QED  BY <2>1, <2>2
<1> HIDE DEF sum
<1>5. shown \subseteq {k \in Destruction : Count(row, k) >= Threshold(row.suspected, k)}
  BY <1>3, <1>4 DEF Destruction
<1>6. Destruction \subseteq Signatures  BY DEF Destruction, Signatures
<1> HIDE DEF shown
<1>7. \A k \in shown : Kind[k] \in raised \/ raised \cap Red # {}
  <2> SUFFICES ASSUME NEW k \in shown
               PROVE  Kind[k] \in DestroyChecks(row) \/ DestroyChecks(row) \cap Red # {}
    BY <1>1
  <2> QED  BY <1>5, <1>6, DestroyOwes
<1>8. Cardinality(shown) >= 2 => "n3-ransom" \in raised  BY <1>1, <1>5, RansomOwed
<1> QED  BY <1>7, <1>8 DEF DestructionSeen, shown, sum

\* What the order of a row's times obliges the checks to say.
LEMMA ExfilOwes ==
    ASSUME NEW r
    PROVE  /\ Follows(r.lastSecret, r.lastSpawn, SeqWindow) => "n3-seq-read-spawn" \in ExfilChecks(r)
           /\ Follows(r.lastSecret, r.lastNet, SeqWindow) => "n3-seq-read-net" \in ExfilChecks(r)
           /\ Follows(r.lastSecret, r.lastNet, Assoc) /\ r.secretBytes > 0 /\ r.netBytes > 0 =>
                ExfilChecks(r) \cap ExfilKinds # {}
<1> DEFINE sp == Follows(r.lastSecret, r.lastSpawn, SeqWindow)
           nt == Follows(r.lastSecret, r.lastNet, SeqWindow)
           red == (IF sp THEN {"n3-seq-read-spawn"} ELSE {})
                  \cup (IF nt THEN {"n3-seq-read-net"} ELSE {})
                  \cup (IF Matches(r) THEN {"n3-exfil-match"} ELSE {})
           soft == /\ r.secretBytes > 0 /\ r.netBytes > 0
                   /\ Follows(r.lastSecret, r.lastNet, Assoc) /\ ~ nt
<1>1. ExfilChecks(r) = IF red = {} /\ soft THEN {"n3-exfil"} ELSE red  BY DEF ExfilChecks
<1>2. /\ sp => "n3-seq-read-spawn" \in red
      /\ nt => "n3-seq-read-net" \in red
      /\ red \subseteq ExfilKinds
  BY DEF ExfilKinds
<1> HIDE DEF red
<1>3. "n3-exfil" \in ExfilKinds  BY DEF ExfilKinds
<1>4. (sp => "n3-seq-read-spawn" \in ExfilChecks(r)) /\ (nt => "n3-seq-read-net" \in ExfilChecks(r))
  BY <1>1, <1>2
<1>5. soft => ExfilChecks(r) \cap ExfilKinds # {}  BY <1>1, <1>2, <1>3
<1>6. nt => ExfilChecks(r) \cap ExfilKinds # {}  BY <1>2, <1>4
<1> QED  BY <1>4, <1>5, <1>6

LEMMA SeesSequence ==
    ASSUME LedgerInv, Kept, Derived
    PROVE  SequenceSeen
<1> DEFINE last == log[Len(log)]
           op == last.ev.op
           read(w) == \E i \in SecretReads : log[i].at + w >= now
           tools == {i \in Held({k \in Started : log[k].ev.on # ""}) : log[i].at + SpawnWindow >= now}
           exfil == {"n3-exfil", "n3-exfil-match", "n3-seq-read-net", "n3-seq-read-spawn"}
<1>1. /\ TypeOK /\ row # NoRow /\ row \in Row /\ Origin(row, log) /\ HostKeeping(row, log, now)
      /\ ExfilChecks(row) \subseteq raised
      /\ op = "net" => SpawnNetChecks(row) \subseteq raised
      /\ op = "spawn" => row.lastSpawn = now
      /\ op = "net" => row.lastNet = now /\ row.netBytes >= last.ev.bytes
      /\ op = "net" /\ last.ev.on # "" => \E d \in row.nets : d.on = last.ev.on /\ d.at = now
  BY DEF LedgerInv, Kept, Derived, TypeOK, Remembered
<1>2. now \in Nat /\ now # 0 /\ SeqWindow \in Nat /\ Assoc \in Nat /\ SpawnWindow \in Nat
      /\ SeqWindow < Assoc
  BY LogType, LedgerAssumption DEF LedgerInv, TypeOK
<1>3. \A i \in DOMAIN log : log[i].at \in 1..now
  <2> DEFINE T == [ev : Events, at : 1..now]
  <2>1. log \in Seq(T)  BY <1>1 DEF TypeOK
  <2>2. \A i \in DOMAIN log : log[i] \in T
    <3> HIDE DEF T
    <3> QED  BY <2>1
  <2> QED  BY <2>2
<1>4. row.lastSecret \in Nat /\ row.lastSecret <= now /\ (row.lastSecret # 0 => row.secretBytes > 0)
  BY <1>1 DEF Row, HostKeeping
<1>5. ASSUME NEW w \in {SeqWindow, Assoc}, read(w)
      PROVE  Follows(row.lastSecret, now, w) /\ row.secretBytes > 0
  <2>1. PICK i \in SecretReads : log[i].at + w >= now  BY <1>5
  <2>2. i \in Secrets(log)  BY DEF Secrets, SecretReads
  <2>3. log[i].at \in Nat /\ log[i].at >= 1  BY <1>2, <1>3, <2>2, SetsIn
  <2>4. w \in Nat /\ w <= Assoc  BY <1>2
  <2>5. log[i].at + Assoc >= now  BY <1>2, <2>1, <2>3, <2>4
  <2>6. log[i].at <= row.lastSecret  BY <1>1, <2>2, <2>5 DEF HostKeeping
  <2>7. row.lastSecret # 0 /\ now - row.lastSecret <= w
    BY <1>2, <1>4, <2>1, <2>3, <2>4, <2>6
  <2> QED  BY <1>2, <1>4, <2>7 DEF Follows
<1>6. op = "spawn" /\ read(SeqWindow) => "n3-seq-read-spawn" \in raised
  BY <1>1, <1>5, ExfilOwes
<1>7. op = "net" /\ read(SeqWindow) => "n3-seq-read-net" \in raised
  BY <1>1, <1>5, ExfilOwes
<1>8. op = "net" /\ last.ev.bytes > 0 /\ read(Assoc) => raised \cap exfil # {}
  <2> SUFFICES ASSUME op = "net", last.ev.bytes > 0, read(Assoc)  PROVE raised \cap exfil # {}
    OBVIOUS
  <2>1. Follows(row.lastSecret, row.lastNet, Assoc) /\ row.secretBytes > 0  BY <1>1, <1>5
  <2>2. row.netBytes > 0
    <3>1. last.ev.bytes \in Nat
      <4>1. Len(log) \in DOMAIN log
        <5>1. log \in Seq(LoggedEvents) /\ Len(log) \in Nat  BY <1>1, LogType
        <5>2. Len(log) > 0  BY DEF Derived
        <5> QED  BY <5>1, <5>2
      <4> DEFINE T == [ev : Events, at : 1..now]
      <4>2. log \in Seq(T)  BY <1>1 DEF TypeOK
      <4>3. last \in T
        <5> HIDE DEF T
        <5> QED  BY <4>1, <4>2
      <4> QED  BY <4>3, LedgerAssumption DEF Event
    <3>2. row.netBytes \in Nat  BY <1>1 DEF Row
    <3>3. row.netBytes >= last.ev.bytes  BY <1>1
    <3> HIDE DEF last
    <3> QED  BY <3>1, <3>2, <3>3
  <2>3. ExfilChecks(row) \cap ExfilKinds # {}  BY <2>1, <2>2, ExfilOwes
  <2>4. ExfilKinds = exfil  BY DEF ExfilKinds
  <2> QED  BY <1>1, <2>3, <2>4
<1>9. op = "net" /\ last.ev.on \in Paths(tools) => "n3-spawn-net-match" \in raised
  <2> SUFFICES ASSUME op = "net", last.ev.on \in Paths(tools)
               PROVE  "n3-spawn-net-match" \in SpawnNetChecks(row)
    BY <1>1
  <2>1. PICK i \in tools : log[i].ev.on = last.ev.on  BY DEF Paths
  <2>2. {k \in Started : log[k].ev.on # ""} = Tools(log)  BY DEF Started, Tools
  <2>3. i \in Held(Tools(log)) /\ log[i].at + SpawnWindow >= now  BY <2>1, <2>2
  <2>4. i \in Tools(log)  BY <2>3 DEF Held
  <2>5. i \in DOMAIN log /\ log[i].ev.on # ""  BY <2>4 DEF Tools
  <2>6. PICK s \in row.spawns : s.id = i  BY <1>1, <2>3 DEF HostKeeping, Keeps
  <2>7. s.on = log[i].ev.on /\ s.at = log[i].at  BY <1>1, <2>6 DEF Origin
  <2>8. PICK d \in row.nets : d.on = last.ev.on /\ d.at = now  BY <1>1, <2>1, <2>5
  <2> HIDE DEF tools, op, last
  <2>9. Follows(s.at, d.at, SpawnWindow)
    <3>a. log[i].at \in 1..now  BY <1>3, <2>5
    <3>b. s.at \in 1..now  BY <2>7, <3>a
    <3>1. s.at \in Nat /\ s.at >= 1 /\ s.at <= now
      <4>1. now \in Nat  BY <1>2
      <4> QED  BY <3>b, <4>1
    <3>2. s.at + SpawnWindow >= now  BY <2>3, <2>7
    <3>3. s.at # 0 /\ now # 0 /\ s.at <= now /\ now - s.at <= SpawnWindow
      <4>1. now \in Nat /\ SpawnWindow \in Nat /\ now # 0  BY <1>2
      <4> QED  BY <3>1, <3>2, <4>1
    <3> QED  BY <2>8, <3>3 DEF Follows
  <2> QED  BY <2>1, <2>7, <2>8, <2>9 DEF SpawnNetChecks
<1> QED  BY <1>6, <1>7, <1>8, <1>9 DEF SequenceSeen

\* Only an event makes the log longer, and it leaves the alarms it owes.
LEMMA LongerIsObserved ==
    ASSUME LedgerInv, Backing, Kept, [Next]_vars, Len(log') > Len(log)
    PROVE  LedgerInv' /\ Backing' /\ Kept' /\ Derived'
<1>1. Len(log) \in Nat  BY LogType DEF LedgerInv
<1>2. PICK e \in Events : Observe(e)
  <2>1. CASE log' = log  BY <1>1, <2>1
  <2>2. CASE Restart  BY <1>1, <2>2 DEF Restart
  <2> QED  BY <2>1, <2>2 DEF Next, MarkSuspected, Sweep, Tick, vars
<1> QED  BY <1>2, ObserveStep, ObserveBacking, ObserveKept

-----------------------------------------------------------------------------
(* Theorems.                                                               *)

\* The row, the alarms and the log keep their types, and no array of a row
\* outgrows the cap, for every cap and every burst of events.
THEOREM LedgerType == Spec => []TypeOK
BY LedgerInvariant, PTL DEF LedgerInv

\* Every sequence alarm goes back to a read of secrets and what followed it
\* within the window, and every match of hosts to a tool and a send.
THEOREM LedgerSequenceIsReal == Spec => []SequenceIsReal
<1>1. LedgerInv => SequenceIsReal
  <2> SUFFICES ASSUME LedgerInv  PROVE SequenceIsReal  OBVIOUS
  <2>1. /\ now \in Nat /\ SeqWindow \in Nat /\ Assoc \in Nat /\ SpawnWindow \in Nat
        /\ \A i \in DOMAIN log : log[i].at \in Nat
    <3>1. now \in Nat /\ log \in Seq(LoggedEvents)  BY LogType DEF LedgerInv
    <3>2. \A i \in DOMAIN log : log[i] \in LoggedEvents  BY <3>1
    <3> QED  BY <3>1, <3>2, LedgerAssumption DEF LoggedEvents
  <2>2. CASE raised = {}  BY <2>2 DEF SequenceIsReal
  <2>3. CASE raised # {}
    <3>1. Origin(row, log) /\ Justified(row, raised, now)
      BY <2>3 DEF LedgerInv, Remembered
    <3>2. ASSUME NEW w \in Nat, Follows(row.lastSecret, row.lastSpawn, w)
          PROVE  Sequence(SecretReads, Started, w)
      <4>1. PICK i \in SecretReads : log[i].at = row.lastSecret
        BY <3>1, <3>2 DEF Follows, Origin, SecretReads
      <4>2. PICK j \in Started : log[j].at = row.lastSpawn
        BY <3>1, <3>2 DEF Follows, Origin, Started
      <4>3. log[i].at \in Nat /\ log[j].at \in Nat  BY <2>1 DEF SecretReads, Started
      <4>4. log[i].at <= log[j].at /\ log[j].at <= log[i].at + w
        BY <3>2, <4>1, <4>2, <4>3 DEF Follows
      <4> QED  BY <4>4 DEF Sequence
    <3>3. ASSUME NEW w \in Nat, Follows(row.lastSecret, row.lastNet, w)
          PROVE  Sequence(SecretReads, Sends, w)
      <4>1. PICK i \in SecretReads : log[i].at = row.lastSecret
        BY <3>1, <3>3 DEF Follows, Origin, SecretReads
      <4>2. PICK j \in Sends : log[j].at = row.lastNet
        BY <3>1, <3>3 DEF Follows, Origin, Sends
      <4>3. log[i].at \in Nat /\ log[j].at \in Nat  BY <2>1 DEF SecretReads, Sends
      <4>4. log[i].at <= log[j].at /\ log[j].at <= log[i].at + w
        BY <3>3, <4>1, <4>2, <4>3 DEF Follows
      <4> QED  BY <4>4 DEF Sequence
    <3>4. "n3-seq-read-spawn" \in raised => Sequence(SecretReads, Started, SeqWindow)
      BY <2>1, <3>1, <3>2 DEF Justified
    <3>5. "n3-seq-read-net" \in raised => Sequence(SecretReads, Sends, SeqWindow)
      BY <2>1, <3>1, <3>3 DEF Justified
    <3>6. raised \cap {"n3-exfil", "n3-exfil-match"} # {} => Sequence(SecretReads, Sends, Assoc)
      BY <2>1, <3>1, <3>3 DEF Justified
    <3>7. ASSUME "n3-spawn-net-match" \in raised
          PROVE  \E i \in Started, j \in Sends :
                    /\ log[i].ev.on = log[j].ev.on
                    /\ log[i].at <= log[j].at /\ now <= log[i].at + SpawnWindow
      <4>1. PICK s \in row.spawns, d \in row.nets :
               s.on = d.on /\ Follows(s.at, d.at, SpawnWindow) /\ s.at + SpawnWindow >= now
        BY <3>1, <3>7 DEF Justified
      <4>2. /\ s.id \in Started /\ log[s.id].ev.on = s.on /\ log[s.id].at = s.at
            /\ d.id \in Sends /\ log[d.id].ev.on = d.on /\ log[d.id].at = d.at
        BY <3>1, <4>1 DEF Origin, Started, Sends
      <4>3. s.at \in Nat  BY <2>1, <4>2 DEF Started
      <4>4. s.at <= d.at /\ now <= s.at + SpawnWindow  BY <2>1, <4>1, <4>3 DEF Follows
      <4> QED  BY <4>1, <4>2, <4>4
    <3> QED  BY <3>4, <3>5, <3>6, <3>7 DEF SequenceIsReal
  <2> QED  BY <2>2, <2>3
<1> QED  BY <1>1, LedgerInvariant, PTL

\* A destruction alarm is backed by what the log shows in the window before it,
\* for any events, windows and thresholds, also of a suspect: no event counts
\* twice, nor does a path that was overwritten or read again and again, and no
\* alarm comes of what has left the window or of a row that was dropped.
THEOREM LedgerDestructionIsReal == Spec => []DestructionIsReal
<1>1. LedgerInv /\ Backing => DestructionIsReal
  <2> SUFFICES ASSUME LedgerInv, Backing  PROVE DestructionIsReal  OBVIOUS
  <2> DEFINE met == {k \in Signatures : Count(row, k) >= Threshold(row.suspected, k)}
  <2>1. CASE raised \cap DestroyKinds = {}
    <3>1. \A k \in Signatures : Kind[k] \notin raised  BY <2>1 DEF DestroyKinds
    <3>2. "n3-ransom" \notin raised  BY <2>1 DEF DestroyKinds
    <3> QED  BY <3>1, <3>2 DEF DestructionIsReal
  <2>2. CASE raised \cap DestroyKinds # {}
    <3>1. /\ TypeOK /\ FileArrays(row, Len(log)) /\ Grounded(row, log) /\ Fresh(row, now)
          /\ raised \cap DestroyKinds = DestroyChecks(row)
      BY <2>2 DEF LedgerInv, Remembered, Backing
    <3>2. met \subseteq Shown
      <4> SUFFICES ASSUME NEW k \in Signatures, Count(row, k) >= Threshold(row.suspected, k)
                   PROVE  Evidence[k] >= Threshold(row.suspected, k)
        BY DEF Shown
      <4>1. Count(row, k) <= Evidence[k] /\ Count(row, k) \in Nat /\ Evidence[k] \in Nat
        BY <3>1, CountBound
      <4>2. Threshold(row.suspected, k) \in Int  BY ThresholdType
      <4> QED  BY <4>1, <4>2
    <3>3. /\ \A k \in Signatures : Kind[k] \in DestroyChecks(row) => k \in met
          /\ "n3-ransom" \in DestroyChecks(row) => Cardinality(met \cap Destruction) >= 2
      BY DestroyMeans
    <3> HIDE DEF met
    <3>4. \A k \in Signatures : Kind[k] \in raised => k \in Shown
      BY <3>1, <3>2, <3>3 DEF DestroyKinds
    <3>5. ASSUME "n3-ransom" \in raised  PROVE Cardinality(Shown \cap Destruction) >= 2
      <4>1. Cardinality(met \cap Destruction) >= 2  BY <3>1, <3>3, <3>5 DEF DestroyKinds
      <4>2. met \cap Destruction \in SUBSET (Shown \cap Destruction)  BY <3>2
      <4>3. IsFiniteSet(Shown \cap Destruction)
        <5>3. IsFiniteSet(Destruction)  BY DestructionFinite
        <5>4. Shown \cap Destruction \in SUBSET Destruction  OBVIOUS
        <5> QED  BY <5>3, <5>4, FS_Subset
      <4>4. Cardinality(met \cap Destruction) <= Cardinality(Shown \cap Destruction)
        BY <4>2, <4>3, FS_Subset
      <4>5. /\ Cardinality(met \cap Destruction) \in Nat
            /\ Cardinality(Shown \cap Destruction) \in Nat
        BY <4>2, <4>3, FS_Subset, FS_CardinalityType
      <4> QED  BY <4>1, <4>4, <4>5
    <3> QED  BY <3>4, <3>5 DEF DestructionIsReal
  <2> QED  BY <2>1, <2>2
<1> QED  BY <1>1, LedgerInvariant, BackingInvariant, PTL

\* What meets a threshold raises an alarm: at a file event the ledger tells every
\* destruction the log shows in the window, as far as an array can hold it, and at
\* every event a sequence of read, tool and send that is within its window; the
\* cap, the sweeps, an idle row, an earlier alarm and a restart hide none, for any
\* events, windows, caps and thresholds.
THEOREM LedgerAttacksSeen == Spec => AttacksSeen
<1> DEFINE A == Len(log') > Len(log) =>
                  /\ log'[Len(log')].ev.op # "net" => DestructionSeen'
                  /\ SequenceSeen'
<1>1. LedgerInv /\ Backing /\ Kept /\ Derived =>
        /\ log[Len(log)].ev.op # "net" => DestructionSeen
        /\ SequenceSeen
  BY SeesDestruction, SeesSequence
<1>2. (LedgerInv /\ Backing /\ Kept /\ Derived =>
         /\ log[Len(log)].ev.op # "net" => DestructionSeen
         /\ SequenceSeen)'
  BY <1>1, PTL
<1>3. LedgerInv /\ Backing /\ Kept /\ [Next]_vars => [A]_vars  BY <1>2, LongerIsObserved
<1> QED  BY <1>3, LedgerInvariant, BackingInvariant, KeptInvariant, PTL DEF Spec, AttacksSeen

=============================================================================
