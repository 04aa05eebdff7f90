----------------------------- MODULE PanelProofs -----------------------------
(***************************************************************************)
(* What the user switches and what the user is shown, for every document,  *)
(* every budget, every length of a day, and every plugin, contract and     *)
(* operation.  First the surgery on a document (PatchFile), then one       *)
(* invariant for each of the three parts that meet in ShieldPanel, and     *)
(* last the way from a call of a plugin to its rows (OpSink).              *)
(***************************************************************************)
EXTENDS ShieldPanel, OpSink, SequenceTheorems, WellFoundedInduction, TLAPS

(***************************************************************************)
(* Sequences: an element taken out.                                        *)
(***************************************************************************)

\* What is left when one element is taken out.
LEMMA RemoveAtFacts ==
    ASSUME NEW S, NEW s \in Seq(S), NEW i \in 1..Len(s)
    PROVE  /\ RemoveAt(s, i) \in Seq(S)
           /\ Len(RemoveAt(s, i)) = Len(s) - 1
           /\ \A j \in 1..(Len(s) - 1) : RemoveAt(s, i)[j] = IF j < i THEN s[j] ELSE s[j + 1]
<1> DEFINE a == SubSeq(s, 1, i - 1)
           b == SubSeq(s, i + 1, Len(s))
<1>1. Len(s) \in Nat /\ i \in Int
  BY LenProperties
<1>2. \A j \in 1..Len(s) : s[j] \in S
  BY ElementOfSeq
<1>3. /\ a \in Seq(S) /\ Len(a) = i - 1
      /\ \A j \in 1..(i - 1) : a[j] = s[j]
  <2>1. \A j \in 1..(i - 1) : s[j] \in S
    BY <1>1, <1>2
  <2>2. 1 \in Int /\ i - 1 \in Int
    BY <1>1
  <2>3. /\ a \in Seq(S) /\ Len(a) = IF 1 <= i - 1 THEN i - 1 - 1 + 1 ELSE 0
        /\ \A j \in 1..(i - 1 - 1 + 1) : a[j] = s[1 + j - 1]
    BY <2>1, <2>2, SubSeqProperties
  <2> HIDE DEF a
  <2>4. Len(a) = i - 1
    BY <2>3, <1>1
  <2>5. ASSUME NEW j \in 1..(i - 1) PROVE a[j] = s[j]
    <3>1. j \in 1..(i - 1 - 1 + 1) /\ 1 + j - 1 = j
      BY <1>1
    <3> QED BY <3>1, <2>3
  <2> QED BY <2>3, <2>4, <2>5
<1>4. /\ b \in Seq(S) /\ Len(b) = Len(s) - i
      /\ \A j \in 1..(Len(s) - i) : b[j] = s[i + j]
  <2>1. \A j \in (i + 1)..Len(s) : s[j] \in S
    BY <1>1, <1>2
  <2>2. i + 1 \in Int /\ Len(s) \in Int
    BY <1>1
  <2>3. /\ b \in Seq(S) /\ Len(b) = IF i + 1 <= Len(s) THEN Len(s) - (i + 1) + 1 ELSE 0
        /\ \A j \in 1..(Len(s) - (i + 1) + 1) : b[j] = s[(i + 1) + j - 1]
    BY <2>1, <2>2, SubSeqProperties
  <2> HIDE DEF b
  <2>4. Len(b) = Len(s) - i
    BY <2>3, <1>1
  <2>5. ASSUME NEW j \in 1..(Len(s) - i) PROVE b[j] = s[i + j]
    <3>1. j \in 1..(Len(s) - (i + 1) + 1) /\ (i + 1) + j - 1 = i + j
      BY <1>1
    <3> QED BY <3>1, <2>3
  <2> QED BY <2>3, <2>4, <2>5
<1>5. RemoveAt(s, i) = a \o b
  BY DEF RemoveAt
<1> HIDE DEF a, b
<1>6. /\ a \o b \in Seq(S) /\ Len(a \o b) = Len(a) + Len(b)
      /\ \A j \in 1..(Len(a) + Len(b)) : (a \o b)[j] = IF j <= Len(a) THEN a[j] ELSE b[j - Len(a)]
  BY <1>3, <1>4, ConcatProperties
<1>7. Len(a \o b) = Len(s) - 1
  BY <1>1, <1>3, <1>4, <1>6
<1>8. ASSUME NEW j \in 1..(Len(s) - 1)
      PROVE  (a \o b)[j] = IF j < i THEN s[j] ELSE s[j + 1]
  <2>1. j \in 1..(Len(a) + Len(b))
    BY <1>1, <1>3, <1>4
  <2>2. (a \o b)[j] = IF j <= Len(a) THEN a[j] ELSE b[j - Len(a)]
    BY <2>1, <1>6
  <2>3. CASE j < i
    <3>1. j \in 1..(i - 1) /\ j <= Len(a)
      BY <2>3, <1>1, <1>3
    <3> QED BY <2>2, <2>3, <3>1, <1>3
  <2>4. CASE ~(j < i)
    <3>1. ~(j <= Len(a)) /\ j - Len(a) \in 1..(Len(s) - i) /\ i + (j - Len(a)) = j + 1
      BY <2>4, <1>1, <1>3
    <3>2. b[j - Len(a)] = s[i + (j - Len(a))]
      BY <3>1, <1>4
    <3> QED BY <2>2, <2>4, <3>1, <3>2
  <2> QED BY <2>3, <2>4
<1> QED BY <1>5, <1>6, <1>7, <1>8

\* It does not matter what stood where something is taken out.
LEMMA RemoveAtExcept ==
    ASSUME NEW S, NEW s \in Seq(S), NEW i \in 1..Len(s), NEW e \in S
    PROVE  RemoveAt([s EXCEPT ![i] = e], i) = RemoveAt(s, i)
<1> DEFINE t == [s EXCEPT ![i] = e]
<1>1. /\ t \in Seq(S) /\ Len(t) = Len(s)
      /\ \A j \in 1..Len(s) : t[j] = IF j = i THEN e ELSE s[j]
  BY ExceptSeq
<1> HIDE DEF t
<1>2. Len(s) \in Nat /\ i \in 1..Len(t)
  BY LenProperties, <1>1
<1>3. /\ RemoveAt(s, i) \in Seq(S) /\ Len(RemoveAt(s, i)) = Len(s) - 1
      /\ \A j \in 1..(Len(s) - 1) : RemoveAt(s, i)[j] = IF j < i THEN s[j] ELSE s[j + 1]
  BY RemoveAtFacts
<1>4. /\ RemoveAt(t, i) \in Seq(S) /\ Len(RemoveAt(t, i)) = Len(t) - 1
      /\ \A j \in 1..(Len(t) - 1) : RemoveAt(t, i)[j] = IF j < i THEN t[j] ELSE t[j + 1]
  BY <1>1, <1>2, RemoveAtFacts
<1>5. ASSUME NEW j \in 1..(Len(s) - 1) PROVE RemoveAt(t, i)[j] = RemoveAt(s, i)[j]
  <2>1. j \in 1..(Len(t) - 1) /\ j \in 1..Len(s) /\ j + 1 \in 1..Len(s)
    BY <1>1, <1>2
  <2>2. RemoveAt(t, i)[j] = IF j < i THEN t[j] ELSE t[j + 1]
    BY <2>1, <1>4
  <2>3. RemoveAt(s, i)[j] = IF j < i THEN s[j] ELSE s[j + 1]
    BY <1>3
  <2>4. t[j] = IF j = i THEN e ELSE s[j]
    BY <2>1, <1>1
  <2>5. t[j + 1] = IF j + 1 = i THEN e ELSE s[j + 1]
    BY <2>1, <1>1
  <2>6. (j < i => j # i) /\ (~(j < i) => j + 1 # i)
    BY <1>2
  <2> QED BY <2>2, <2>3, <2>4, <2>5, <2>6
<1>6. RemoveAt(t, i) = RemoveAt(s, i)
  <2> DEFINE u == RemoveAt(t, i)
             v == RemoveAt(s, i)
  <2>1. u \in Seq(S) /\ v \in Seq(S) /\ Len(u) = Len(v)
    BY <1>1, <1>3, <1>4
  <2>2. \A j \in 1..Len(u) : u[j] = v[j]
    BY <1>1, <1>4, <1>5
  <2> HIDE DEF u, v
  <2>3. u = v
    BY <2>1, <2>2, SeqEqual
  <2> QED BY <2>3 DEF u, v
<1> QED BY <1>6 DEF t

\* The last element taken out again.
LEMMA RemoveAtAppended ==
    ASSUME NEW S, NEW s \in Seq(S), NEW e \in S
    PROVE  RemoveAt(Append(s, e), Len(s) + 1) = s
<1> DEFINE t == Append(s, e)
           i == Len(s) + 1
<1>1. /\ t \in Seq(S) /\ Len(t) = Len(s) + 1
      /\ \A j \in 1..Len(s) : t[j] = s[j]
  BY AppendProperties
<1>2. Len(s) \in Nat
  BY LenProperties
<1>3. i \in 1..Len(t)
  BY <1>1, <1>2
<1> HIDE DEF t
<1>4. /\ RemoveAt(t, i) \in Seq(S) /\ Len(RemoveAt(t, i)) = Len(t) - 1
      /\ \A j \in 1..(Len(t) - 1) : RemoveAt(t, i)[j] = IF j < i THEN t[j] ELSE t[j + 1]
  BY <1>1, <1>3, RemoveAtFacts
<1> DEFINE u == RemoveAt(t, i)
<1>5. Len(u) = Len(s)
  BY <1>1, <1>2, <1>4
<1>6. ASSUME NEW j \in 1..Len(s) PROVE u[j] = s[j]
  <2>1. j \in 1..(Len(t) - 1) /\ j < i
    BY <1>1, <1>2
  <2> QED BY <2>1, <1>1, <1>4
<1>7. u = s
  <2>1. u \in Seq(S)
    BY <1>4
  <2> HIDE DEF u
  <2> QED BY <2>1, <1>5, <1>6, SeqEqual
<1> QED BY <1>7 DEF t

(***************************************************************************)
(* Documents: where vet's entry is, and what each cut of the surgery makes *)
(* of the document.                                                        *)
(***************************************************************************)

Keys == {"profile", "guard"}
VetKinds ==
    [kind : {"vet"}, form : {"block", "inline", "bare"}, profile : Tiers \cup {"none"},
     guard : {"none", "off", "watch"}, more : BOOLEAN]

\* A document whose only entry of vet stands there.
VetStands(doc, entry) == HasVet(doc) /\ Vet(doc) = entry

\* The fields of a document.
LEMMA DocumentFields ==
    ASSUME NEW doc, IsDocument(doc)
    PROVE  /\ doc.written \in BOOLEAN /\ doc.dashes \in BOOLEAN /\ doc.broken \in BOOLEAN
           /\ doc.entries \in Seq(Entries)
           /\ Len(doc.entries) \in Nat /\ DOMAIN doc.entries = 1..Len(doc.entries)
           /\ \A n \in 1..Len(doc.entries) : doc.entries[n] \in Entries
           /\ VetEntries(doc) \subseteq 1..Len(doc.entries)
           /\ \A m, n \in VetEntries(doc) : m = n
<1>1. doc.written \in BOOLEAN /\ doc.dashes \in BOOLEAN /\ doc.broken \in BOOLEAN /\ doc.entries \in Seq(Entries)
  BY DEF IsDocument
<1>2. Len(doc.entries) \in Nat /\ DOMAIN doc.entries = 1..Len(doc.entries)
  BY <1>1, LenProperties
<1>3. \A n \in 1..Len(doc.entries) : doc.entries[n] \in Entries
  BY <1>1, ElementOfSeq
<1>4. VetEntries(doc) \subseteq 1..Len(doc.entries)
  BY <1>2 DEF VetEntries
<1>5. \A m, n \in VetEntries(doc) : m = n
  BY DEF IsDocument
<1> QED BY <1>1, <1>2, <1>3, <1>4, <1>5

\* Vet's own entry.
LEMMA VetFacts ==
    ASSUME NEW doc, IsDocument(doc), HasVet(doc)
    PROVE  /\ VetAt(doc) \in 1..Len(doc.entries)
           /\ VetEntries(doc) = {VetAt(doc)}
           /\ Vet(doc) \in VetKinds
<1>1. VetAt(doc) \in VetEntries(doc)
  BY DEF VetAt, HasVet
<1>2. VetAt(doc) \in 1..Len(doc.entries) /\ doc.entries[VetAt(doc)].kind = "vet"
  BY <1>1, DocumentFields DEF VetEntries
<1>3. VetEntries(doc) = {VetAt(doc)}
  BY <1>1, DocumentFields
<1>4. Vet(doc) \in Entries /\ Vet(doc).kind = "vet"
  BY <1>2, DocumentFields DEF Vet
<1>5. Vet(doc) \in VetKinds
  BY <1>4 DEF Entries, VetKinds
<1> QED BY <1>2, <1>3, <1>5

\* A document made of another's fields and other entries.
LEMMA SplicedFields ==
    ASSUME NEW doc, IsDocument(doc), NEW entries \in Seq(Entries)
    PROVE  LET new == Spliced(doc, entries).doc
           IN  /\ new \in [written : BOOLEAN, dashes : BOOLEAN, broken : BOOLEAN, entries : Seq(Entries)]
               /\ new.written = TRUE /\ new.entries = entries
               /\ new.dashes = doc.dashes /\ new.broken = doc.broken
BY DEF Spliced, IsDocument

\* An entry of vet's put in the place of the one that was there.
LEMMA SetVetFacts ==
    ASSUME NEW doc, IsDocument(doc), HasVet(doc), NEW entry \in VetKinds
    PROVE  LET new == SetVet(doc, entry).doc
           IN  /\ IsDocument(new) /\ VetStands(new, entry)
               /\ Others(new) = Others(doc)
               /\ new.dashes = doc.dashes /\ new.broken = doc.broken
<1> DEFINE at == VetAt(doc)
           entries == [doc.entries EXCEPT ![at] = entry]
           new == Spliced(doc, entries).doc
<1>1. at \in 1..Len(doc.entries) /\ VetEntries(doc) = {at} /\ doc.entries \in Seq(Entries)
  BY VetFacts, DocumentFields
<1>2. entry \in Entries /\ entry.kind = "vet"
  BY DEF Entries, VetKinds
<1> HIDE DEF at
<1>3. /\ entries \in Seq(Entries) /\ Len(entries) = Len(doc.entries)
      /\ \A j \in 1..Len(doc.entries) : entries[j] = IF j = at THEN entry ELSE doc.entries[j]
  BY <1>1, <1>2, ExceptSeq
<1>4. RemoveAt(entries, at) = RemoveAt(doc.entries, at)
  BY <1>1, <1>2, RemoveAtExcept
<1>5. DOMAIN entries = 1..Len(doc.entries) /\ DOMAIN doc.entries = 1..Len(doc.entries)
  BY <1>3, <1>1, LenProperties
<1> HIDE DEF entries
<1>6. /\ new \in [written : BOOLEAN, dashes : BOOLEAN, broken : BOOLEAN, entries : Seq(Entries)]
      /\ new.entries = entries /\ new.dashes = doc.dashes /\ new.broken = doc.broken
  BY <1>3, SplicedFields
<1> HIDE DEF new
<1>7. VetEntries(new) = {at}
  <2>1. ASSUME NEW n \in VetEntries(new) PROVE n = at
    <3>1. n \in 1..Len(doc.entries) /\ entries[n].kind = "vet"
      BY <1>5, <1>6 DEF VetEntries
    <3>2. CASE n # at
      <4>1. doc.entries[n].kind = "vet"
        BY <3>1, <3>2, <1>3
      <4>2. n \in VetEntries(doc)
        BY <4>1, <3>1, <1>5 DEF VetEntries
      <4> QED BY <4>2, <1>1
    <3> QED BY <3>2
  <2>2. at \in VetEntries(new)
    BY <1>1, <1>2, <1>3, <1>5, <1>6 DEF VetEntries
  <2> QED BY <2>1, <2>2
<1>8. HasVet(new) /\ VetAt(new) = at
  BY <1>7 DEF HasVet, VetAt
<1>9. Vet(new) = entry
  BY <1>8, <1>6, <1>3, <1>1 DEF Vet
<1>10. IsDocument(new)
  BY <1>6, <1>7 DEF IsDocument
<1>11. Others(new) = Others(doc)
  BY <1>8, <1>6, <1>4 DEF Others, at
<1>12. new = SetVet(doc, entry).doc
  BY DEF SetVet, Spliced, new, entries, at
<1> QED BY <1>6, <1>8, <1>9, <1>10, <1>11, <1>12 DEF VetStands

\* An entry of vet's put at the end of entries that are all somebody else's.
LEMMA AppendedFacts ==
    ASSUME NEW doc, IsDocument(doc), ~HasVet(doc), NEW entry \in VetKinds
    PROVE  LET new == Appended(doc, entry).doc
           IN  /\ IsDocument(new) /\ VetStands(new, entry)
               /\ Others(new) = doc.entries
               /\ new.dashes = doc.dashes /\ new.broken = doc.broken
<1> DEFINE at == Len(doc.entries) + 1
           entries == Append(doc.entries, entry)
           new == Spliced(doc, entries).doc
<1>1. doc.entries \in Seq(Entries) /\ Len(doc.entries) \in Nat /\ DOMAIN doc.entries = 1..Len(doc.entries)
  BY DocumentFields
<1>2. entry \in Entries /\ entry.kind = "vet"
  BY DEF Entries, VetKinds
<1>3. /\ entries \in Seq(Entries) /\ Len(entries) = at
      /\ \A j \in 1..Len(doc.entries) : entries[j] = doc.entries[j]
      /\ entries[at] = entry
  BY <1>1, <1>2, AppendProperties
<1>4. RemoveAt(entries, at) = doc.entries
  BY <1>1, <1>2, RemoveAtAppended
<1> HIDE DEF entries
<1>5. DOMAIN entries = 1..at
  BY <1>3, LenProperties
<1>6. /\ new \in [written : BOOLEAN, dashes : BOOLEAN, broken : BOOLEAN, entries : Seq(Entries)]
      /\ new.entries = entries /\ new.dashes = doc.dashes /\ new.broken = doc.broken
  BY <1>3, SplicedFields
<1> HIDE DEF new
<1>7. VetEntries(new) = {at}
  <2>1. ASSUME NEW n \in VetEntries(new) PROVE n = at
    <3>1. n \in 1..at /\ entries[n].kind = "vet"
      BY <1>5, <1>6 DEF VetEntries
    <3>2. CASE n # at
      <4>0. n \in 1..Len(doc.entries)
        BY <3>1, <3>2, <1>1
      <4>1. doc.entries[n].kind = "vet"
        BY <4>0, <3>1, <1>3
      <4>2. n \in VetEntries(doc)
        BY <4>0, <4>1, <1>1 DEF VetEntries
      <4> QED BY <4>2 DEF HasVet
    <3> QED BY <3>2
  <2>2. at \in 1..at
    BY <1>1
  <2>3. at \in VetEntries(new)
    BY <2>2, <1>2, <1>3, <1>5, <1>6 DEF VetEntries
  <2> QED BY <2>1, <2>3
<1> HIDE DEF at
<1>8. HasVet(new) /\ VetAt(new) = at
  BY <1>7 DEF HasVet, VetAt
<1>9. Vet(new) = entry
  BY <1>8, <1>6, <1>3 DEF Vet
<1>10. IsDocument(new)
  BY <1>6, <1>7 DEF IsDocument
<1>11. Others(new) = doc.entries
  BY <1>8, <1>6, <1>4 DEF Others
<1>12. new = Appended(doc, entry).doc
  BY DEF Appended, new, entries
<1> QED BY <1>6, <1>8, <1>9, <1>10, <1>11, <1>12 DEF VetStands

\* The entries of the others.
LEMMA OthersFacts ==
    ASSUME NEW doc, IsDocument(doc)
    PROVE  /\ Others(doc) \in Seq(Entries)
           /\ \A n \in 1..Len(Others(doc)) : Others(doc)[n].kind # "vet"
<1>1. CASE ~HasVet(doc)
  <2>1. Others(doc) = doc.entries
    BY <1>1 DEF Others
  <2> QED BY <2>1, <1>1, DocumentFields DEF HasVet, VetEntries
<1>2. CASE HasVet(doc)
  <2> DEFINE at == VetAt(doc)
             others == RemoveAt(doc.entries, at)
  <2>1. at \in 1..Len(doc.entries) /\ VetEntries(doc) = {at} /\ doc.entries \in Seq(Entries)
    BY <1>2, VetFacts, DocumentFields
  <2>2. Others(doc) = others
    BY <1>2 DEF Others
  <2> HIDE DEF at
  <2>3. /\ others \in Seq(Entries) /\ Len(others) = Len(doc.entries) - 1
        /\ \A j \in 1..(Len(doc.entries) - 1) : others[j] = IF j < at THEN doc.entries[j] ELSE doc.entries[j + 1]
    BY <2>1, RemoveAtFacts
  <2> HIDE DEF others
  <2>4. ASSUME NEW n \in 1..Len(others) PROVE others[n].kind # "vet"
    <3>1. n \in 1..(Len(doc.entries) - 1) /\ Len(doc.entries) \in Nat
      BY <2>3, DocumentFields
    <3>2. PICK m \in 1..Len(doc.entries) : m # at /\ others[n] = doc.entries[m]
      <4>1. CASE n < at
        BY <4>1, <3>1, <2>1, <2>3
      <4>2. CASE ~(n < at)
        <5>1. n + 1 \in 1..Len(doc.entries) /\ n + 1 # at
          BY <4>2, <3>1, <2>1
        <5> QED BY <5>1, <4>2, <3>1, <2>3
      <4> QED BY <4>1, <4>2
    <3>3. m \notin VetEntries(doc)
      BY <3>2, <2>1
    <3>4. m \in DOMAIN doc.entries
      BY <3>2, DocumentFields
    <3> QED BY <3>2, <3>3, <3>4 DEF VetEntries
  <2> QED BY <2>2, <2>3, <2>4
<1> QED BY <1>1, <1>2

\* Entries none of which is vet's make a document without it.
LEMMA WithoutVet ==
    ASSUME NEW new, NEW entries \in Seq(Entries),
           new \in [written : BOOLEAN, dashes : BOOLEAN, broken : BOOLEAN, entries : Seq(Entries)],
           new.entries = entries,
           \A n \in 1..Len(entries) : entries[n].kind # "vet"
    PROVE  IsDocument(new) /\ ~HasVet(new) /\ Others(new) = entries
<1>1. DOMAIN entries = 1..Len(entries)
  BY LenProperties
<1>2. VetEntries(new) = {}
  BY <1>1 DEF VetEntries
<1> QED BY <1>2 DEF HasVet, IsDocument, Others

(***************************************************************************)
(* What a cut must not lose.                                               *)
(***************************************************************************)

Keeps(before, after) ==
    /\ Others(after) = Others(before)
    /\ HasVet(before) /\ Vet(before).more => HasVet(after) /\ Vet(after).more

\* The keys of vet's entry are on lines of their own.
Block(doc) == HasVet(doc) /\ Vet(doc).form = "block"

\* A value a key is given.
IsValue(key, value) == \/ key = "profile" /\ value \in Tiers
                       \/ key = "guard" /\ value = "watch"

LEMMA KeepsTransitive ==
    ASSUME NEW a, NEW b, NEW c, Keeps(a, b), Keeps(b, c)
    PROVE  Keeps(a, c)
BY DEF Keeps

\* An entry with one key set on its line.
KeySet(entry, key, value, new) ==
    /\ new \in VetKinds /\ new.form = "block" /\ new[key] = value /\ new.more = entry.more
    /\ \A other \in Keys \ {key} : new[other] = entry[other]

LEMMA EntryWithKey ==
    ASSUME NEW entry \in VetKinds, NEW key \in Keys, NEW value, IsValue(key, value) \/ value = "none",
           NEW new, new = [entry EXCEPT !.form = "block", ![key] = value]
    PROVE  KeySet(entry, key, value, new)
<1>1. CASE key = "profile"
  BY <1>1 DEF VetKinds, Keys, IsValue, Tiers, KeySet
<1>2. CASE key = "guard"
  BY <1>2 DEF VetKinds, Keys, IsValue, Tiers, KeySet
<1> QED BY <1>1, <1>2 DEF Keys

\* A key taken out of lines.
LEMMA DroppedFacts ==
    ASSUME NEW doc, IsDocument(doc), Block(doc), NEW key \in Keys
    PROVE  LET new == Dropped(doc, key).doc
           IN  /\ IsDocument(new) /\ Keeps(doc, new) /\ ~IsInline(new)
               /\ new.dashes = doc.dashes /\ new.broken = doc.broken
               /\ LineOf(new, key) = "none"
               /\ \A other \in Keys \ {key} : LineOf(new, other) = LineOf(doc, other)
<1> DEFINE new == Dropped(doc, key).doc
           rest == [Vet(doc) EXCEPT ![key] = "none"]
<1>1. HasVet(doc) /\ Vet(doc) \in VetKinds /\ Vet(doc).form = "block"
  BY VetFacts DEF Block
<1>2. rest = [Vet(doc) EXCEPT !.form = "block", ![key] = "none"]
  BY <1>1 DEF VetKinds, Keys
<1>3. /\ rest \in VetKinds /\ rest.form = "block" /\ rest[key] = "none" /\ rest.more = Vet(doc).more
      /\ \A other \in Keys \ {key} : rest[other] = Vet(doc)[other]
  <2> HIDE DEF rest
  <2>1. KeySet(Vet(doc), key, "none", rest)
    BY <1>1, <1>2, EntryWithKey, Zenon
  <2> QED BY <2>1 DEF KeySet
<1> DEFINE goes == rest.profile = "none" /\ rest.guard = "none" /\ ~rest.more
<1>4. CASE goes
  <2>1. Dropped(doc, key) = Spliced(doc, Others(doc))
    BY <1>4 DEF Dropped
  <2>2. /\ new \in [written : BOOLEAN, dashes : BOOLEAN, broken : BOOLEAN, entries : Seq(Entries)]
        /\ new.entries = Others(doc) /\ new.dashes = doc.dashes /\ new.broken = doc.broken
    <3>1. Others(doc) \in Seq(Entries)
      BY OthersFacts
    <3>2. new = Spliced(doc, Others(doc)).doc
      BY <2>1
    <3> DEFINE others == Others(doc)
    <3> HIDE DEF new, others
    <3>3. /\ Spliced(doc, others).doc \in [written : BOOLEAN, dashes : BOOLEAN, broken : BOOLEAN, entries : Seq(Entries)]
          /\ Spliced(doc, others).doc.entries = others
          /\ Spliced(doc, others).doc.dashes = doc.dashes /\ Spliced(doc, others).doc.broken = doc.broken
      BY <3>1, SplicedFields DEF others
    <3> QED BY <3>2, <3>3 DEF others
  <2> HIDE DEF new
  <2>3. IsDocument(new) /\ ~HasVet(new) /\ Others(new) = Others(doc)
    BY <2>2, OthersFacts, WithoutVet
  <2>4. \A other \in Keys : LineOf(new, other) = "none"
    BY <2>3 DEF LineOf
  <2>5. \A other \in Keys \ {key} : LineOf(doc, other) = "none"
    BY <1>1, <1>3, <1>4 DEF LineOf, Keys
  <2>6. ~Vet(doc).more
    BY <1>3, <1>4
  <2>7. IsDocument(new) /\ Keeps(doc, new) /\ ~IsInline(new)
    BY <2>3, <2>6 DEF Keeps, IsInline
  <2> QED BY <2>2, <2>4, <2>5, <2>7 DEF new
<1>5. CASE ~goes
  <2>1. Dropped(doc, key) = SetVet(doc, rest)
    BY <1>5 DEF Dropped
  <2> HIDE DEF rest
  <2>2. /\ IsDocument(new) /\ VetStands(new, rest) /\ Others(new) = Others(doc)
        /\ new.dashes = doc.dashes /\ new.broken = doc.broken
    BY <2>1, <1>1, <1>3, SetVetFacts
  <2> HIDE DEF new
  <2>3. LineOf(new, key) = "none"
    BY <2>2, <1>3 DEF LineOf, VetStands
  <2>4. \A other \in Keys \ {key} : LineOf(new, other) = LineOf(doc, other)
    BY <2>2, <1>1, <1>3 DEF LineOf, VetStands
  <2>5. Keeps(doc, new) /\ ~IsInline(new)
    BY <2>2, <1>3 DEF Keeps, IsInline, VetStands
  <2> QED BY <2>2, <2>3, <2>4, <2>5 DEF new
<1> QED BY <1>4, <1>5

\* A document parsed and dumped again: the key is on its line, unless it is
\* the tier of a document that could not be parsed.
LEMMA ReconstructedFacts ==
    ASSUME NEW doc, IsDocument(doc), HasVet(doc), ~doc.dashes,
           NEW key \in Keys, NEW value, IsValue(key, value)
    PROVE  LET new == Reconstructed(doc, key, value).doc
           IN  /\ ~Reconstructed(doc, key, value).refused
               /\ IsDocument(new) /\ HasVet(new) /\ ~new.dashes
               /\ ~Unparsable(doc) \/ key = "guard" => Block(new) /\ LineOf(new, key) = value
               /\ ~Unparsable(doc) => Keeps(doc, new)
<1> DEFINE lost == Unparsable(doc)
           kept == IF lost THEN <<>> ELSE Others(doc)
           parsed == [Vet(doc) EXCEPT !.form = "block", ![key] = value]
           entry == IF lost THEN Rescued(key, value) ELSE parsed
           base == Document(kept)
           new == Reconstructed(doc, key, value).doc
<1>1. Vet(doc) \in VetKinds
  BY VetFacts
<1>2. /\ Rescued(key, value) \in VetKinds
      /\ key = "guard" => Rescued(key, value).form = "block" /\ Rescued(key, value)[key] = value
  <2>1. CASE key = "guard"
    <3>1. value = "watch"
      BY <2>1 DEF IsValue
    <3> QED BY <2>1, <3>1 DEF Rescued, VetEntry, VetKinds, Tiers
  <2>2. CASE key # "guard"
    BY <2>2 DEF Rescued, EmptyConfig, VetEntry, VetKinds, Tiers
  <2> QED BY <2>1, <2>2
<1>3. KeySet(Vet(doc), key, value, parsed)
  BY <1>1, EntryWithKey, Zenon
<1> HIDE DEF parsed
<1>4. /\ entry \in VetKinds
      /\ ~lost \/ key = "guard" => entry.form = "block" /\ entry[key] = value
      /\ ~lost => entry.more = Vet(doc).more
  BY <1>2, <1>3 DEF KeySet
<1>5. kept \in Seq(Entries) /\ \A n \in 1..Len(kept) : kept[n].kind # "vet"
  <2>1. CASE lost
    <3>1. kept = <<>>
      BY <2>1
    <3> HIDE DEF kept
    <3>2. kept \in Seq(Entries) /\ Len(kept) = 0
      BY <3>1, EmptySeq
    <3> QED BY <3>2
  <2>2. CASE ~lost
    BY <2>2, OthersFacts
  <2> QED BY <2>1, <2>2
<1>6. Reconstructed(doc, key, value) = [doc |-> Document(Append(kept, entry)), repaired |-> TRUE, refused |-> FALSE]
  <2>1. CASE lost
    <3>1. Append(<<>>, Rescued(key, value)) = <<Rescued(key, value)>>
      OBVIOUS
    <3> QED BY <2>1, <3>1 DEF Reconstructed
  <2>2. CASE ~lost
    BY <2>2 DEF Reconstructed, parsed
  <2> QED BY <2>1, <2>2
<1> HIDE DEF entry
<1>7. ~lost => kept = Others(doc)
  OBVIOUS
<1> HIDE DEF kept, lost
<1>8. /\ base \in [written : BOOLEAN, dashes : BOOLEAN, broken : BOOLEAN, entries : Seq(Entries)]
      /\ base.entries = kept /\ base.dashes = FALSE /\ base.broken = FALSE /\ base.written = TRUE
  BY <1>5 DEF Document
<1>9. IsDocument(base) /\ ~HasVet(base)
  <2> HIDE DEF base
  <2> QED BY <1>5, <1>8, WithoutVet
<1>10. Appended(base, entry).doc = Document(Append(kept, entry))
  BY DEF Appended, Spliced, Document
<1> HIDE DEF base
<1>11. /\ IsDocument(new) /\ VetStands(new, entry) /\ Others(new) = kept /\ new.dashes = FALSE
  BY <1>4, <1>6, <1>8, <1>9, <1>10, AppendedFacts
<1>12. ~Reconstructed(doc, key, value).refused
  BY <1>6
<1> HIDE DEF new
<1>13. HasVet(new) /\ (~lost \/ key = "guard" => Block(new) /\ LineOf(new, key) = value)
  BY <1>4, <1>11 DEF Block, LineOf, VetStands
<1>14. ~lost => Keeps(doc, new)
  BY <1>4, <1>7, <1>11 DEF Keeps, VetStands
<1> QED BY <1>11, <1>12, <1>13, <1>14 DEF new, lost

\* A key put on its line.
LEMMA PutKeyFacts ==
    ASSUME NEW doc, IsDocument(doc), HasVet(doc), ~doc.dashes,
           NEW key \in Keys, NEW value, IsValue(key, value)
    PROVE  LET new == PutKey(doc, key, value).doc
           IN  /\ ~PutKey(doc, key, value).refused
               /\ IsDocument(new) /\ ~new.dashes
               /\ ~Rescue(doc) \/ key = "guard" => Block(new) /\ LineOf(new, key) = value
               /\ Block(doc) => \A other \in Keys \ {key} : LineOf(new, other) = LineOf(doc, other)
               /\ ~Rescue(doc) => Keeps(doc, new)
<1>1. CASE IsInline(doc)
  <2>1. PutKey(doc, key, value) = Reconstructed(doc, key, value)
    BY <1>1 DEF PutKey
  <2>2. ~Block(doc)
    BY <1>1 DEF Block, IsInline
  <2> QED BY <1>1, <2>1, <2>2, ReconstructedFacts DEF Rescue
<1>2. CASE ~IsInline(doc)
  <2> DEFINE entry == [Vet(doc) EXCEPT !.form = "block", ![key] = value]
             new == PutKey(doc, key, value).doc
  <2>1. PutKey(doc, key, value) = SetVet(doc, entry)
    BY <1>2 DEF PutKey
  <2>2. Vet(doc) \in VetKinds
    BY VetFacts
  <2>3. /\ entry \in VetKinds /\ entry.form = "block" /\ entry[key] = value /\ entry.more = Vet(doc).more
        /\ \A other \in Keys \ {key} : entry[other] = Vet(doc)[other]
    <3>1. entry = [Vet(doc) EXCEPT !.form = "block", ![key] = value]
      OBVIOUS
    <3> HIDE DEF entry
    <3>2. KeySet(Vet(doc), key, value, entry)
      BY <2>2, <3>1, EntryWithKey, Zenon
    <3> QED BY <3>2 DEF KeySet
  <2> HIDE DEF entry
  <2>4. /\ IsDocument(new) /\ VetStands(new, entry) /\ Others(new) = Others(doc) /\ ~new.dashes
    BY <2>1, <2>3, SetVetFacts
  <2>5. ~PutKey(doc, key, value).refused
    BY <2>1 DEF SetVet, Spliced
  <2> HIDE DEF new
  <2>6. Block(new) /\ LineOf(new, key) = value
    BY <2>3, <2>4 DEF Block, LineOf, VetStands
  <2>7. Block(doc) => \A other \in Keys \ {key} : LineOf(new, other) = LineOf(doc, other)
    BY <2>3, <2>4 DEF Block, LineOf, VetStands
  <2>8. Keeps(doc, new)
    BY <2>3, <2>4 DEF Keeps, VetStands
  <2> QED BY <2>4, <2>5, <2>6, <2>7, <2>8 DEF new
<1> QED BY <1>1, <1>2

(***************************************************************************)
(* The two splices: which lines they leave, and what they keep.            *)
(***************************************************************************)

\* A splice of a document, whichever it is.
SafeSplice(doc, splice) ==
    /\ splice.refused = doc.dashes
    /\ IsDocument(splice.doc)
    /\ ~doc.dashes => ~splice.doc.dashes
    /\ ~Rescue(doc) => Keeps(doc, splice.doc) /\ ~Rescue(splice.doc)

\* Nothing is spliced.
LEMMA KeptFacts ==
    ASSUME NEW doc, IsDocument(doc), ~doc.dashes
    PROVE  SafeSplice(doc, Kept(doc)) /\ Kept(doc).doc = doc
<1>1. doc.dashes = FALSE
  BY DocumentFields
<1>2. Kept(doc).doc = doc /\ Kept(doc).refused = FALSE
  BY DEF Kept
<1> QED BY <1>1, <1>2 DEF SafeSplice, Keeps

\* A document cut by dashes is refused as it is.
LEMMA RefusedFacts ==
    ASSUME NEW doc, IsDocument(doc), doc.dashes
    PROVE  SafeSplice(doc, [Kept(doc) EXCEPT !.refused = TRUE])
<1> DEFINE splice == [Kept(doc) EXCEPT !.refused = TRUE]
<1>1. splice.doc = doc /\ splice.refused = TRUE
  BY DEF Kept
<1>2. doc.dashes = TRUE
  BY DocumentFields
<1> HIDE DEF splice
<1>3. SafeSplice(doc, splice)
  BY <1>1, <1>2 DEF SafeSplice, Keeps
<1> QED BY <1>3 DEF splice

\* A key taken out, as a splice.
LEMMA DroppedIsSafe ==
    ASSUME NEW doc, IsDocument(doc), ~doc.dashes, Block(doc), NEW key \in Keys
    PROVE  SafeSplice(doc, Dropped(doc, key))
<1> DEFINE splice == Dropped(doc, key)
<1>1. splice.refused = FALSE
  BY DEF Dropped, SetVet, Spliced
<1>2. /\ IsDocument(splice.doc) /\ Keeps(doc, splice.doc) /\ ~IsInline(splice.doc)
      /\ splice.doc.dashes = doc.dashes
  BY DroppedFacts
<1>3. doc.dashes = FALSE
  BY DocumentFields
<1> HIDE DEF splice
<1>4. SafeSplice(doc, splice)
  BY <1>1, <1>2, <1>3 DEF SafeSplice, Rescue
<1> QED BY <1>4 DEF splice

\* A key put, as a splice.
LEMMA PutIsSafe ==
    ASSUME NEW doc, IsDocument(doc), ~doc.dashes, HasVet(doc), NEW key \in Keys, NEW value, IsValue(key, value)
    PROVE  SafeSplice(doc, PutKey(doc, key, value))
<1> DEFINE splice == PutKey(doc, key, value)
<1>1. /\ ~splice.refused
      /\ IsDocument(splice.doc) /\ ~splice.doc.dashes
      /\ ~Rescue(doc) => Block(splice.doc) /\ Keeps(doc, splice.doc)
  BY PutKeyFacts
<1>2. splice.refused = FALSE
  BY DEF PutKey, Reconstructed, SetVet, Spliced
<1>3. doc.dashes = FALSE
  BY DocumentFields
<1> HIDE DEF splice
<1>4. ~Rescue(doc) => ~Rescue(splice.doc)
  BY <1>1 DEF Block, Rescue, IsInline
<1>5. SafeSplice(doc, splice)
  BY <1>1, <1>2, <1>3, <1>4 DEF SafeSplice
<1> QED BY <1>5 DEF splice

\* An entry appended, as a splice.
LEMMA AppendedIsSafe ==
    ASSUME NEW doc, IsDocument(doc), ~doc.dashes, ~HasVet(doc), NEW entry \in VetKinds, entry.form = "block"
    PROVE  /\ SafeSplice(doc, Appended(doc, entry))
           /\ Block(Appended(doc, entry).doc)
           /\ \A key \in Keys : LineOf(Appended(doc, entry).doc, key) = entry[key]
<1> DEFINE splice == Appended(doc, entry)
<1>1. splice.refused = FALSE
  BY DEF Appended, Spliced
<1>2. /\ IsDocument(splice.doc) /\ VetStands(splice.doc, entry)
      /\ Others(splice.doc) = doc.entries /\ splice.doc.dashes = doc.dashes
  BY AppendedFacts
<1>3. doc.dashes = FALSE
  BY DocumentFields
<1> HIDE DEF splice
<1>4. Block(splice.doc) /\ \A key \in Keys : LineOf(splice.doc, key) = entry[key]
  BY <1>2 DEF Block, LineOf, VetStands
<1>5. Keeps(doc, splice.doc) /\ ~Rescue(splice.doc)
  BY <1>2, <1>4 DEF Keeps, Others, Block, Rescue, IsInline
<1>6. SafeSplice(doc, splice)
  BY <1>1, <1>2, <1>3, <1>5 DEF SafeSplice
<1> QED BY <1>4, <1>6 DEF splice

\* The tier's line.
LEMMA SpliceProfileFacts ==
    ASSUME NEW doc, IsDocument(doc), NEW tier \in Tiers
    PROVE  LET splice == SpliceProfile(doc, tier)
           IN  /\ SafeSplice(doc, splice)
               /\ ~doc.dashes /\ tier # "standard" /\ ~Rescue(doc) =>
                      Block(splice.doc) /\ LineOf(splice.doc, "profile") = tier
               /\ ~doc.dashes /\ tier = "standard" /\ ~IsInline(splice.doc) => LineOf(splice.doc, "profile") = "none"
<1> DEFINE splice == SpliceProfile(doc, tier)
           entry == VetEntry("block", tier, "none", FALSE)
<1>0. "profile" \in Keys /\ IsValue("profile", tier)
  BY DEF Keys, IsValue
<1>1. CASE doc.dashes
  BY <1>1, RefusedFacts DEF SpliceProfile
<1>2. CASE ~doc.dashes /\ ~HasVet(doc) /\ tier = "standard"
  <2>1. splice = Kept(doc)
    BY <1>2 DEF SpliceProfile
  <2>2. LineOf(doc, "profile") = "none"
    BY <1>2 DEF LineOf
  <2> QED BY <1>2, <2>1, <2>2, KeptFacts
<1>3. CASE ~doc.dashes /\ ~HasVet(doc) /\ tier # "standard"
  <2>1. splice = Appended(doc, entry)
    BY <1>3 DEF SpliceProfile
  <2>2. entry \in VetKinds /\ entry.form = "block" /\ entry.profile = tier
    BY DEF VetEntry, VetKinds
  <2> HIDE DEF entry
  <2>3. SafeSplice(doc, splice) /\ Block(splice.doc) /\ LineOf(splice.doc, "profile") = entry["profile"]
    BY <1>0, <1>3, <2>1, <2>2, AppendedIsSafe
  <2> QED BY <1>3, <2>2, <2>3
<1>4. CASE ~doc.dashes /\ HasVet(doc) /\ tier = "standard" /\ LineOf(doc, "profile") = "none"
  <2>1. splice = Kept(doc)
    BY <1>4 DEF SpliceProfile
  <2> QED BY <1>4, <2>1, KeptFacts
<1>5. CASE ~doc.dashes /\ HasVet(doc) /\ tier = "standard" /\ LineOf(doc, "profile") # "none"
  <2>1. splice = Dropped(doc, "profile")
    BY <1>5 DEF SpliceProfile
  <2>2. Block(doc)
    BY <1>5 DEF LineOf, Block
  <2>3. SafeSplice(doc, splice)
    BY <1>0, <1>5, <2>1, <2>2, DroppedIsSafe
  <2>4. LineOf(splice.doc, "profile") = "none"
    BY <1>0, <2>1, <2>2, DroppedFacts
  <2> QED BY <1>5, <2>3, <2>4
<1>6. CASE ~doc.dashes /\ HasVet(doc) /\ tier # "standard"
  <2>1. splice = PutKey(doc, "profile", tier)
    BY <1>6 DEF SpliceProfile
  <2>2. SafeSplice(doc, splice)
    BY <1>0, <1>6, <2>1, PutIsSafe
  <2>3. ~Rescue(doc) => Block(splice.doc) /\ LineOf(splice.doc, "profile") = tier
    BY <1>0, <1>6, <2>1, PutKeyFacts
  <2> QED BY <1>6, <2>2, <2>3
<1> QED BY <1>1, <1>2, <1>3, <1>4, <1>5, <1>6

\* The guard's line.
LEMMA SpliceGuardFacts ==
    ASSUME NEW doc, IsDocument(doc), NEW enable \in BOOLEAN
    PROVE  LET splice == SpliceRuntimeGuardText(doc, enable)
           IN  /\ SafeSplice(doc, splice)
               /\ ~doc.dashes /\ enable =>
                      /\ Block(splice.doc)
                      /\ LineOf(splice.doc, "guard") = "watch"
                      /\ Block(doc) => LineOf(splice.doc, "profile") = LineOf(doc, "profile")
               /\ ~doc.dashes /\ ~enable /\ ~IsInline(splice.doc) =>
                      /\ ~IsInline(doc)
                      /\ LineOf(splice.doc, "guard") = "none"
                      /\ LineOf(splice.doc, "profile") = LineOf(doc, "profile")
<1> DEFINE splice == SpliceRuntimeGuardText(doc, enable)
           entry == VetEntry("block", "hardened", "watch", FALSE)
<1>0. "guard" \in Keys /\ "profile" \in Keys \ {"guard"} /\ IsValue("guard", "watch")
  BY DEF Keys, IsValue
<1>1. CASE doc.dashes
  BY <1>1, RefusedFacts DEF SpliceRuntimeGuardText
<1>2. CASE ~doc.dashes /\ ~HasVet(doc) /\ ~enable
  <2>1. splice = Kept(doc)
    BY <1>2 DEF SpliceRuntimeGuardText
  <2>2. LineOf(doc, "guard") = "none"
    BY <1>2 DEF LineOf
  <2> QED BY <1>2, <2>1, <2>2, KeptFacts
<1>3. CASE ~doc.dashes /\ ~HasVet(doc) /\ enable
  <2>1. splice = Appended(doc, entry)
    BY <1>3 DEF SpliceRuntimeGuardText
  <2>2. entry \in VetKinds /\ entry.form = "block" /\ entry["guard"] = "watch"
    BY DEF VetEntry, VetKinds, Tiers
  <2> HIDE DEF entry
  <2>3. SafeSplice(doc, splice) /\ Block(splice.doc) /\ LineOf(splice.doc, "guard") = "watch"
    BY <1>0, <1>3, <2>1, <2>2, AppendedIsSafe
  <2>4. ~Block(doc)
    BY <1>3 DEF Block
  <2> QED BY <1>3, <2>3, <2>4
<1>4. CASE ~doc.dashes /\ HasVet(doc) /\ ~enable /\ LineOf(doc, "guard") = "none"
  <2>1. splice = Kept(doc)
    BY <1>4 DEF SpliceRuntimeGuardText
  <2> QED BY <1>4, <2>1, KeptFacts
<1>5. CASE ~doc.dashes /\ HasVet(doc) /\ ~enable /\ LineOf(doc, "guard") # "none"
  <2>1. splice = Dropped(doc, "guard")
    BY <1>5 DEF SpliceRuntimeGuardText
  <2>2. Block(doc) /\ ~IsInline(doc)
    BY <1>5 DEF LineOf, Block, IsInline
  <2>3. SafeSplice(doc, splice)
    BY <1>0, <1>5, <2>1, <2>2, DroppedIsSafe
  <2>4. LineOf(splice.doc, "guard") = "none" /\ LineOf(splice.doc, "profile") = LineOf(doc, "profile")
    BY <1>0, <2>1, <2>2, DroppedFacts
  <2> QED BY <1>5, <2>2, <2>3, <2>4
<1>6. CASE ~doc.dashes /\ HasVet(doc) /\ enable
  <2>1. splice = PutKey(doc, "guard", "watch")
    BY <1>6 DEF SpliceRuntimeGuardText
  <2>2. SafeSplice(doc, splice)
    BY <1>0, <1>6, <2>1, PutIsSafe
  <2>3. /\ Block(splice.doc) /\ LineOf(splice.doc, "guard") = "watch"
        /\ Block(doc) => \A other \in Keys \ {"guard"} : LineOf(splice.doc, other) = LineOf(doc, other)
    <3>1. /\ Block(PutKey(doc, "guard", "watch").doc)
          /\ LineOf(PutKey(doc, "guard", "watch").doc, "guard") = "watch"
          /\ Block(doc) => \A other \in Keys \ {"guard"} :
                LineOf(PutKey(doc, "guard", "watch").doc, other) = LineOf(doc, other)
      BY <1>0, <1>6, PutKeyFacts
    <3> QED BY <2>1, <3>1
  <2> QED BY <1>0, <1>6, <2>2, <2>3
<1> QED BY <1>1, <1>2, <1>3, <1>4, <1>5, <1>6

\* One splice after the other.
LEMMA SafeTwice ==
    ASSUME NEW doc, NEW first, NEW second, SafeSplice(doc, first), SafeSplice(first.doc, second)
    PROVE  /\ ~doc.dashes => ~first.doc.dashes
           /\ IsDocument(second.doc)
           /\ ~Rescue(doc) => Keeps(doc, second.doc)
BY KeepsTransitive DEF SafeSplice

\* What a splice hands on.
LEMMA SpliceProfileShape ==
    ASSUME NEW doc, NEW tier
    PROVE  DOMAIN SpliceProfile(doc, tier) = {"doc", "repaired", "refused"}
<1>1. DOMAIN Kept(doc) = {"doc", "repaired", "refused"}
  BY DEF Kept
<1>2. DOMAIN [Kept(doc) EXCEPT !.refused = TRUE] = {"doc", "repaired", "refused"}
  BY <1>1
<1>3. \A entries : DOMAIN Spliced(doc, entries) = {"doc", "repaired", "refused"}
  BY DEF Spliced
<1>4. DOMAIN Dropped(doc, "profile") = {"doc", "repaired", "refused"}
  BY <1>3 DEF Dropped, SetVet
<1>5. DOMAIN Reconstructed(doc, "profile", tier) = {"doc", "repaired", "refused"}
  BY <1>2 DEF Reconstructed
<1>6. DOMAIN PutKey(doc, "profile", tier) = {"doc", "repaired", "refused"}
  BY <1>3, <1>5 DEF PutKey, SetVet
<1>7. \A entry : DOMAIN Appended(doc, entry) = {"doc", "repaired", "refused"}
  BY <1>3 DEF Appended
<1> QED BY <1>1, <1>2, <1>4, <1>6, <1>7 DEF SpliceProfile

(***************************************************************************)
(* The two writers: what they plan is a document that keeps what it must,  *)
(* and from which the next start takes what is answered.                   *)
(***************************************************************************)

\* What the next start reads, from the lines.
LEMMA StartedOn ==
    ASSUME NEW doc, Block(doc), NEW tier \in Tiers, tier # "standard",
           LineOf(doc, "profile") = tier, LineOf(doc, "guard") = "watch"
    PROVE  Started(doc) = [profile |-> tier, guard |-> "watch"]
<1>1. HasVet(doc) /\ Vet(doc).form = "block" /\ Vet(doc).profile = tier /\ Vet(doc).guard = "watch"
  BY DEF Block, LineOf
<1>2. tier # "none"
  BY DEF Tiers
<1> QED BY <1>1, <1>2 DEF Started

LEMMA StartedOff ==
    ASSUME NEW doc, IsDocument(doc), ~IsInline(doc),
           LineOf(doc, "profile") = "none", LineOf(doc, "guard") = "none"
    PROVE  Started(doc) = [profile |-> "standard", guard |-> "off"]
<1>1. CASE ~HasVet(doc)
  BY <1>1 DEF Started
<1>2. CASE HasVet(doc) /\ Vet(doc).form = "bare"
  BY <1>2 DEF Started
<1>3. CASE HasVet(doc) /\ Vet(doc).form = "block"
  <2>1. Vet(doc).profile = "none" /\ Vet(doc).guard = "none"
    BY <1>3 DEF LineOf
  <2> QED BY <1>3, <2>1 DEF Started
<1>4. HasVet(doc) => Vet(doc).form \in {"bare", "block"}
  BY VetFacts DEF IsInline, VetKinds
<1> QED BY <1>1, <1>2, <1>3, <1>4

LEMMA StartedWatching ==
    ASSUME NEW doc, Block(doc), LineOf(doc, "guard") = "watch"
    PROVE  Started(doc).guard = "watch"
<1>1. HasVet(doc) /\ Vet(doc).form = "block" /\ Vet(doc).guard = "watch"
  BY DEF Block, LineOf
<1> QED BY <1>1 DEF Started

\* The guard goes with the tier that is answered; the tier itself is what a
\* rescue does not write.
StartsAs(doc, rescued, profile) ==
    /\ Started(doc).guard = GuardFor(profile)
    /\ ~rescued => Started(doc).profile = profile

SoundPlan(doc, planned) ==
    /\ IsDocument(planned.plan.doc) /\ planned.profile \in Tiers
    /\ ~Rescue(doc) => Keeps(doc, planned.plan.doc)
    /\ ~planned.plan.refused /\ ~IsInline(planned.plan.doc) => StartsAs(planned.plan.doc, Rescue(doc), planned.profile)

\* The tier and the guard are written together.
LEMMA TieredIsSound ==
    ASSUME NEW doc, IsDocument(doc), NEW tier \in Tiers
    PROVE  SoundPlan(doc, Tiered(doc, tier))
<1> DEFINE base == [doc EXCEPT !.written = TRUE]
           first == SpliceProfile(base, tier)
           enable == tier # "standard"
           second == SpliceRuntimeGuardText(first.doc, enable)
           planned == Tiered(doc, tier)
<1>1. /\ IsDocument(base) /\ base.entries = doc.entries /\ base.dashes = doc.dashes /\ base.broken = doc.broken
  <2>1. /\ base \in [written : BOOLEAN, dashes : BOOLEAN, broken : BOOLEAN, entries : Seq(Entries)]
        /\ base.entries = doc.entries /\ base.dashes = doc.dashes /\ base.broken = doc.broken
    BY DEF IsDocument
  <2> HIDE DEF base
  <2> QED BY <2>1 DEF IsDocument, VetEntries
<1> HIDE DEF base
<1>2. (Rescue(base) <=> Rescue(doc)) /\ Keeps(doc, base)
  BY <1>1 DEF Rescue, IsInline, HasVet, Vet, VetAt, VetEntries, Unparsable, Keeps, Others
<1>3. /\ SafeSplice(base, first)
      /\ ~base.dashes /\ tier # "standard" /\ ~Rescue(base) =>
             Block(first.doc) /\ LineOf(first.doc, "profile") = tier
      /\ ~base.dashes /\ tier = "standard" /\ ~IsInline(first.doc) => LineOf(first.doc, "profile") = "none"
  BY <1>1, SpliceProfileFacts
<1>4. DOMAIN first = {"doc", "repaired", "refused"}
  BY SpliceProfileShape
<1>5. planned.plan = [first EXCEPT !.doc = second.doc] /\ planned.profile = tier
  BY DEF Tiered, base
<1> HIDE DEF first
<1>6. enable \in BOOLEAN /\ IsDocument(first.doc)
  BY <1>3 DEF SafeSplice
<1>7. /\ SafeSplice(first.doc, second)
      /\ ~first.doc.dashes /\ enable =>
             /\ Block(second.doc)
             /\ LineOf(second.doc, "guard") = "watch"
             /\ Block(first.doc) => LineOf(second.doc, "profile") = LineOf(first.doc, "profile")
      /\ ~first.doc.dashes /\ ~enable /\ ~IsInline(second.doc) =>
             /\ ~IsInline(first.doc)
             /\ LineOf(second.doc, "guard") = "none"
             /\ LineOf(second.doc, "profile") = LineOf(first.doc, "profile")
  BY <1>6, SpliceGuardFacts
<1> HIDE DEF second
<1>8. planned.plan.doc = second.doc /\ planned.plan.refused = first.refused
  BY <1>4, <1>5
<1>9. first.refused = base.dashes
  BY <1>3 DEF SafeSplice
<1> HIDE DEF planned
<1>10. /\ ~base.dashes => ~first.doc.dashes
       /\ IsDocument(second.doc) /\ (~Rescue(base) => Keeps(base, second.doc))
  BY <1>3, <1>7, SafeTwice
<1>11. ~Rescue(doc) => Keeps(doc, planned.plan.doc)
  BY <1>2, <1>8, <1>10, KeepsTransitive
<1>12. ASSUME ~planned.plan.refused, ~IsInline(planned.plan.doc)
       PROVE  StartsAs(planned.plan.doc, Rescue(doc), planned.profile)
  <2>1. ~base.dashes /\ ~first.doc.dashes /\ ~IsInline(second.doc)
    BY <1>8, <1>9, <1>10, <1>12
  <2>2. CASE tier = "standard"
    <3>1. LineOf(second.doc, "guard") = "none" /\ LineOf(second.doc, "profile") = "none"
      BY <1>3, <1>7, <2>1, <2>2
    <3>2. Started(second.doc) = [profile |-> "standard", guard |-> "off"]
      BY <1>10, <2>1, <3>1, StartedOff
    <3>3. GuardFor(tier) = "off"
      BY <2>2 DEF GuardFor
    <3> QED BY <1>5, <1>8, <2>2, <3>2, <3>3 DEF StartsAs
  <2>3. CASE tier # "standard"
    <3>1. /\ Block(second.doc) /\ LineOf(second.doc, "guard") = "watch"
          /\ ~Rescue(doc) => LineOf(second.doc, "profile") = tier
      BY <1>2, <1>3, <1>7, <2>1, <2>3
    <3>2. Started(second.doc).guard = "watch" /\ (~Rescue(doc) => Started(second.doc).profile = tier)
      BY <2>3, <3>1, StartedOn, StartedWatching
    <3>3. GuardFor(tier) = "watch"
      BY <2>3 DEF GuardFor
    <3> QED BY <1>5, <1>8, <3>2, <3>3 DEF StartsAs
  <2> QED BY <2>2, <2>3
<1>13. SoundPlan(doc, planned)
  BY <1>5, <1>8, <1>10, <1>11, <1>12 DEF SoundPlan
<1> QED BY <1>13 DEF planned

\* The switch lifts a standard tier, keeps a higher one, and takes both off.
LEMMA SwitchedIsSound ==
    ASSUME NEW doc, IsDocument(doc), NEW enable \in BOOLEAN
    PROVE  SoundPlan(doc, Switched(doc, enable))
<1> DEFINE lift == enable /\ ReadProfileInPatch(doc) \in {"none", "standard"}
           first == IF ~enable THEN SpliceProfile(doc, "standard")
                    ELSE IF lift THEN SpliceProfile(doc, "hardened") ELSE Kept(doc)
           second == SpliceRuntimeGuardText(first.doc, enable)
           planned == Switched(doc, enable)
           profile == IF ~enable THEN "standard" ELSE IF lift THEN "hardened" ELSE ReadProfileInPatch(doc)
<1>1. planned.plan.doc = second.doc /\ planned.plan.refused = (first.refused \/ second.refused) /\ planned.profile = profile
  BY DEF Switched, Both
<1>2. ReadProfileInPatch(doc) = LineOf(doc, "profile") /\ LineOf(doc, "profile") \in Tiers \cup {"none"}
  <2>1. CASE Block(doc)
    <3>1. Vet(doc) \in VetKinds /\ LineOf(doc, "profile") = Vet(doc).profile
      BY <2>1, VetFacts DEF Block, LineOf
    <3> QED BY <3>1 DEF ReadProfileInPatch, VetKinds
  <2>2. CASE ~Block(doc)
    BY <2>2 DEF Block, LineOf, ReadProfileInPatch
  <2> QED BY <2>1, <2>2
<1>3. "standard" \in Tiers /\ "hardened" \in Tiers
  BY DEF Tiers
<1>4. profile \in Tiers /\ (enable => profile # "standard") /\ (~enable => profile = "standard")
  BY <1>2, <1>3
<1>5. \/ doc.dashes /\ first = Kept(doc)
      \/ /\ SafeSplice(doc, first)
         /\ ~doc.dashes /\ enable /\ ~Rescue(doc) => Block(first.doc) /\ LineOf(first.doc, "profile") = profile
         /\ ~doc.dashes /\ ~enable /\ ~IsInline(first.doc) => LineOf(first.doc, "profile") = "none"
  <2>1. CASE ~enable
    <3>1. first = SpliceProfile(doc, "standard")
      BY <2>1
    <3> DEFINE standard == SpliceProfile(doc, "standard")
    <3>2. /\ SafeSplice(doc, standard)
          /\ ~doc.dashes /\ ~IsInline(standard.doc) => LineOf(standard.doc, "profile") = "none"
      BY <1>3, SpliceProfileFacts
    <3> HIDE DEF first, standard
    <3>3. first = standard
      BY <3>1 DEF standard
    <3> QED BY <2>1, <3>2, <3>3
  <2>2. CASE lift
    <3>1. first = SpliceProfile(doc, "hardened") /\ profile = "hardened" /\ enable
      BY <2>2
    <3> DEFINE hardened == SpliceProfile(doc, "hardened")
    <3>2. /\ SafeSplice(doc, hardened)
          /\ ~doc.dashes /\ ~Rescue(doc) =>
                 Block(hardened.doc) /\ LineOf(hardened.doc, "profile") = "hardened"
      BY <1>3, SpliceProfileFacts
    <3> HIDE DEF first, profile, lift, hardened
    <3>3. first = hardened
      BY <3>1 DEF hardened
    <3> QED BY <3>1, <3>2, <3>3
  <2>3. CASE enable /\ ~lift
    <3>1. first = Kept(doc) /\ profile = LineOf(doc, "profile")
      BY <1>2, <2>3
    <3>2. LineOf(doc, "profile") # "none"
      BY <1>2, <2>3
    <3>3. Block(doc)
      BY <3>2 DEF LineOf, Block
    <3> HIDE DEF first, profile, lift
    <3>4. first.doc = doc
      BY <3>1 DEF Kept
    <3>5. CASE doc.dashes
      BY <3>1, <3>5
    <3>6. CASE ~doc.dashes
      BY <2>3, <3>1, <3>3, <3>4, <3>6, KeptFacts
    <3> QED BY <3>5, <3>6
  <2> QED BY <2>1, <2>2, <2>3
<1> HIDE DEF first, profile, lift
<1>6. IsDocument(first.doc)
  BY <1>5 DEF SafeSplice, Kept
<1>7. /\ SafeSplice(first.doc, second)
      /\ ~first.doc.dashes /\ enable =>
             /\ Block(second.doc)
             /\ LineOf(second.doc, "guard") = "watch"
             /\ Block(first.doc) => LineOf(second.doc, "profile") = LineOf(first.doc, "profile")
      /\ ~first.doc.dashes /\ ~enable /\ ~IsInline(second.doc) =>
             /\ ~IsInline(first.doc)
             /\ LineOf(second.doc, "guard") = "none"
             /\ LineOf(second.doc, "profile") = LineOf(first.doc, "profile")
  BY <1>6, SpliceGuardFacts
<1> HIDE DEF second, planned
<1>8. CASE doc.dashes /\ first = Kept(doc)
  <2>1. first.doc = doc
    BY <1>8 DEF Kept
  <2>2. SafeSplice(doc, second)
    BY <1>7, <2>1
  <2>3. second.refused
    BY <1>8, <2>2 DEF SafeSplice
  <2> QED BY <1>1, <1>4, <2>2, <2>3 DEF SoundPlan, SafeSplice, planned
<1>9. CASE /\ SafeSplice(doc, first)
           /\ ~doc.dashes /\ enable /\ ~Rescue(doc) => Block(first.doc) /\ LineOf(first.doc, "profile") = profile
           /\ ~doc.dashes /\ ~enable /\ ~IsInline(first.doc) => LineOf(first.doc, "profile") = "none"
  <2>1. /\ ~doc.dashes => ~first.doc.dashes
        /\ IsDocument(second.doc) /\ (~Rescue(doc) => Keeps(doc, second.doc))
    BY <1>7, <1>9, SafeTwice
  <2>2. ASSUME ~planned.plan.refused, ~IsInline(planned.plan.doc)
        PROVE  StartsAs(planned.plan.doc, Rescue(doc), planned.profile)
    <3>1. ~IsInline(second.doc)
      BY <1>1, <2>2
    <3>2. ~first.refused
      BY <1>1, <2>2
    <3>3. ~doc.dashes /\ ~first.doc.dashes
      BY <1>9, <2>1, <3>2 DEF SafeSplice
    <3>4. CASE ~enable
      <4>1. LineOf(second.doc, "guard") = "none" /\ LineOf(second.doc, "profile") = "none"
        BY <1>7, <1>9, <3>1, <3>3, <3>4
      <4>2. Started(second.doc) = [profile |-> "standard", guard |-> "off"]
        BY <2>1, <3>1, <4>1, StartedOff
      <4>3. profile = "standard" /\ GuardFor(profile) = "off"
        BY <1>4, <3>4 DEF GuardFor
      <4> QED BY <1>1, <4>2, <4>3 DEF StartsAs
    <3>5. CASE enable
      <4>1. /\ Block(second.doc) /\ LineOf(second.doc, "guard") = "watch"
            /\ ~Rescue(doc) => LineOf(second.doc, "profile") = profile
        BY <1>7, <1>9, <3>3, <3>5
      <4>2. Started(second.doc).guard = "watch" /\ (~Rescue(doc) => Started(second.doc).profile = profile)
        BY <1>4, <3>5, <4>1, StartedOn, StartedWatching
      <4>3. GuardFor(profile) = "watch"
        BY <1>4, <3>5 DEF GuardFor
      <4> QED BY <1>1, <4>2, <4>3 DEF StartsAs
    <3> QED BY <3>4, <3>5
  <2>3. SoundPlan(doc, planned)
    BY <1>1, <1>4, <2>1, <2>2 DEF SoundPlan
  <2> QED BY <2>3 DEF planned
<1> QED BY <1>5, <1>8, <1>9

(***************************************************************************)
(* The switch.  Beside OffMeansOff its invariant says that the file, its   *)
(* backup and a write under way are documents, that the write keeps what   *)
(* it must of what it read, and that what it is about to answer is what    *)
(* the next start will take from the file it is about to leave (but for    *)
(* the tier, if it had to rescue a document).                              *)
(***************************************************************************)

Guards == {"off", "watch"}
Hosts == [up : BOOLEAN, route : BOOLEAN, profile : Tiers, guard : Guards]

SoundPost(post) ==
    post.sound => post.what = "toggle" \/ (post.what = "tier" /\ post.arg \in Tiers)

SoundWrite ==
    Underway =>
        /\ IsDocument(writing.doc) /\ writing.profile \in Tiers
        /\ ~Rescue(writing.base) => Keeps(writing.base, writing.doc)
        /\ ~IsInline(writing.doc) => StartsAs(writing.doc, Rescue(writing.base), writing.profile)

Installed == host \in Hosts /\ engine \in Guards /\ OffMeansOff

SwitchInv ==
    /\ IsDocument(disk) /\ IsDocument(backup)
    /\ Installed
    /\ SoundWrite
    /\ \A post \in posts : SoundPost(post)
    /\ \A a \in answers : a.profile \in Tiers \cup {"none"}

\* The two action properties of the switch, of one step.
OthersStep ==
    disk' # disk /\ Underway /\ writing' = NoWrite /\ ~Rescue(writing.base) =>
        /\ Others(disk') = Others(writing.base)
        /\ HasVet(writing.base) /\ Vet(writing.base).more => HasVet(disk') /\ Vet(disk').more

AnswerStep ==
    \A a \in answers' \ answers : a.ok /\ a.read /\ ~IsInline(disk') =>
        /\ Started(disk').guard = GuardFor(a.profile)
        /\ ~(Underway /\ Rescue(writing.base)) => Started(disk').profile = a.profile

\* What the start of the plugin takes from a document.
LEMMA StartedType ==
    ASSUME NEW doc, IsDocument(doc)
    PROVE  Started(doc).profile \in Tiers /\ Started(doc).guard \in Guards
<1>1. HasVet(doc) => Vet(doc).profile \in Tiers \cup {"none"}
  BY VetFacts DEF VetKinds
<1>2. "standard" \in Tiers
  BY DEF Tiers
<1> DEFINE profile == IF (HasVet(doc) /\ Vet(doc).form # "bare") /\ Vet(doc).profile # "none"
                      THEN Vet(doc).profile ELSE "standard"
           guard == IF (HasVet(doc) /\ Vet(doc).form # "bare") /\ Vet(doc).guard = "watch" THEN "watch" ELSE "off"
           preset == profile # "standard" /\ "guard" \notin ReadPatchVetKeys(doc)
<1>3. profile \in Tiers
  BY <1>1, <1>2
<1>4. guard \in Guards /\ "watch" \in Guards
  BY DEF Guards
<1>5. Started(doc) = [profile |-> profile, guard |-> IF preset THEN "watch" ELSE guard]
  BY DEF Started
<1> HIDE DEF profile, guard, preset
<1> QED BY <1>3, <1>4, <1>5

LEMMA GuardForType ==
    ASSUME NEW profile
    PROVE  GuardFor(profile) \in Guards
BY DEF GuardFor, Guards

\* What takes effect is what is installed, or nothing is.
LEMMA EffectIsInstalled ==
    ASSUME Installed, NEW guard \in Guards, TakesEffect(guard)
    PROVE  Installed'
<1>1. host \in Hosts /\ engine \in Guards /\ OffMeansOff
  BY DEF Installed
<1>2. CASE host' = [host EXCEPT !.guard = guard] /\ engine' = guard
  <2>1. host' \in Hosts /\ host'.guard = guard
    BY <1>1, <1>2 DEF Hosts
  <2> QED BY <1>2, <2>1 DEF Installed, OffMeansOff
<1>3. CASE engine' = "off" /\ host' = host
  BY <1>1, <1>3 DEF Installed, OffMeansOff, Guards
<1> QED BY <1>2, <1>3 DEF TakesEffect

\* A guard taken down with its host.
LEMMA DownIsInstalled ==
    ASSUME host' = Down, engine' = "off"
    PROVE  Installed'
BY DEF Installed, OffMeansOff, Down, Hosts, Guards, Tiers

\* What one request plans is sound.
LEMMA PlannedIsSound ==
    ASSUME SwitchInv, NEW post \in posts, post.sound
    PROVE  SoundPlan(disk, Planned(post))
<1>1. IsDocument(disk) /\ SoundPost(post)
  BY DEF SwitchInv
<1>2. CASE post.what = "toggle"
  <2>1. Planned(post) = Switched(disk, post.arg = "on") /\ (post.arg = "on") \in BOOLEAN
    BY <1>2 DEF Planned
  <2> QED BY <1>1, <2>1, SwitchedIsSound
<1>3. CASE post.what = "tier" /\ post.arg \in Tiers
  <2>1. Planned(post) = Tiered(disk, post.arg)
    BY <1>3 DEF Planned
  <2> QED BY <1>1, <1>3, <2>1, TieredIsSound
<1> QED BY <1>1, <1>2, <1>3 DEF SoundPost

\* An answer that is no promise changes neither file nor guard.
LEMMA RefusalStep ==
    ASSUME SwitchInv, NEW post, NEW answer, Reply(post, answer), answer.profile \in Tiers \cup {"none"},
           ~(answer.ok /\ answer.read),
           UNCHANGED <<disk, backup, writing>>, Installed'
    PROVE  SwitchInv' /\ OthersStep /\ AnswerStep
<1>1. posts' = posts \ {post} /\ answers' = answers \cup {answer}
  BY DEF Reply
<1>2. SoundWrite'
  BY DEF SwitchInv, SoundWrite, Underway
<1>3. SwitchInv'
  BY <1>1, <1>2 DEF SwitchInv
<1> QED BY <1>1, <1>3 DEF OthersStep, AnswerStep

LEMMA RefuseStep ==
    ASSUME SwitchInv, NEW post \in posts,
           Refuse(post) \/ Declined(post) \/ Invalid(post)
    PROVE  SwitchInv' /\ OthersStep /\ AnswerStep
<1> DEFINE answer == Answer(post, FALSE, "none")
<1>1. Reply(post, answer) /\ UNCHANGED <<disk, backup, host, engine, writing>>
  BY DEF Refuse, Declined, Invalid
<1>2. answer.profile \in Tiers \cup {"none"} /\ ~(answer.ok /\ answer.read)
  BY DEF Answer
<1>3. Installed'
  BY <1>1 DEF SwitchInv, Installed, OffMeansOff
<1> HIDE DEF answer
<1> QED BY <1>1, <1>2, <1>3, RefusalStep

LEMMA UnreadStep ==
    ASSUME SwitchInv, NEW post \in posts, Unread(post)
    PROVE  SwitchInv' /\ OthersStep /\ AnswerStep
<1>0. UNCHANGED <<disk, backup, writing>>
  BY DEF Unread
<1>1. CASE /\ Reply(post, [Answer(post, TRUE, "standard") EXCEPT !.read = FALSE])
           /\ host' = [host EXCEPT !.guard = "off"] /\ engine' = "off"
  <2> DEFINE answer == [Answer(post, TRUE, "standard") EXCEPT !.read = FALSE]
  <2>1. answer.profile \in Tiers \cup {"none"} /\ ~(answer.ok /\ answer.read)
    BY DEF Answer, Tiers
  <2>2. Installed'
    BY <1>1 DEF SwitchInv, Installed, OffMeansOff, Hosts, Guards
  <2> HIDE DEF answer
  <2>3. Reply(post, answer)
    BY <1>1 DEF answer
  <2> QED BY <1>0, <2>1, <2>2, <2>3, RefusalStep
<1>2. CASE Reply(post, Answer(post, FALSE, "none")) /\ UNCHANGED <<host, engine>>
  <2> DEFINE answer == Answer(post, FALSE, "none")
  <2>1. answer.profile \in Tiers \cup {"none"} /\ ~(answer.ok /\ answer.read)
    BY DEF Answer
  <2>2. Installed'
    BY <1>2 DEF SwitchInv, Installed, OffMeansOff
  <2> HIDE DEF answer
  <2>3. Reply(post, answer)
    BY <1>2 DEF answer
  <2> QED BY <1>0, <2>1, <2>2, <2>3, RefusalStep
<1> QED BY <1>1, <1>2 DEF Unread

\* The file already says what was asked for.
LEMMA AlreadyStep ==
    ASSUME SwitchInv, NEW post \in posts, Already(post)
    PROVE  SwitchInv' /\ OthersStep /\ AnswerStep
<1> DEFINE planned == Planned(post)
           answer == Answer(post, TRUE, planned.profile)
<1>1. /\ post.sound /\ ~planned.plan.refused /\ planned.plan.doc = ReadBy(post)
      /\ Reply(post, answer) /\ TakesEffect(GuardFor(planned.profile))
      /\ UNCHANGED <<disk, backup, writing>>
  BY DEF Already, Nothing
<1>2. SoundPlan(disk, planned)
  BY <1>1, PlannedIsSound
<1> HIDE DEF planned
<1>3. answer.profile = planned.profile /\ planned.profile \in Tiers
  BY <1>2 DEF Answer, SoundPlan
<1> HIDE DEF answer
<1>4. Installed'
  BY <1>1, GuardForType, EffectIsInstalled DEF SwitchInv
<1>5. posts' = posts \ {post} /\ answers' = answers \cup {answer}
  BY <1>1 DEF Reply
<1>6. SoundWrite'
  BY <1>1 DEF SwitchInv, SoundWrite, Underway
<1>7. SwitchInv'
  BY <1>1, <1>3, <1>4, <1>5, <1>6 DEF SwitchInv
<1>8. ReadBy(post).entries = disk.entries
  BY DEF ReadBy, SwitchInv, IsDocument
<1>9. (IsInline(ReadBy(post)) <=> IsInline(disk)) /\ Started(ReadBy(post)) = Started(disk)
  BY <1>8 DEF IsInline, HasVet, Vet, VetAt, VetEntries, Started, ReadPatchVetKeys, LineOf
<1>10. ~IsInline(disk) => StartsAs(disk, FALSE, answer.profile)
  BY <1>1, <1>2, <1>3, <1>9 DEF SoundPlan, StartsAs, Rescue
<1>11. AnswerStep
  BY <1>1, <1>5, <1>10 DEF AnswerStep, StartsAs
<1> QED BY <1>1, <1>7, <1>11 DEF OthersStep

\* A write begins.
LEMMA BeginStep ==
    ASSUME SwitchInv, NEW post \in posts, Begin(post)
    PROVE  SwitchInv' /\ OthersStep /\ AnswerStep
<1> DEFINE planned == Planned(post)
<1>1. /\ post.sound /\ ~planned.plan.refused
      /\ writing' = [under |-> "way", post |-> post, base |-> disk,
                      doc |-> planned.plan.doc, profile |-> planned.profile]
      /\ UNCHANGED <<disk, host, engine, posts, answers>>
      /\ backup' \in {disk, backup}
  BY DEF Begin
<1>2. SoundPlan(disk, planned)
  BY <1>1, PlannedIsSound
<1> HIDE DEF planned
<1>3. /\ writing'.base = disk /\ writing'.doc = planned.plan.doc /\ writing'.profile = planned.profile
  BY <1>1
<1>4. SoundWrite'
  BY <1>1, <1>2, <1>3 DEF SoundWrite, SoundPlan
<1>5. Installed'
  BY <1>1 DEF SwitchInv, Installed, OffMeansOff
<1>6. IsDocument(disk)' /\ IsDocument(backup)'
  BY <1>1 DEF SwitchInv
<1>7. SwitchInv'
  BY <1>1, <1>4, <1>5, <1>6 DEF SwitchInv
<1> QED BY <1>1, <1>7 DEF OthersStep, AnswerStep

\* The rename.
LEMMA CommitStep ==
    ASSUME SwitchInv, Commit
    PROVE  SwitchInv' /\ OthersStep /\ AnswerStep
<1> DEFINE answer == Answer(writing.post, TRUE, writing.profile)
<1>1. /\ Underway /\ disk' = writing.doc /\ TakesEffect(GuardFor(writing.profile))
      /\ posts' = posts \ {writing.post} /\ answers' = answers \cup {answer}
      /\ writing' = NoWrite /\ backup' = backup
  BY DEF Commit, Reply
<1>2. /\ IsDocument(writing.doc) /\ writing.profile \in Tiers
      /\ ~Rescue(writing.base) => Keeps(writing.base, writing.doc)
      /\ ~IsInline(writing.doc) => StartsAs(writing.doc, Rescue(writing.base), writing.profile)
  BY <1>1 DEF SwitchInv, SoundWrite
<1>3. answer.profile = writing.profile
  BY DEF Answer
<1> HIDE DEF answer
<1>4. Installed'
  BY <1>1, GuardForType, EffectIsInstalled DEF SwitchInv
<1>5. SoundWrite'
  BY <1>1 DEF SoundWrite, Underway, NoWrite
<1>6. IsDocument(disk)' /\ IsDocument(backup)'
  BY <1>1, <1>2 DEF SwitchInv
<1>7. SwitchInv'
  BY <1>1, <1>2, <1>3, <1>4, <1>5, <1>6 DEF SwitchInv
<1>8. OthersStep
  BY <1>1, <1>2 DEF OthersStep, Keeps
<1>9. AnswerStep
  BY <1>1, <1>2, <1>3 DEF AnswerStep, StartsAs
<1> QED BY <1>7, <1>8, <1>9

LEMMA WriteFailsStep ==
    ASSUME SwitchInv, WriteFails
    PROVE  SwitchInv' /\ OthersStep /\ AnswerStep
<1> DEFINE answer == Answer(writing.post, FALSE, "none")
<1>1. /\ posts' = posts \ {writing.post} /\ answers' = answers \cup {answer}
      /\ writing' = NoWrite /\ UNCHANGED <<disk, backup, host, engine>>
  BY DEF WriteFails, Reply
<1>2. answer.profile = "none" /\ ~answer.ok
  BY DEF Answer
<1> HIDE DEF answer
<1>3. Installed'
  BY <1>1 DEF SwitchInv, Installed, OffMeansOff
<1>4. SoundWrite'
  BY <1>1 DEF SoundWrite, Underway, NoWrite
<1>5. SwitchInv'
  BY <1>1, <1>2, <1>3, <1>4 DEF SwitchInv
<1> QED BY <1>1, <1>2, <1>5 DEF OthersStep, AnswerStep

\* The plugin starts.
LEMMA ApplyStep ==
    ASSUME SwitchInv, Apply
    PROVE  SwitchInv' /\ OthersStep /\ AnswerStep
<1>1. /\ host' = [up |-> TRUE, route |-> FALSE, profile |-> Started(disk).profile, guard |-> Started(disk).guard]
      /\ engine' = Started(disk).guard
      /\ UNCHANGED <<disk, backup, writing, posts, answers>>
  BY DEF Apply
<1>2. Started(disk).profile \in Tiers /\ Started(disk).guard \in Guards
  BY StartedType DEF SwitchInv
<1>3. Installed'
  BY <1>1, <1>2 DEF Installed, OffMeansOff, Hosts
<1>4. SoundWrite'
  BY <1>1 DEF SwitchInv, SoundWrite, Underway
<1>5. SwitchInv'
  BY <1>1, <1>3, <1>4 DEF SwitchInv
<1> QED BY <1>1, <1>5 DEF OthersStep, AnswerStep

\* Its route is there, it is disposed of, or the process ends.
LEMMA HostStep ==
    ASSUME SwitchInv, RegisterRoute \/ Dispose \/ Crash
    PROVE  SwitchInv' /\ OthersStep /\ AnswerStep
<1>1. UNCHANGED <<disk, backup, posts, answers>>
  BY DEF RegisterRoute, Dispose, Crash
<1>2. writing' = writing \/ writing' = NoWrite
  BY DEF RegisterRoute, Dispose, Crash
<1>3. SoundWrite'
  BY <1>2 DEF SwitchInv, SoundWrite, Underway, NoWrite
<1>4. Installed'
  <2>1. CASE RegisterRoute
    BY <2>1 DEF RegisterRoute, SwitchInv, Installed, OffMeansOff, Hosts
  <2>2. CASE Dispose \/ Crash
    BY <2>2, DownIsInstalled DEF Dispose, Crash
  <2> QED BY <2>1, <2>2
<1>5. SwitchInv'
  BY <1>1, <1>3, <1>4 DEF SwitchInv
<1> QED BY <1>1, <1>5 DEF OthersStep, AnswerStep

\* The user saves the file.
LEMMA SaveStep ==
    ASSUME SwitchInv, Save
    PROVE  SwitchInv' /\ OthersStep /\ AnswerStep
<1>1. disk' \in Documents /\ UNCHANGED <<backup, host, engine, writing, posts, answers>>
  BY DEF Save
<1>2. IsDocument(disk)' /\ IsDocument(backup)'
  BY <1>1, WorldsAssumption DEF SwitchInv
<1>3. Installed'
  BY <1>1 DEF SwitchInv, Installed, OffMeansOff
<1>4. SoundWrite'
  BY <1>1 DEF SwitchInv, SoundWrite, Underway
<1>5. SwitchInv'
  BY <1>1, <1>2, <1>3, <1>4 DEF SwitchInv
<1>6. Underway => writing' # NoWrite
  BY <1>1 DEF Underway, NoWrite
<1> QED BY <1>1, <1>5, <1>6 DEF OthersStep, AnswerStep

LEMMA SwitchNextStep ==
    ASSUME SwitchInv, SwitchNext
    PROVE  SwitchInv' /\ OthersStep /\ AnswerStep
<1>1. CASE Apply
  BY <1>1, ApplyStep
<1>2. CASE RegisterRoute \/ Dispose \/ Crash
  BY <1>2, HostStep
<1>3. ASSUME NEW post \in posts,
             Refuse(post) \/ Unread(post) \/ Declined(post) \/ Already(post) \/ Invalid(post) \/ Begin(post)
      PROVE  SwitchInv' /\ OthersStep /\ AnswerStep
  BY <1>3, RefuseStep, UnreadStep, AlreadyStep, BeginStep
<1>4. CASE Commit
  BY <1>4, CommitStep
<1>5. CASE WriteFails
  BY <1>5, WriteFailsStep
<1>6. CASE Save
  BY <1>6, SaveStep
<1> QED BY <1>1, <1>2, <1>3, <1>4, <1>5, <1>6 DEF SwitchNext

\* The page posts and is told, and nothing else of the switch moves.
LEMMA SwitchElsewhere ==
    ASSUME SwitchInv, UNCHANGED <<disk, backup, host, engine, writing>>,
           answers' \subseteq answers, \A post \in posts' \ posts : SoundPost(post)
    PROVE  SwitchInv' /\ OthersStep /\ AnswerStep
<1>1. Installed'
  BY DEF SwitchInv, Installed, OffMeansOff
<1>2. SoundWrite'
  BY DEF SwitchInv, SoundWrite, Underway
<1>3. SwitchInv'
  BY <1>1, <1>2 DEF SwitchInv
<1> QED BY <1>3 DEF OthersStep, AnswerStep

(***************************************************************************)
(* The question for updates.  As long as nothing excused it, the marks of  *)
(* the last answer, in memory and on disk, are not older than the last     *)
(* question, and none lies in the future.                                  *)
(***************************************************************************)

IsMark(p) == DOMAIN p = {"checkedAt", "version", "tested"} /\ p.checkedAt \in Int
Recent(p) == lastAsk <= p.checkedAt /\ p.checkedAt <= clock

UpdateInv ==
    /\ clock \in Int /\ lastAsk \in Int
    /\ inflight \in BOOLEAN /\ excused \in BOOLEAN
    /\ IsMark(persisted) /\ IsMark(saved)
    /\ ~excused => lastAsk <= clock
    /\ ~excused /\ ~inflight => Recent(saved) /\ (persisted # Unloaded => Recent(persisted))

AskStep ==
    ~inflight /\ inflight' =>
        \/ clock >= lastAsk + CheckInterval
        \/ excused \/ (persisted = Unloaded /\ persisted' # saved)

LEMMA EmptyMarks ==
    /\ IsMark(Empty) /\ IsMark(Unloaded)
    /\ Empty.checkedAt = 0 /\ Unloaded.checkedAt = -1
BY DEF IsMark, Empty, Unloaded

LEMMA MaybeCheckStep ==
    ASSUME UpdateInv, MaybeCheckForUpdate, UNCHANGED <<clock, published, saved>>
    PROVE  UpdateInv' /\ AskStep
<1>0. CheckInterval \in Nat
  BY ClockAssumption
<1>1. PICK p \in Loaded :
        /\ persisted' = p
        /\ IF Due(p) /\ ~inflight
           THEN inflight' = TRUE /\ lastAsk' = clock /\ excused' = FALSE
           ELSE /\ excused' = (excused \/ (p # persisted /\ p # saved))
                /\ UNCHANGED <<inflight, lastAsk>>
  BY DEF MaybeCheckForUpdate
<1>2. /\ persisted # Unloaded => p = persisted
      /\ persisted = Unloaded => p \in {saved, Empty}
  BY <1>1 DEF Loaded
<1>3. IsMark(p)
  BY <1>2, EmptyMarks DEF UpdateInv
<1>4. CASE Due(p) /\ ~inflight
  <2>1. inflight' = TRUE /\ lastAsk' = clock /\ excused' = FALSE
    BY <1>1, <1>4
  <2>2. UpdateInv'
    <3>1. IsMark(persisted)' /\ IsMark(saved)'
      BY <1>1, <1>3 DEF UpdateInv, IsMark
    <3>2. clock' \in Int /\ lastAsk' \in Int /\ lastAsk' <= clock'
      BY <2>1 DEF UpdateInv
    <3> QED BY <2>1, <3>1, <3>2 DEF UpdateInv
  <2>3. AskStep
    <3>1. SUFFICES ASSUME ~excused, ~(persisted = Unloaded /\ persisted' # saved)
                   PROVE  clock >= lastAsk + CheckInterval
      BY DEF AskStep
    <3>2. Recent(p)
      BY <1>1, <1>2, <1>4, <3>1 DEF UpdateInv
    <3>3. p.checkedAt \in Int /\ clock \in Int /\ lastAsk \in Int
      BY <1>3 DEF IsMark, UpdateInv
    <3> QED BY <1>0, <1>4, <3>2, <3>3 DEF Recent, Due
  <2> QED BY <2>2, <2>3
<1>5. CASE ~(Due(p) /\ ~inflight)
  <2>1. excused' = (excused \/ (p # persisted /\ p # saved)) /\ UNCHANGED <<inflight, lastAsk>>
    BY <1>1, <1>5
  <2>2. ~excused' => ~excused /\ (p = persisted \/ p = saved)
    BY <2>1
  <2>3. ~excused' /\ ~inflight' => Recent(saved)' /\ (persisted' # Unloaded => Recent(persisted)')
    BY <1>1, <1>2, <2>1, <2>2 DEF UpdateInv, Recent
  <2>4. UpdateInv'
    BY <1>1, <1>3, <2>1, <2>3 DEF UpdateInv
  <2>5. AskStep
    BY <2>1 DEF AskStep
  <2> QED BY <2>4, <2>5
<1> QED BY <1>4, <1>5

LEMMA AnswerArrivesStep ==
    ASSUME UpdateInv, NEW lost \in BOOLEAN, AnswerArrives(lost)
    PROVE  UpdateInv' /\ AskStep
<1>1. PICK next \in {Failed(persisted), Found(Releases[published])} :
        /\ persisted' = next
        /\ saved' = IF lost THEN saved ELSE next
  BY DEF AnswerArrives
<1>2. /\ excused' = (excused \/ lost) /\ inflight' = FALSE
      /\ UNCHANGED <<clock, published, lastAsk>>
  BY DEF AnswerArrives
<1>3. IsMark(next) /\ next.checkedAt = clock
  <2>1. IsMark(Failed(persisted)) /\ Failed(persisted).checkedAt = clock
    BY DEF Failed, IsMark, UpdateInv
  <2>2. \A release : IsMark(Found(release)) /\ Found(release).checkedAt = clock
    BY DEF Found, IsMark, UpdateInv
  <2> QED BY <2>1, <2>2
<1>4. IsMark(persisted)' /\ IsMark(saved)'
  BY <1>1, <1>3 DEF UpdateInv, IsMark
<1>5. ~excused' => ~excused /\ ~lost
  BY <1>2
<1>6. ~excused' => Recent(saved)' /\ Recent(persisted)'
  BY <1>1, <1>2, <1>3, <1>5 DEF UpdateInv, Recent
<1>7. UpdateInv'
  BY <1>2, <1>4, <1>5, <1>6 DEF UpdateInv
<1> QED BY <1>2, <1>7 DEF AskStep

LEMMA UpdateRestartStep ==
    ASSUME UpdateInv, UpdateRestart
    PROVE  UpdateInv' /\ AskStep
<1>1. /\ persisted' = Unloaded /\ inflight' = FALSE /\ excused' = (excused \/ inflight)
      /\ UNCHANGED <<clock, published, saved, lastAsk>>
  BY DEF UpdateRestart
<1>2. IsMark(persisted)'
  BY <1>1, EmptyMarks DEF IsMark
<1> HIDE DEF Unloaded
<1>3. UpdateInv'
  BY <1>1, <1>2 DEF UpdateInv, Recent, IsMark
<1> QED BY <1>1, <1>3 DEF AskStep

LEMMA DayStep ==
    ASSUME UpdateInv, ClockMoves \/ Publish
    PROVE  UpdateInv' /\ AskStep
<1>1. CASE ClockMoves
  <2>1. /\ clock' \in {clock - 1, clock + 1} /\ excused' = (excused \/ clock' < clock)
        /\ UNCHANGED <<published, persisted, saved, inflight, lastAsk>>
    BY <1>1 DEF ClockMoves
  <2>2. clock' \in Int /\ (~excused' => ~excused /\ clock <= clock')
    <3>1. clock \in Int /\ excused \in BOOLEAN
      BY DEF UpdateInv
    <3>2. clock' \in Int
      BY <2>1, <3>1
    <3>3. CASE clock' < clock
      BY <2>1, <3>2, <3>3
    <3>4. CASE ~(clock' < clock)
      <4>1. clock <= clock'
        BY <3>1, <3>2, <3>4
      <4> QED BY <2>1, <3>2, <4>1
    <3> QED BY <3>3, <3>4
  <2>3. ~excused' => lastAsk' <= clock'
    BY <2>1, <2>2 DEF UpdateInv
  <2>4. ASSUME ~excused', ~inflight'
        PROVE  Recent(saved)' /\ (persisted' # Unloaded => Recent(persisted)')
    <3>1. Recent(saved) /\ (persisted # Unloaded => Recent(persisted))
      BY <2>1, <2>2, <2>4 DEF UpdateInv
    <3>2. saved.checkedAt \in Int /\ persisted.checkedAt \in Int /\ clock \in Int
      BY DEF UpdateInv, IsMark
    <3> QED BY <2>1, <2>2, <2>4, <3>1, <3>2 DEF Recent
  <2>5. UpdateInv'
    BY <2>1, <2>2, <2>3, <2>4 DEF UpdateInv, IsMark
  <2> QED BY <2>1, <2>5 DEF AskStep
<1>2. CASE Publish
  <2>1. UNCHANGED <<clock, persisted, saved, inflight, lastAsk, excused>>
    BY <1>2 DEF Publish
  <2>2. UpdateInv'
    BY <2>1 DEF UpdateInv, Recent, IsMark
  <2> QED BY <2>1, <2>2 DEF AskStep
<1> QED BY <1>1, <1>2

LEMMA UpdateSame ==
    ASSUME UpdateInv, UNCHANGED updateVars
    PROVE  UpdateInv' /\ AskStep
<1>1. UNCHANGED <<clock, persisted, saved, inflight, lastAsk, excused>>
  BY DEF updateVars
<1>2. UpdateInv'
  BY <1>1 DEF UpdateInv, Recent, IsMark
<1> QED BY <1>1, <1>2 DEF AskStep

(***************************************************************************)
(* The panel and the counters.  Polls carry different numbers, none above  *)
(* the newest; the answer to the newest was given after what is shown; and *)
(* as long as the file of the counters could be read and written, it holds *)
(* no less than any answer ever said, and memory no less than the file.    *)
(***************************************************************************)

IsSnap(snap) == snap.at \in Nat /\ snap.count \in Nat
IsPanel(p) ==
    /\ DOMAIN p = {"snap", "asked", "from", "badge", "toggling", "saving"}
    /\ IsSnap(p.snap) /\ p.asked \in Nat /\ p.badge \in Tiers \cup {"none"}
IsPoll(poll) ==
    /\ DOMAIN poll = {"seq", "body"} /\ poll.seq \in Nat /\ IsSnap(poll.body)
    /\ poll.seq <= panel.asked /\ poll.body.at <= serial

PollsDiffer == \A p, q \in polls : p.seq = q.seq => p = q

Newer(snap) == snap.at >= panel.snap.at /\ (~lossy => snap.count >= panel.snap.count)
NewestIsNewer == \A p \in polls : p.seq = panel.asked /\ p.body # NoSnap => Newer(p.body)

CountersHold ==
    /\ DOMAIN stats = {"memory", "file", "dirty"} /\ lossy \in BOOLEAN
    /\ stats.memory \in Nat /\ stats.file \in Nat /\ stats.dirty \in BOOLEAN
    /\ ~lossy => /\ stats.file <= stats.memory
                 /\ ~stats.dirty => stats.file = stats.memory
                 /\ panel.snap.count <= stats.file
                 /\ \A p \in polls : p.body.count <= stats.file

PanelInv ==
    /\ serial \in Nat /\ IsPanel(panel) /\ panel.snap.at <= serial
    /\ \A poll \in polls : IsPoll(poll)
    /\ PollsDiffer /\ NewestIsNewer /\ CountersHold

ShownStep ==
    panel'.snap # NoSnap /\ panel.snap # NoSnap =>
        /\ panel'.snap.at >= panel.snap.at
        /\ ~lossy => panel'.snap.count >= panel.snap.count

LEMMA NoSnapFacts == NoSnap.at = 0 /\ NoSnap.count = 0 /\ IsSnap(NoSnap)
BY DEF NoSnap, IsSnap

\* What is shown stays, while buttons and badge change.
LEMMA PanelQuiet ==
    ASSUME PanelInv, IsPanel(panel'), panel'.snap = panel.snap, panel'.asked = panel.asked,
           UNCHANGED <<polls, serial, stats, lossy>>
    PROVE  PanelInv' /\ ShownStep
<1>1. \A poll \in polls' : IsPoll(poll)'
  BY DEF PanelInv, IsPoll, IsSnap
<1>2. PollsDiffer' /\ NewestIsNewer' /\ CountersHold'
  BY DEF PanelInv, PollsDiffer, NewestIsNewer, Newer, CountersHold
<1>3. PanelInv'
  BY <1>1, <1>2 DEF PanelInv, IsPanel, IsSnap
<1>4. panel.snap.at \in Nat /\ panel.snap.count \in Nat
  BY DEF PanelInv, IsPanel, IsSnap
<1> QED BY <1>3, <1>4 DEF ShownStep

\* The counters change, and what was shown stays below them.
LEMMA CountersStep ==
    ASSUME PanelInv, UNCHANGED <<panel, polls, serial>>,
           DOMAIN stats' = {"memory", "file", "dirty"}, lossy' \in BOOLEAN,
           stats'.memory \in Nat, stats'.file = stats.file, stats'.dirty = TRUE,
           ~lossy' => ~lossy /\ stats'.file <= stats'.memory
    PROVE  PanelInv' /\ ShownStep
<1>1. \A poll \in polls' : IsPoll(poll)'
  BY DEF PanelInv, IsPoll, IsSnap
<1>2. PollsDiffer' /\ NewestIsNewer'
  BY DEF PanelInv, PollsDiffer, NewestIsNewer, Newer
<1>3. CountersHold'
  BY DEF PanelInv, CountersHold
<1>4. PanelInv'
  BY <1>1, <1>2, <1>3 DEF PanelInv, IsPanel, IsSnap
<1>5. panel.snap.at \in Nat /\ panel.snap.count \in Nat
  BY DEF PanelInv, IsPanel, IsSnap
<1> QED BY <1>4, <1>5 DEF ShownStep

LEMMA PollStep ==
    ASSUME PanelInv, Poll
    PROVE  PanelInv' /\ ShownStep
<1> DEFINE new == [seq |-> panel.asked + 1, body |-> NoSnap]
<1>1. /\ panel' = [panel EXCEPT !.asked = @ + 1] /\ polls' = polls \cup {new}
      /\ UNCHANGED <<serial, stats, lossy>>
  BY DEF Poll
<1>2. IsPanel(panel) /\ serial \in Nat
  BY DEF PanelInv
<1>3. /\ panel'.asked = panel.asked + 1 /\ panel'.snap = panel.snap /\ panel.asked \in Nat
      /\ IsPanel(panel)'
  BY <1>1, <1>2 DEF IsPanel, IsSnap
<1>4. /\ new.seq = panel.asked + 1 /\ new.body = NoSnap /\ DOMAIN new = {"seq", "body"}
  OBVIOUS
<1> HIDE DEF new
<1>5. ASSUME NEW poll \in polls' PROVE IsPoll(poll)'
  <2>1. CASE poll \in polls
    <3>1. IsPoll(poll)
      BY <2>1 DEF PanelInv
    <3> QED BY <1>1, <1>3, <3>1 DEF IsPoll, IsSnap
  <2>2. CASE poll = new
    BY <1>1, <1>2, <1>3, <1>4, <2>2, NoSnapFacts DEF IsPoll, IsSnap
  <2> QED BY <1>1, <2>1, <2>2
<1>6. \A poll \in polls : poll.seq \in Nat /\ poll.seq <= panel.asked
  BY DEF PanelInv, IsPoll
<1>7. \A poll \in polls : poll.seq # new.seq /\ poll.seq # panel'.asked
  BY <1>3, <1>4, <1>6
<1>8. PollsDiffer'
  BY <1>1, <1>7 DEF PanelInv, PollsDiffer
<1>9. NewestIsNewer'
  BY <1>1, <1>4, <1>7 DEF NewestIsNewer
<1>10. CountersHold'
  BY <1>1, <1>3, <1>4, NoSnapFacts DEF PanelInv, CountersHold
<1>11. panel.snap.at <= serial /\ panel.snap.at \in Nat /\ panel.snap.count \in Nat
  BY DEF PanelInv, IsPanel, IsSnap
<1>12. PanelInv'
  BY <1>1, <1>2, <1>3, <1>5, <1>8, <1>9, <1>10, <1>11 DEF PanelInv
<1> QED BY <1>3, <1>11, <1>12 DEF ShownStep

\* An answer of the host: it writes the counters before it shows them.
LEMMA ServeStep ==
    ASSUME PanelInv, NEW poll \in polls, Serve(poll)
    PROVE  PanelInv' /\ ShownStep
<1> DEFINE body == Shown(persisted', stats')
           new == [poll EXCEPT !.body = body]
<1>1. /\ poll.body = NoSnap /\ serial' = serial + 1
      /\ polls' = (polls \ {poll}) \cup {new} /\ panel' = panel
  BY DEF Serve
<1>2. \/ stats' = Mirrored(FALSE) /\ UNCHANGED lossy
      \/ stats' = Mirrored(TRUE) /\ lossy' = TRUE
  BY DEF Serve
<1>3. /\ IsPoll(poll) /\ serial \in Nat /\ IsPanel(panel) /\ panel.snap.at <= serial
      /\ CountersHold
  BY DEF PanelInv
<1>4. DOMAIN stats = {"memory", "file", "dirty"} /\ stats.memory \in Nat /\ stats.file \in Nat /\ stats.dirty \in BOOLEAN /\ lossy \in BOOLEAN
  BY <1>3 DEF CountersHold
<1>5. /\ DOMAIN stats' = {"memory", "file", "dirty"} /\ stats'.memory = stats.memory
      /\ stats'.dirty = FALSE /\ stats'.file \in {stats.file, stats.memory}
      /\ ~lossy' => ~lossy /\ stats'.file = IF stats.dirty THEN stats.memory ELSE stats.file
  <2>1. \A fails \in BOOLEAN :
            /\ DOMAIN Mirrored(fails) = {"memory", "file", "dirty"}
            /\ Mirrored(fails).memory = stats.memory /\ Mirrored(fails).dirty = FALSE
            /\ Mirrored(fails).file = IF stats.dirty /\ ~fails THEN stats.memory ELSE stats.file
    BY <1>4 DEF Mirrored
  <2> QED BY <1>2, <1>4, <2>1
<1>6. body.at = serial + 1 /\ body.count = stats'.memory
  BY DEF Shown
<1> HIDE DEF body
<1>7. new.seq = poll.seq /\ new.body = body /\ DOMAIN new = {"seq", "body"}
  BY <1>3 DEF IsPoll
<1> HIDE DEF new
<1>8. IsSnap(body)
  BY <1>3, <1>4, <1>5, <1>6 DEF IsSnap
<1>9. ~lossy' => stats'.file = stats.memory /\ stats.file <= stats.memory
  BY <1>3, <1>4, <1>5 DEF CountersHold
<1>10. ASSUME NEW q \in polls' PROVE IsPoll(q)'
  <2>1. CASE q \in polls
    <3>1. IsPoll(q)
      BY <2>1 DEF PanelInv
    <3> QED BY <1>1, <1>3, <3>1 DEF IsPoll, IsSnap
  <2>2. CASE q = new
    BY <1>1, <1>3, <1>6, <1>7, <1>8, <2>2 DEF IsPoll, IsSnap
  <2> QED BY <1>1, <2>1, <2>2
<1>11. PollsDiffer'
  <2>1. \A q \in polls \ {poll} : q.seq # new.seq
    BY <1>7 DEF PanelInv, PollsDiffer
  <2> QED BY <1>1, <2>1 DEF PanelInv, PollsDiffer
<1>12. panel.snap.at \in Nat /\ panel.snap.count \in Nat
  BY <1>3 DEF IsPanel, IsSnap
<1>13. ~lossy' => panel.snap.count <= stats.file
  BY <1>3, <1>5 DEF CountersHold
<1>14. body.at >= panel'.snap.at /\ (~lossy' => body.count >= panel'.snap.count)
  <2>1. body.at >= panel.snap.at
    BY <1>3, <1>6, <1>12
  <2>2. ~lossy' => body.count >= panel.snap.count
    BY <1>4, <1>5, <1>6, <1>9, <1>12, <1>13
  <2> QED BY <1>1, <2>1, <2>2
<1>15. \A q \in polls : q.seq = panel'.asked /\ q.body # NoSnap =>
            q.body.at >= panel'.snap.at /\ (~lossy' => q.body.count >= panel'.snap.count)
  BY <1>1, <1>5 DEF PanelInv, NewestIsNewer, Newer
<1>16. NewestIsNewer'
  BY <1>1, <1>7, <1>14, <1>15 DEF NewestIsNewer, Newer
<1>17. CountersHold'
  <2>1. stats'.memory \in Nat /\ stats'.file \in Nat /\ lossy' \in BOOLEAN
    BY <1>2, <1>4, <1>5
  <2>2. ~lossy' => stats'.file = stats'.memory /\ stats.file <= stats'.file
    BY <1>5, <1>9
  <2>3. ~lossy' => panel'.snap.count <= stats'.file
    BY <1>1, <1>4, <1>9, <1>12, <1>13
  <2>4. ASSUME ~lossy', NEW q \in polls' PROVE q.body.count <= stats'.file
    <3>1. CASE q \in polls
      <4>1. q.body.count <= stats.file /\ q.body.count \in Nat
        BY <1>3, <1>5, <2>4, <3>1 DEF CountersHold, PanelInv, IsPoll, IsSnap
      <4> QED BY <1>4, <1>9, <2>4, <4>1
    <3>2. CASE q = new
      BY <1>4, <1>5, <1>6, <1>7, <1>9, <2>4, <3>2
    <3> QED BY <1>1, <3>1, <3>2
  <2>5. ~lossy' => stats'.file <= stats'.memory
    BY <2>1, <2>2
  <2> QED BY <1>5, <2>1, <2>2, <2>3, <2>4, <2>5 DEF CountersHold
<1>18. panel'.snap.at <= serial' /\ serial' \in Nat
  BY <1>1, <1>3, <1>12
<1>19. PanelInv'
  BY <1>1, <1>3, <1>10, <1>11, <1>16, <1>17, <1>18 DEF PanelInv, IsPanel, IsSnap
<1> QED BY <1>1, <1>12, <1>19 DEF ShownStep

\* An answer reaches the page.
LEMMA ShowStep ==
    ASSUME PanelInv, NEW poll \in polls, Show(poll)
    PROVE  PanelInv' /\ ShownStep
<1>1. /\ poll.body # NoSnap /\ polls' = polls \ {poll} /\ UNCHANGED <<serial, stats, lossy>>
  BY DEF Show
<1>2. panel' = IF poll.seq = panel.asked THEN [panel EXCEPT !.snap = poll.body] ELSE panel
  BY DEF Show
<1>3. IsPoll(poll) /\ IsPanel(panel) /\ CountersHold /\ serial \in Nat /\ panel.snap.at <= serial
  BY DEF PanelInv
<1>4. panel.snap.at \in Nat /\ panel.snap.count \in Nat
  BY <1>3 DEF IsPanel, IsSnap
<1>5. CASE poll.seq # panel.asked
  <2>1. panel' = panel
    BY <1>2, <1>5
  <2>2. \A q \in polls' : IsPoll(q)'
    BY <1>1, <2>1 DEF PanelInv, IsPoll, IsSnap
  <2>3. PollsDiffer' /\ NewestIsNewer' /\ CountersHold'
    BY <1>1, <2>1 DEF PanelInv, PollsDiffer, NewestIsNewer, Newer, CountersHold
  <2>4. PanelInv'
    BY <1>1, <2>1, <2>2, <2>3 DEF PanelInv, IsPanel, IsSnap
  <2> QED BY <1>4, <2>1, <2>4 DEF ShownStep
<1>6. CASE poll.seq = panel.asked
  <2>1. panel' = [panel EXCEPT !.snap = poll.body]
    BY <1>2, <1>6
  <2>2. panel'.snap = poll.body /\ panel'.asked = panel.asked /\ IsPanel(panel)'
    BY <1>3, <2>1 DEF IsPanel, IsPoll
  <2>3. Newer(poll.body)
    BY <1>1, <1>6 DEF PanelInv, NewestIsNewer
  <2>4. ASSUME NEW q \in polls' PROVE IsPoll(q)'
    <3>1. IsPoll(q)
      BY <1>1 DEF PanelInv
    <3> QED BY <1>1, <2>2, <3>1 DEF IsPoll, IsSnap
  <2>5. PollsDiffer'
    BY <1>1 DEF PanelInv, PollsDiffer
  <2>6. \A q \in polls' : q.seq # panel'.asked
    BY <1>1, <1>6, <2>2 DEF PanelInv, PollsDiffer
  <2>7. NewestIsNewer'
    BY <2>6 DEF NewestIsNewer
  <2>8. CountersHold'
    BY <1>1, <1>3, <2>2 DEF CountersHold
  <2>9. panel'.snap.at <= serial' /\ serial' \in Nat
    BY <1>1, <1>3, <2>2 DEF IsPoll
  <2>10. PanelInv'
    BY <2>2, <2>4, <2>5, <2>7, <2>8, <2>9 DEF PanelInv
  <2>11. ShownStep
    BY <2>2, <2>3 DEF ShownStep, Newer
  <2> QED BY <2>10, <2>11
<1> QED BY <1>5, <1>6

(***************************************************************************)
(* The three together: every step of one leaves the invariants of the      *)
(* other two in place.                                                     *)
(***************************************************************************)

ShieldInv == SwitchInv /\ UpdateInv /\ PanelInv
StepsHold == OthersStep /\ AnswerStep /\ AskStep /\ ShownStep

LEMMA ShieldInit ==
    ASSUME Init
    PROVE  ShieldInv
<1>1. SwitchInv
  <2>1. PICK w \in Worlds : disk \in w.disks
    BY DEF Init, SwitchInit
  <2>2. IsDocument(disk)
    BY <2>1, WorldsAssumption
  <2>3. host = Down /\ engine = "off" /\ writing = NoWrite /\ posts = {} /\ answers = {} /\ backup = NoFile
    BY DEF Init, SwitchInit
  <2>4. Installed
    BY <2>3 DEF Installed, OffMeansOff, Down, Hosts, Guards, Tiers
  <2>5. IsDocument(NoFile)
    <3>1. /\ NoFile \in [written : BOOLEAN, dashes : BOOLEAN, broken : BOOLEAN, entries : Seq(Entries)]
          /\ NoFile.entries = <<>>
      BY EmptySeq DEF NoFile, Document
    <3>2. \A n \in 1..Len(<<>>) : <<>>[n].kind # "vet"
      BY EmptySeq
    <3>3. <<>> \in Seq(Entries)
      BY EmptySeq
    <3> HIDE DEF NoFile
    <3> QED BY <3>1, <3>2, <3>3, WithoutVet
  <2>6. ~Underway
    BY <2>3 DEF Underway, NoWrite
  <2> QED BY <2>2, <2>3, <2>4, <2>5, <2>6 DEF SwitchInv, SoundWrite
<1>2. UpdateInv
  <2>1. /\ clock = CheckInterval /\ lastAsk = 0 /\ inflight = FALSE /\ excused = TRUE
        /\ persisted = Unloaded /\ saved = Empty
    BY DEF Init, UpdateInit
  <2>2. IsMark(persisted) /\ IsMark(saved)
    BY <2>1, EmptyMarks DEF IsMark
  <2>3. clock \in Int /\ lastAsk \in Int
    BY <2>1, ClockAssumption
  <2> QED BY <2>1, <2>2, <2>3 DEF UpdateInv
<1>3. PanelInv
  <2>1. /\ panel = Opened(0, left.posts) /\ polls = {} /\ serial = 0
        /\ stats = [memory |-> 0, file |-> 0, dirty |-> TRUE] /\ lossy = FALSE
    BY DEF Init, PanelInit
  <2>2. IsPanel(panel) /\ panel.snap = NoSnap
    BY <2>1, NoSnapFacts DEF IsPanel, Opened
  <2>3. CountersHold
    <3>1. /\ DOMAIN stats = {"memory", "file", "dirty"}
          /\ stats.memory = 0 /\ stats.file = 0 /\ stats.dirty = TRUE
      BY <2>1
    <3>2. panel.snap.count <= stats.file /\ stats.file <= stats.memory
      BY <2>2, <3>1, NoSnapFacts
    <3> QED BY <2>1, <3>1, <3>2 DEF CountersHold
  <2> QED BY <2>1, <2>2, <2>3, NoSnapFacts DEF PanelInv, PollsDiffer, NewestIsNewer
<1> QED BY <1>1, <1>2, <1>3 DEF ShieldInv

LEMMA SwitchStepHolds ==
    ASSUME ShieldInv, SwitchStep
    PROVE  ShieldInv' /\ StepsHold
<1>1. SwitchInv' /\ OthersStep /\ AnswerStep
  BY SwitchNextStep DEF ShieldInv, SwitchStep
<1>2. UpdateInv' /\ AskStep
  BY UpdateRestartStep, UpdateSame DEF ShieldInv, SwitchStep
<1>3. PanelInv /\ UNCHANGED <<panel, polls, serial>> /\ CountersLoad
  BY DEF ShieldInv, SwitchStep
<1>4. PanelInv' /\ ShownStep
  <2>1. CASE UNCHANGED <<stats, lossy>>
    <3>1. IsPanel(panel')
      BY <1>3 DEF PanelInv
    <3> QED BY <1>3, <2>1, <3>1, PanelQuiet
  <2>2. ASSUME NEW readable \in BOOLEAN,
               stats' = [memory |-> IF readable THEN stats.file ELSE 0, file |-> stats.file, dirty |-> TRUE],
               lossy' = (lossy \/ (~readable /\ stats.file > 0))
        PROVE  PanelInv' /\ ShownStep
    <3>1. stats.file \in Nat /\ lossy \in BOOLEAN
      BY <1>3 DEF PanelInv, CountersHold
    <3>2. /\ DOMAIN stats' = {"memory", "file", "dirty"}
          /\ stats'.memory = IF readable THEN stats.file ELSE 0
          /\ stats'.file = stats.file /\ stats'.dirty = TRUE
      BY <2>2
    <3>3. stats'.memory \in Nat /\ lossy' \in BOOLEAN
      <4>1. stats'.memory \in Nat
        BY <3>1, <3>2
      <4>2. lossy' \in BOOLEAN
        BY <2>2, Zenon
      <4> QED BY <4>1, <4>2
    <3>4. ~lossy' => ~lossy /\ stats'.file <= stats'.memory
      <4>1. ~lossy' => ~lossy /\ (readable \/ ~(stats.file > 0))
        BY <2>2, Zenon
      <4>2. CASE readable
        BY <3>1, <3>2, <4>1, <4>2
      <4>3. CASE ~(stats.file > 0)
        <5>1. stats.file = 0
          BY <3>1, <4>3
        <5> QED BY <3>2, <4>1, <5>1
      <4> QED BY <4>1, <4>2, <4>3
    <3> QED BY <1>3, <3>2, <3>3, <3>4, CountersStep
  <2> QED BY <1>3, <2>1, <2>2 DEF CountersLoad
<1> QED BY <1>1, <1>2, <1>4 DEF ShieldInv, StepsHold

\* A step of the page or of the host's answers: the switch's files stand.
LEMMA SwitchStands ==
    ASSUME ShieldInv, UNCHANGED <<disk, backup, host, engine, writing, posts, answers>>
    PROVE  SwitchInv' /\ OthersStep /\ AnswerStep
BY SwitchElsewhere DEF ShieldInv

LEMMA PanelStands ==
    ASSUME ShieldInv, UNCHANGED panelVars
    PROVE  PanelInv' /\ ShownStep
<1>1. UNCHANGED <<panel, polls, serial, stats, lossy>>
  BY DEF panelVars
<1>2. IsPanel(panel')
  BY <1>1 DEF ShieldInv, PanelInv
<1> QED BY <1>1, <1>2, PanelQuiet DEF ShieldInv

LEMMA UpdateStands ==
    ASSUME ShieldInv, UNCHANGED updateVars
    PROVE  UpdateInv' /\ AskStep
BY UpdateSame DEF ShieldInv

LEMMA UpdateStepHolds ==
    ASSUME ShieldInv, UpdateStep
    PROVE  ShieldInv' /\ StepsHold
<1>1. UpdateInv' /\ AskStep
  BY AnswerArrivesStep, DayStep DEF ShieldInv, UpdateStep
<1>2. UNCHANGED <<disk, backup, host, engine, writing, posts, answers>> /\ UNCHANGED panelVars
  BY DEF UpdateStep
<1> QED BY <1>1, <1>2, SwitchStands, PanelStands DEF ShieldInv, StepsHold

LEMMA PollHolds ==
    ASSUME ShieldInv, Poll
    PROVE  ShieldInv' /\ StepsHold
<1>1. UNCHANGED <<disk, backup, host, engine, writing, posts, answers>> /\ UNCHANGED updateVars
  BY DEF Poll
<1>2. PanelInv' /\ ShownStep
  BY PollStep DEF ShieldInv
<1> QED BY <1>1, <1>2, SwitchStands, UpdateStands DEF ShieldInv, StepsHold

LEMMA CountHolds ==
    ASSUME ShieldInv, Count
    PROVE  ShieldInv' /\ StepsHold
<1>1. UNCHANGED <<disk, backup, host, engine, writing, posts, answers>> /\ UNCHANGED updateVars
  BY DEF Count
<1>2. stats' = [stats EXCEPT !.memory = @ + 1, !.dirty = TRUE] /\ UNCHANGED <<panel, polls, serial, lossy>>
  BY DEF Count
<1>3. CountersHold /\ PanelInv
  BY DEF ShieldInv, PanelInv
<1>4. /\ DOMAIN stats' = {"memory", "file", "dirty"}
      /\ stats'.memory = stats.memory + 1 /\ stats'.file = stats.file /\ stats'.dirty = TRUE
  BY <1>2, <1>3 DEF CountersHold
<1>5. stats'.memory \in Nat /\ lossy' \in BOOLEAN /\ (~lossy' => ~lossy /\ stats'.file <= stats'.memory)
  BY <1>2, <1>3, <1>4 DEF CountersHold
<1>6. PanelInv' /\ ShownStep
  BY <1>2, <1>3, <1>4, <1>5, CountersStep
<1> QED BY <1>1, <1>6, SwitchStands, UpdateStands DEF ShieldInv, StepsHold

LEMMA ServeHolds ==
    ASSUME ShieldInv, NEW poll \in polls, Serve(poll)
    PROVE  ShieldInv' /\ StepsHold
<1>1. UNCHANGED <<disk, backup, host, engine, writing, posts, answers>>
  BY DEF Serve
<1>2. UpdateInv' /\ AskStep
  BY MaybeCheckStep DEF Serve, ShieldInv
<1>3. PanelInv' /\ ShownStep
  BY ServeStep DEF ShieldInv
<1> QED BY <1>1, <1>2, <1>3, SwitchStands DEF ShieldInv, StepsHold

LEMMA ShowHolds ==
    ASSUME ShieldInv, NEW poll \in polls, Show(poll)
    PROVE  ShieldInv' /\ StepsHold
<1>1. UNCHANGED <<disk, backup, host, engine, writing, posts, answers>> /\ UNCHANGED updateVars
  BY DEF Show, switchVars
<1>2. PanelInv' /\ ShownStep
  BY ShowStep DEF ShieldInv
<1> QED BY <1>1, <1>2, SwitchStands, UpdateStands DEF ShieldInv, StepsHold

\* A button pressed or released.
LEMMA PressIsPanel ==
    ASSUME NEW p, IsPanel(p), p = panel, NEW what, NEW busy
    PROVE  /\ IsPanel(Press(what, busy))
           /\ Press(what, busy).snap = p.snap /\ Press(what, busy).asked = p.asked
BY DEF IsPanel, Press

LEMMA ClickHolds ==
    ASSUME ShieldInv, NEW what, NEW arg, Click(what, arg),
           what = "toggle" \/ (what = "tier" /\ arg \in Tiers)
    PROVE  ShieldInv' /\ StepsHold
<1> DEFINE post == [id |-> left.posts, what |-> what, arg |-> arg, sound |-> TRUE]
<1>1. /\ panel' = Press(what, TRUE) /\ posts' = posts \cup {post}
      /\ UNCHANGED <<disk, backup, host, engine, writing, answers>> /\ UNCHANGED updateVars
      /\ UNCHANGED <<polls, serial, stats, lossy>>
  BY DEF Click
<1>2. SoundPost(post)
  BY DEF SoundPost
<1> HIDE DEF post
<1>3. SwitchInv' /\ OthersStep /\ AnswerStep
  BY <1>1, <1>2, SwitchElsewhere DEF ShieldInv
<1>4. IsPanel(panel') /\ panel'.snap = panel.snap /\ panel'.asked = panel.asked
  BY <1>1, PressIsPanel DEF ShieldInv, PanelInv
<1>5. PanelInv' /\ ShownStep
  BY <1>1, <1>4, PanelQuiet DEF ShieldInv
<1> QED BY <1>1, <1>3, <1>5, UpdateStands DEF ShieldInv, StepsHold

LEMMA PostElsewhereHolds ==
    ASSUME ShieldInv, PostElsewhere
    PROVE  ShieldInv' /\ StepsHold
<1> DEFINE post == [id |-> left.posts, what |-> "elsewhere", arg |-> "off", sound |-> FALSE]
<1>1. /\ posts' = posts \cup {post} /\ UNCHANGED <<disk, backup, host, engine, writing, answers>>
      /\ UNCHANGED updateVars /\ UNCHANGED panelVars
  BY DEF PostElsewhere, panelVars
<1>2. SoundPost(post)
  BY DEF SoundPost
<1> HIDE DEF post
<1>3. SwitchInv' /\ OthersStep /\ AnswerStep
  BY <1>1, <1>2, SwitchElsewhere DEF ShieldInv
<1> QED BY <1>1, <1>3, PanelStands, UpdateStands DEF ShieldInv, StepsHold

LEMMA ToldHolds ==
    ASSUME ShieldInv, NEW answer \in answers, Told(answer)
    PROVE  ShieldInv' /\ StepsHold
<1>1. /\ answers' = answers \ {answer}
      /\ UNCHANGED <<disk, backup, host, engine, writing, posts>> /\ UNCHANGED updateVars
      /\ UNCHANGED <<polls, serial, stats, lossy>>
  BY DEF Told
<1>2. SwitchInv' /\ OthersStep /\ AnswerStep
  BY <1>1, SwitchElsewhere DEF ShieldInv
<1>3. answer.profile \in Tiers \cup {"none"}
  BY DEF ShieldInv, SwitchInv
<1> DEFINE released == Press(answer.what, FALSE)
<1>4. IsPanel(panel) /\ IsPanel(released) /\ released.snap = panel.snap /\ released.asked = panel.asked
  BY PressIsPanel DEF ShieldInv, PanelInv
<1>5. panel' \in {panel, released, [released EXCEPT !.badge = answer.profile]}
  BY DEF Told
<1> HIDE DEF released
<1>6. IsPanel(panel') /\ panel'.snap = panel.snap /\ panel'.asked = panel.asked
  <2>1. CASE panel' = [released EXCEPT !.badge = answer.profile]
    BY <1>3, <1>4, <2>1 DEF IsPanel
  <2>2. CASE panel' \in {panel, released}
    BY <1>4, <2>2
  <2> QED BY <1>5, <2>1, <2>2
<1>7. PanelInv' /\ ShownStep
  BY <1>1, <1>6, PanelQuiet DEF ShieldInv
<1> QED BY <1>1, <1>2, <1>7, UpdateStands DEF ShieldInv, StepsHold

LEMMA ReloadHolds ==
    ASSUME ShieldInv, Reload
    PROVE  ShieldInv' /\ StepsHold
<1>1. /\ panel' = Opened(panel.asked, left.posts) /\ polls' = {} /\ UNCHANGED <<serial, stats, lossy>>
      /\ UNCHANGED <<disk, backup, host, engine, writing, posts, answers>> /\ UNCHANGED updateVars
  BY DEF Reload
<1>2. IsPanel(panel) /\ CountersHold /\ serial \in Nat
  BY DEF ShieldInv, PanelInv
<1>3. panel'.snap = NoSnap /\ IsPanel(panel)'
  BY <1>1, <1>2, NoSnapFacts DEF IsPanel, Opened
<1>4. CountersHold'
  BY <1>1, <1>2, <1>3, NoSnapFacts DEF CountersHold
<1>5. panel'.snap.at <= serial' /\ serial' \in Nat
  BY <1>1, <1>2, <1>3, NoSnapFacts
<1>6. PanelInv'
  BY <1>1, <1>3, <1>4, <1>5 DEF PanelInv, PollsDiffer, NewestIsNewer
<1>7. ShownStep
  BY <1>3 DEF ShownStep
<1> QED BY <1>1, <1>6, <1>7, SwitchStands, UpdateStands DEF ShieldInv, StepsHold

LEMMA ShieldStep ==
    ASSUME ShieldInv, [Next]_vars
    PROVE  ShieldInv' /\ StepsHold
<1>1. CASE SwitchStep
  BY <1>1, SwitchStepHolds
<1>2. CASE UpdateStep
  BY <1>2, UpdateStepHolds
<1>3. CASE PanelStep
  <2>1. CASE Poll
    BY <2>1, PollHolds
  <2>2. CASE Count
    BY <2>2, CountHolds
  <2>3. CASE PostElsewhere
    BY <2>3, PostElsewhereHolds
  <2>4. CASE Reload
    BY <2>4, ReloadHolds
  <2>5. ASSUME NEW poll \in polls, Serve(poll) \/ Show(poll)
        PROVE  ShieldInv' /\ StepsHold
    BY <2>5, ServeHolds, ShowHolds
  <2>6. ASSUME NEW way \in {"on", "off"}, Click("toggle", way)
        PROVE  ShieldInv' /\ StepsHold
    BY <2>6, ClickHolds
  <2>7. ASSUME NEW tier \in Tiers, Click("tier", tier)
        PROVE  ShieldInv' /\ StepsHold
    BY <2>7, ClickHolds
  <2>8. ASSUME NEW answer \in answers, Told(answer)
        PROVE  ShieldInv' /\ StepsHold
    BY <2>8, ToldHolds
  <2> QED BY <1>3, <2>1, <2>2, <2>3, <2>4, <2>5, <2>6, <2>7, <2>8 DEF PanelStep
<1>4. CASE UNCHANGED vars
  <2>1. /\ UNCHANGED <<disk, backup, host, engine, writing, posts, answers>>
        /\ UNCHANGED updateVars /\ UNCHANGED panelVars
    BY <1>4 DEF vars, switchVars
  <2> QED BY <2>1, SwitchStands, UpdateStands, PanelStands DEF ShieldInv, StepsHold
<1> QED BY <1>1, <1>2, <1>3, <1>4 DEF Next

(***************************************************************************)
(* The theorems.                                                           *)
(***************************************************************************)

\* The invariants of the switch, the question for updates and the panel hold
\* together in every reachable state.
THEOREM ShieldInvariant == Spec => []ShieldInv
<1>1. Init => ShieldInv
  BY ShieldInit
<1>2. ShieldInv /\ [Next]_vars => ShieldInv'
  BY ShieldStep
<1> QED BY <1>1, <1>2, PTL DEF Spec

\* Types, for every document, budget and length of the day.
THEOREM ShieldTypeCorrect == Spec => []TypeOK
<1>1. ShieldInv => TypeOK
  <2> SUFFICES ASSUME ShieldInv PROVE TypeOK
    OBVIOUS
  <2>1. SwitchTypeOK
    BY DEF ShieldInv, SwitchInv, SwitchTypeOK, Installed, Hosts, Guards
  <2>2. panel.badge \in Tiers \cup {"none"} /\ panel.snap.at <= serial
    BY DEF ShieldInv, PanelInv, IsPanel
  <2>3. \A poll \in polls : poll.seq <= panel.asked
    BY DEF ShieldInv, PanelInv, IsPoll
  <2>4. stats.memory \in Nat /\ stats.file \in Nat
    BY DEF ShieldInv, PanelInv, CountersHold
  <2> QED BY <2>1, <2>2, <2>3, <2>4 DEF TypeOK
<1> QED BY <1>1, ShieldInvariant, PTL

\* No hook stays installed behind a configuration that says "off", whatever
\* order switches, failed installations, crashes and starts come in.
THEOREM SwitchedOffIsOff == Spec => []OffMeansOff
<1>1. ShieldInv => OffMeansOff
  BY DEF ShieldInv, SwitchInv, Installed
<1> QED BY <1>1, ShieldInvariant, PTL

\* A write of vet keeps the entries of the others and the other keys of its
\* own, for every document with at most one entry of vet's.
THEOREM OthersAreKept == Spec => OthersKept
<1>1. ShieldInv /\ [Next]_vars =>
          [disk' # disk /\ Underway /\ writing' = NoWrite /\ ~Rescue(writing.base) =>
              /\ Others(disk') = Others(writing.base)
              /\ HasVet(writing.base) /\ Vet(writing.base).more => HasVet(disk') /\ Vet(disk').more]_switchVars
  BY ShieldStep DEF StepsHold, OthersStep
<1> QED BY <1>1, ShieldInvariant, PTL DEF Spec, OthersKept

\* What an answer to the switch says is what the next start would read: the
\* guard in every case, the tier unless a document was rescued.
THEOREM AnswersHold == Spec => AnswerHolds
<1>1. ShieldInv /\ [Next]_vars =>
          [\A a \in answers' \ answers : a.ok /\ a.read /\ ~IsInline(disk') =>
              /\ Started(disk').guard = GuardFor(a.profile)
              /\ ~(Underway /\ Rescue(writing.base)) => Started(disk').profile = a.profile]_switchVars
  BY ShieldStep DEF StepsHold, AnswerStep
<1> QED BY <1>1, ShieldInvariant, PTL DEF Spec, AnswerHolds

\* What the panel shows never goes back to an older answer, nor its counters
\* to a smaller number.
THEOREM NewestIsShown == Spec => NewestShown
<1>1. ShieldInv /\ [Next]_vars =>
          [panel'.snap # NoSnap /\ panel.snap # NoSnap =>
              /\ panel'.snap.at >= panel.snap.at
              /\ ~lossy => panel'.snap.count >= panel.snap.count]_vars
  BY ShieldStep DEF StepsHold, ShownStep
<1> QED BY <1>1, ShieldInvariant, PTL DEF Spec, NewestShown

\* The registry is asked once a day, unless the mark of the last question was
\* lost or the clock set back.
THEOREM RegistryAskedOnceADay == Spec => AskedOnceADay
<1>1. ShieldInv /\ [Next]_vars =>
          [~inflight /\ inflight' =>
              \/ clock >= lastAsk + CheckInterval
              \/ excused \/ (persisted = Unloaded /\ persisted' # saved)]_updateVars
  BY ShieldStep DEF StepsHold, AskStep
<1> QED BY <1>1, ShieldInvariant, PTL DEF Spec, AskedOnceADay

-----------------------------------------------------------------------------
(* What harms a precious file is an alarm.                                 *)

\* Among the tests that are met one comes first.
LEMMA FirstMet ==
    ASSUME NEW T, T \subseteq 1..10, T # {}
    PROVE  \E k \in T : \A j \in T : k <= j
<1> DEFINE R == {ss \in Nat \X Nat : ss[1] < ss[2]}
<1>1. IsWellFoundedOn(R, Nat)  BY NatLessThanWellFounded DEF OpToRel
<1> HIDE DEF R
<1>2. T \subseteq Nat  OBVIOUS
<1>3. PICK k \in T : \A j \in T : ~ (<<j, k>> \in R)  BY <1>1, <1>2, WFMin
<1>4. \A j \in T : j < k => <<j, k>> \in R  BY <1>2 DEF R
<1> QED  BY <1>2, <1>3, <1>4

\* What is precious is sensitive, also as the target of a write, and no lock file.
LEMMA PreciousIsSensitive ==
    ASSUME NEW p, Precious(p)
    PROVE  p # NoPath /\ IsSensitivePath(p, "mutate") /\ ~IsLockSiblingPath(p)
<1>1. PICK i \in Named(p) : p[i] = "secret" \/ (p[i] = ".dsh" /\ i < Len(p))  BY DEF Precious
<1>2. i \in 1..Len(p)  BY DEF Named
<1>3. p # NoPath  BY <1>2 DEF NoPath
<1>4. p[i] \in SensitiveNames  BY <1>1 DEF SensitiveNames
<1>5. ~(i = Len(p) /\ IsTransient(p))
  <2>1. CASE p[i] = "secret"  BY <2>1 DEF IsTransient, BaseName, Transients
  <2>2. CASE i < Len(p)
    <3>1. i \in Int  BY <1>2
    <3> QED  BY <2>2, <3>1
  <2> QED  BY <1>1, <2>1, <2>2
<1>6. ~IsUnderTempRoot(p)  BY DEF Precious, IsUnderTempRoot, TempRoots
<1> QED  BY <1>1, <1>3, <1>4, <1>5, <1>6 DEF Precious, IsSensitivePath, IsLockSiblingPath

\* The kinds whose colour the detector decides.
DetectorKinds == {"honeypot", "integrity", "persistence-write", "install-write", "fs-destroy", "fs-write",
                  "fs-read", "spawn"}

\* The tests, one by one.
LEMMA TestsAre ==
    ASSUME NEW op, NEW k \in 1..10, FsHits(op)[k].hit # {}
    PROVE  /\ FsHits(op)[k].sev \in {"red", "yellow"}
           /\ op.name \notin ProbeOps => FsHits(op)[k].kind \in DetectorKinds
           /\ op.name \in DestroyOps => FsHits(op)[k].sev = "red"
<1>1. CASE k = 1  BY <1>1 DEF FsHits, DetectorKinds, DestroyOps
<1>2. CASE k = 2  BY <1>2 DEF FsHits, DetectorKinds, DestroyOps
<1>3. CASE k = 3  BY <1>3 DEF FsHits, DetectorKinds, DestroyOps, WriteOps, PairOps
<1>4. CASE k = 4  BY <1>4 DEF FsHits, DetectorKinds, DestroyOps, WriteOps, PairOps
<1>5. CASE k = 5  BY <1>5 DEF FsHits, DetectorKinds, DestroyOps
<1>6. CASE k = 6  BY <1>6 DEF FsHits, DetectorKinds, DestroyOps, PairOps
<1>7. CASE k = 7  BY <1>7 DEF FsHits, DetectorKinds, DestroyOps
<1>8. CASE k = 8  BY <1>8 DEF FsHits, DetectorKinds, DestroyOps, WriteOps, PairOps
<1>9. CASE k = 9  BY <1>9 DEF FsHits, DetectorKinds, DestroyOps, ReadOps
<1>10. CASE k = 10  BY <1>10 DEF FsHits, DetectorKinds, DestroyOps, ProbeOps
<1>11. k = 1 \/ k = 2 \/ k = 3 \/ k = 4 \/ k = 5 \/ k = 6 \/ k = 7 \/ k = 8 \/ k = 9 \/ k = 10  OBVIOUS
<1> QED  BY <1>1, <1>2, <1>3, <1>4, <1>5, <1>6, <1>7, <1>8, <1>9, <1>10, <1>11

\* If a test is met, the operation has the alarm of one that is.
LEMMA FsAlarm ==
    ASSUME NEW op, op.paths # <<>>, NEW i \in 1..10, FsHits(op)[i].hit # {}
    PROVE  \E k \in 1..10 : /\ FsHits(op)[k].hit # {}
                            /\ ClassifyFs(op).severity = FsHits(op)[k].sev
                            /\ ClassifyFs(op).kind = FsHits(op)[k].kind
<1> DEFINE hits == FsHits(op)
           met  == {k \in DOMAIN hits : hits[k].hit # {}}
           k    == CHOOSE j \in met : \A l \in met : j <= l
           p    == FirstOf(op, hits[k].hit)
<1>1. DOMAIN hits = 1..10  BY DEF FsHits
<1> HIDE DEF hits
<1>2. i \in met /\ met \subseteq 1..10  BY <1>1 DEF hits
<1>3. k \in met  BY <1>2, FirstMet
<1>4. ClassifyFs(op) = [Alarm(hits[k].sev, hits[k].kind, About(p)) EXCEPT
                           !.sessionLog = hits[k].kind = "fs-destroy" /\ IsSessionLogFile(p)]
  BY <1>2 DEF ClassifyFs, hits
<1> HIDE DEF p, k
<1>5. ClassifyFs(op).severity = hits[k].sev /\ ClassifyFs(op).kind = hits[k].kind
  BY <1>4 DEF Alarm
<1> QED  BY <1>2, <1>3, <1>5 DEF hits

\* An operation that harms has an alarm, and of a deletion a red one.
LEMMA HarmIsAlarm ==
    ASSUME NEW op, Harm(op) # "none"
    PROVE  /\ Harm(op) \in {"deletes", "writes"}
           /\ Classify(op).severity \in {"red", "yellow"}
           /\ Classify(op).kind \in DetectorKinds
           /\ Harm(op) = "deletes" => Classify(op).severity = "red"
<1> DEFINE Deletes == op.mod = "fs" /\ op.name \in DestroyOps /\ Precious(Target(op))
           Moves   == op.mod = "fs" /\ op.name \in PairOps /\ \E p \in Paths(op) : Precious(p)
           Writes  == op.mod = "fs" /\ op.name \in {"write", "openWrite"} /\ Precious(Target(op))
           Removes == op.mod = "proc" /\ "rm" \in op.cmd \cup op.argv /\ \E p \in Paths(op) : Precious(p)
<1>1. CASE Deletes
  <2>1. Target(op) # NoPath /\ IsSensitivePath(Target(op), "mutate") /\ ~IsLockSiblingPath(Target(op))
    BY <1>1, PreciousIsSensitive
  <2>2. op.paths # <<>>  BY <2>1 DEF Target
  <2>3. FsHits(op)[5].hit # {}  BY <1>1, <2>1 DEF FsHits
  <2>4. op.name \notin ProbeOps  BY <1>1 DEF DestroyOps, ProbeOps
  <2>5. PICK k \in 1..10 : /\ FsHits(op)[k].hit # {} /\ ClassifyFs(op).severity = FsHits(op)[k].sev
                           /\ ClassifyFs(op).kind = FsHits(op)[k].kind
    BY <2>2, <2>3, FsAlarm
  <2>6. ClassifyFs(op).kind \in DetectorKinds /\ ClassifyFs(op).severity = "red"
    BY <1>1, <2>4, <2>5, TestsAre
  <2>7. Harm(op) = "deletes" /\ Classify(op) = ClassifyFs(op)  BY <1>1 DEF Harm, Classify, DestroyOps, PairOps
  <2> QED  BY <2>6, <2>7
<1>2. CASE Moves
  <2>1. PICK p \in Paths(op) : Precious(p)  BY <1>2
  <2>2. IsSensitivePath(p, "mutate")  BY <2>1, PreciousIsSensitive
  <2>3. op.paths # <<>>  BY <2>1 DEF Paths
  <2>4. FsHits(op)[6].hit # {}  BY <1>2, <2>2 DEF FsHits
  <2>5. op.name \notin ProbeOps  BY <1>2 DEF PairOps, ProbeOps
  <2>6. PICK k \in 1..10 : /\ FsHits(op)[k].hit # {} /\ ClassifyFs(op).severity = FsHits(op)[k].sev
                           /\ ClassifyFs(op).kind = FsHits(op)[k].kind
    BY <2>3, <2>4, FsAlarm
  <2>7. ClassifyFs(op).kind \in DetectorKinds /\ ClassifyFs(op).severity \in {"red", "yellow"}
    BY <2>5, <2>6, TestsAre
  <2>8. Harm(op) = "writes" /\ Classify(op) = ClassifyFs(op)  BY <1>2 DEF Harm, Classify, DestroyOps, PairOps
  <2> QED  BY <2>7, <2>8
<1>3. CASE Writes
  <2>1. Target(op) # NoPath /\ IsSensitivePath(Target(op), "mutate") /\ ~IsLockSiblingPath(Target(op))
    BY <1>3, PreciousIsSensitive
  <2>2. op.paths # <<>>  BY <2>1 DEF Target
  <2>3. FsHits(op)[7].hit # {} \/ FsHits(op)[8].hit # {}  BY <1>3, <2>1 DEF FsHits, WriteOps
  <2>4. op.name \notin ProbeOps  BY <1>3 DEF ProbeOps
  <2>5. PICK k \in 1..10 : /\ FsHits(op)[k].hit # {} /\ ClassifyFs(op).severity = FsHits(op)[k].sev
                           /\ ClassifyFs(op).kind = FsHits(op)[k].kind
    BY <2>2, <2>3, FsAlarm
  <2>6. ClassifyFs(op).kind \in DetectorKinds /\ ClassifyFs(op).severity \in {"red", "yellow"}
    BY <2>4, <2>5, TestsAre
  <2>7. Harm(op) = "writes" /\ Classify(op) = ClassifyFs(op)  BY <1>3 DEF Harm, Classify, DestroyOps, PairOps
  <2> QED  BY <2>6, <2>7
<1>4. CASE Removes
  <2>1. PICK p \in Paths(op) : Precious(p)  BY <1>4
  <2>2. IsSensitivePath(p, "mutate")  BY <2>1, PreciousIsSensitive
  <2>3. Destroys(op)  BY <1>4 DEF Destroys, Hits, DestructiveTokens
  <2>4. ClassifyProcess(op) = Alarm("yellow", "spawn", Running(op.cmd))  BY <2>1, <2>2, <2>3 DEF ClassifyProcess
  <2>5. Harm(op) = "writes" /\ Classify(op) = ClassifyProcess(op)  BY <1>4 DEF Harm, Classify
  <2> QED  BY <2>4, <2>5 DEF Alarm, DetectorKinds
<1>5. Deletes \/ Moves \/ Writes \/ Removes  BY DEF Harm
<1> QED  BY <1>1, <1>2, <1>3, <1>4, <1>5

-----------------------------------------------------------------------------
(* What a call leaves behind.                                              *)

\* What the sink is given, as Call has it.
Handled(op, h) ==
    IF Refused(op, h, AlarmOf[op]) THEN [Quiet EXCEPT !.rows = {Row("n7-block", "red", h)}]
    ELSE IF Explained(op, h, AlarmOf[op]) THEN Quiet
    ELSE Sink(AlarmOf[op], h, Demoted(op, h, AlarmOf[op]))

\* The colour of a row whose kind leaves it to the detector, or is a red one.
LEMMA ColourKept ==
    ASSUME NEW row, row = Row(row.kind, row.severity, row.by),
           \/ row.kind \in DetectorKinds
           \/ row.kind \in {"n7-block", "attribution-tampered"} /\ row.severity = "red"
    PROVE  Emitted(OutputMode, row, FALSE).severity = row.severity
<1>1. Severity(row.kind, FALSE, row.severity) = row.severity
  <2>1. CASE row.kind \in DetectorKinds
    <3>1. SpecFor(row.kind, FALSE) = "from-site"
      BY <2>1 DEF SpecFor, DetectorKinds, Reds, Yellows, Infos, FromSite
    <3> QED  BY <3>1 DEF Severity
  <2>2. CASE row.kind \in {"n7-block", "attribution-tampered"} /\ row.severity = "red"
    <3>1. SpecFor(row.kind, FALSE) = "red"
      BY <2>2 DEF SpecFor, Reds, Yellows, Infos, FromSite
    <3> QED  BY <2>2, <3>1 DEF Severity
  <2> QED  BY <2>1, <2>2
<1>2. [row EXCEPT !.severity = row.severity] = row  BY DEF Row
<1>3. Emitted(OutputMode, row, FALSE) = row  BY <1>1, <1>2 DEF Emitted
<1> QED  BY <1>3

\* What the sink tells of an alarm of a plugin that is not verified, unless the
\* housekeeping of official packages explains a probe.
LEMMA SinkTells ==
    ASSUME NEW alarm, NEW h, alarm # NoAlarm, h # Nobody, h \notin trusted
    PROVE  Row(alarm.kind, alarm.severity, h) \in Sink(alarm, h, FALSE).rows
<1>1. ~Silenced(alarm, h)  BY DEF Silenced
<1> QED  BY <1>1 DEF Sink

\* A row that counts, of the colour the harm of the operation asks for.
Tells(row, op) ==
    /\ row = Row(row.kind, row.severity, row.by) /\ row.severity \in {"red", "yellow"}
    /\ \/ row.kind \in DetectorKinds
       \/ row.kind \in {"n7-block", "attribution-tampered"} /\ row.severity = "red"
    /\ Harm(op) = "deletes" => row.severity = "red"

\* Whoever deletes, writes or moves something precious is told of.
LEMMA HarmIsTold ==
    ASSUME NEW op \in Operations, NEW p, Call(op, p)
    PROVE  PluginNotHidden'
<1> DEFINE h == Hint(p)
           alarm == AlarmOf[op]
           refused == Refused(op, h, alarm)
           found == TamperRows(op, alarm) \cup Handled(op, h).rows \cup (IF refused THEN {} ELSE LeakRows(op, h))
           seen  == {Emitted(OutputMode, row, FALSE) : row \in found}
<1>1. last' = IF p = Nobody \/ p \in trusted THEN NoCall
              ELSE [harm |-> HarmOf[op], told |-> {r.severity : r \in seen}]
  BY DEF Call, Handled
<1>2. SUFFICES ASSUME p # Nobody, p \notin trusted, Harm(op) # "none"
               PROVE  \E row \in found : Tells(row, op)
  <2> HIDE DEF found
  <2>1. CASE p = Nobody \/ p \in trusted \/ Harm(op) = "none"
    <3>1. last'.harm = "none"  BY <1>1, <2>1 DEF NoCall, HarmOf
    <3> QED  BY <3>1 DEF PluginNotHidden
  <2>2. CASE p # Nobody /\ p \notin trusted /\ Harm(op) # "none"
    <3>1. PICK row \in found : Tells(row, op)  BY <1>2, <2>2
    <3>2. Emitted(OutputMode, row, FALSE).severity = row.severity  BY <3>1, ColourKept DEF Tells
    <3>3. row.severity \in {r.severity : r \in seen}  BY <3>2
    <3>4. last' = [harm |-> Harm(op), told |-> {r.severity : r \in seen}]  BY <1>1, <2>2 DEF HarmOf
    <3> HIDE DEF seen
    <3> QED  BY <3>1, <3>3, <3>4 DEF Tells, PluginNotHidden
  <2> QED  BY <2>1, <2>2
<1>3. /\ alarm.severity \in {"red", "yellow"} /\ alarm.kind \in DetectorKinds
      /\ Harm(op) = "deletes" => alarm.severity = "red"
  BY <1>2, HarmIsAlarm DEF AlarmOf
<1>4. alarm # NoAlarm /\ alarm.kind # "fs-probe"
  BY <1>3 DEF NoAlarm, Alarm, DetectorKinds
<1> HIDE DEF alarm
<1>5. CASE tampered
  <2>1. Row("attribution-tampered", "red", Nobody) \in found  BY <1>4, <1>5 DEF TamperRows
  <2> HIDE DEF found
  <2> QED  BY <2>1 DEF Row, Tells
<1>6. CASE ~tampered /\ refused
  <2>1. Row("n7-block", "red", h) \in Handled(op, h).rows  BY <1>6 DEF Handled, Quiet, alarm
  <2>2. Row("n7-block", "red", h) \in found  BY <2>1
  <2> HIDE DEF found
  <2> QED  BY <2>2 DEF Row, Tells
<1>7. CASE ~tampered /\ ~refused
  <2>1. h = p  BY <1>7 DEF Hint
  <2>2. ~Explained(op, h, alarm) /\ ~Demoted(op, h, alarm)
    BY <1>2, <1>4, <2>1 DEF Explained, Demoted, OfficialHousekeeping
  <2>3. Handled(op, h) = Sink(alarm, h, FALSE)
    <3>1. Demoted(op, h, alarm) = FALSE  BY <2>2 DEF Demoted
    <3>2. Handled(op, h) = Sink(alarm, h, Demoted(op, h, alarm))
      <4> HIDE DEF h
      <4> QED  BY <1>7, <2>2 DEF Handled, alarm
    <3> QED  BY <3>1, <3>2
  <2>4. Row(alarm.kind, alarm.severity, h) \in found
    BY <1>2, <1>4, <2>1, <2>3, SinkTells
  <2> HIDE DEF found
  <2> QED  BY <1>3, <2>4 DEF Row, Tells
<1> QED  BY <1>5, <1>6, <1>7

\* Other steps tell nothing.
LEMMA OthersAreSilent ==
    ASSUME [SinkNext]_sinkVars, ~ \E op \in Operations, p \in Plugins \cup {Nobody} : Call(op, p)
    PROVE  /\ last' = last \/ last' = NoCall
           /\ UNCHANGED <<distrustedNoted, owed, told>>
BY DEF SinkNext, sinkVars, world, notes, past, EditContract, ScanFiles, Verify, Tamper

\* Nothing explains away what an unverified plugin does to the state of the
\* host: for any operations, contracts, manifests, names and modes, and under
\* replaced stack hooks.
THEOREM HarmIsNotHidden == SinkSpec => []PluginNotHidden
<1>1. SinkInit => PluginNotHidden  BY DEF SinkInit, PluginNotHidden, NoCall
<1>2. PluginNotHidden /\ [SinkNext]_sinkVars => PluginNotHidden'
  <2> SUFFICES ASSUME PluginNotHidden, [SinkNext]_sinkVars  PROVE PluginNotHidden'
    OBVIOUS
  <2>1. CASE \E op \in Operations, p \in Plugins \cup {Nobody} : Call(op, p)  BY <2>1, HarmIsTold
  <2>2. CASE ~ \E op \in Operations, p \in Plugins \cup {Nobody} : Call(op, p)
    BY <2>2, OthersAreSilent DEF PluginNotHidden, NoCall
  <2> QED  BY <2>1, <2>2
<1> QED  BY <1>1, <1>2, PTL DEF SinkSpec

-----------------------------------------------------------------------------
(* Distrust.                                                               *)

\* What is remembered as told was told.
DistrustInv == distrustedNoted \subseteq told /\ DistrustTold

\* The sink tells of a plugin that is owed it, unless it remembers that it did, and
\* remembers what it tells.
LEMMA SinkDistrusts ==
    ASSUME NEW alarm, NEW h, NEW demoted
    PROVE  LET s == Sink(alarm, h, demoted)
               says == {r.by : r \in {x \in s.rows : x.kind = "m1-contract-distrusted"}}
           IN  s.distrusted \subseteq says /\ s.owed \subseteq says \cup distrustedNoted
<1> DEFINE s == Sink(alarm, h, demoted)
           says == {r.by : r \in {x \in s.rows : x.kind = "m1-contract-distrusted"}}
           hidden == Hidden(alarm, h)
           d == Distrust(hidden, h)
<1> SUFFICES s.distrusted \subseteq says /\ s.owed \subseteq says \cup distrustedNoted
  OBVIOUS
<1>1. CASE s.distrusted = {} /\ s.owed = {}  BY <1>1
<1>2. CASE /\ d.rows \subseteq s.rows /\ s.distrusted = d.noted
           /\ s.owed = IF hidden /\ ContractOf(h).kind = "loaded" THEN {h} ELSE {}
  <2> HIDE DEF s, hidden
  <2>1. CASE hidden /\ h \notin distrustedNoted /\ ContractOf(h).kind = "loaded"
    <3>1. d = [rows |-> {Row("m1-contract-distrusted", "yellow", h)}, noted |-> {h}]  BY <2>1 DEF Distrust
    <3>2. Row("m1-contract-distrusted", "yellow", h) \in s.rows  BY <1>2, <3>1
    <3>3. h \in says  BY <3>2 DEF Row
    <3>4. s.distrusted = {h} /\ s.owed \subseteq {h}  BY <1>2, <3>1
    <3> HIDE DEF says
    <3> QED  BY <3>3, <3>4
  <2>2. CASE ~(hidden /\ h \notin distrustedNoted /\ ContractOf(h).kind = "loaded")
    <3>1. d = [rows |-> {}, noted |-> {}]  BY <2>2 DEF Distrust
    <3>2. s.distrusted = {} /\ s.owed \subseteq distrustedNoted  BY <1>2, <2>2, <3>1
    <3> QED  BY <3>2
  <2> QED  BY <2>1, <2>2
<1>3. CASE alarm = NoAlarm \/ Silenced(alarm, h)
  <2>1. s = Quiet  BY <1>3 DEF Sink
  <2> QED  BY <1>1, <2>1 DEF Quiet
<1>4. CASE ~(alarm = NoAlarm \/ Silenced(alarm, h)) /\ (demoted \/ h = Nobody)
  <2>1. s.distrusted = {} /\ s.owed = {}  BY <1>4 DEF Sink, Quiet
  <2> QED  BY <1>1, <2>1
<1>5. CASE ~(alarm = NoAlarm \/ Silenced(alarm, h)) /\ ~(demoted \/ h = Nobody)
  <2>1. s = [rows       |-> {Row(alarm.kind, alarm.severity, h)} \cup ContractRows(alarm, h)
                             \cup (IF hidden THEN {Row("n1-hidden", "red", h)} ELSE {}) \cup d.rows,
             rejected   |-> IF ContractOf(h).kind = "rejected" THEN {h} ELSE {},
             distrusted |-> d.noted,
             marks      |-> IF alarm.kind = "integrity" THEN {h} ELSE {},
             owed       |-> IF hidden /\ ContractOf(h).kind = "loaded" THEN {h} ELSE {}]
    BY <1>5 DEF Sink
  <2> HIDE DEF hidden, d
  <2>2. d.rows \subseteq s.rows /\ s.distrusted = d.noted
        /\ s.owed = IF hidden /\ ContractOf(h).kind = "loaded" THEN {h} ELSE {}
    BY <2>1
  <2> QED  BY <1>2, <2>2 DEF d
<1> QED  BY <1>3, <1>4, <1>5

\* A call tells whom it owes.
LEMMA CallDistrusts ==
    ASSUME DistrustInv, NEW op \in Operations, NEW p, Call(op, p)
    PROVE  DistrustInv'
<1> DEFINE h == Hint(p)
           s == Handled(op, h)
           says == {r.by : r \in {x \in s.rows : x.kind = "m1-contract-distrusted"}}
<1>1. distrustedNoted' = distrustedNoted \cup s.distrusted /\ owed' = owed \cup s.owed /\ told' = told \cup says
  BY DEF Call, Handled
<1>2. s.distrusted \subseteq says /\ s.owed \subseteq says \cup distrustedNoted
  <2>1. CASE Refused(op, h, AlarmOf[op]) \/ Explained(op, h, AlarmOf[op])
    <3>1. s.distrusted = {} /\ s.owed = {}  BY <2>1 DEF Handled, Quiet
    <3> QED  BY <3>1
  <2>2. CASE ~(Refused(op, h, AlarmOf[op]) \/ Explained(op, h, AlarmOf[op]))
    <3>1. s = Sink(AlarmOf[op], h, Demoted(op, h, AlarmOf[op]))  BY <2>2 DEF Handled
    <3> QED  BY <3>1, SinkDistrusts
  <2> QED  BY <2>1, <2>2
<1> HIDE DEF s, says
<1> QED  BY <1>1, <1>2 DEF DistrustInv, DistrustTold

\* A plugin caught while it has an accepted contract has had that contract called
\* distrusted, in any order of findings, edits and verifications.
THEOREM DistrustIsTold == SinkSpec => []DistrustTold
<1>1. SinkInit => DistrustInv  BY DEF SinkInit, DistrustInv, DistrustTold
<1>2. DistrustInv /\ [SinkNext]_sinkVars => DistrustInv'
  <2> SUFFICES ASSUME DistrustInv, [SinkNext]_sinkVars  PROVE DistrustInv'
    OBVIOUS
  <2>1. CASE \E op \in Operations, p \in Plugins \cup {Nobody} : Call(op, p)  BY <2>1, CallDistrusts
  <2>2. CASE ~ \E op \in Operations, p \in Plugins \cup {Nobody} : Call(op, p)
    BY <2>2, OthersAreSilent DEF DistrustInv, DistrustTold
  <2> QED  BY <2>1, <2>2
<1>3. DistrustInv => DistrustTold  BY DEF DistrustInv
<1> QED  BY <1>1, <1>2, <1>3, PTL DEF SinkSpec

-----------------------------------------------------------------------------
(* Types.                                                                  *)

\* What the sink remembers is of a plugin.
LEMMA SinkRemembers ==
    ASSUME NEW alarm, NEW h \in Plugins \cup {Nobody}, NEW demoted
    PROVE  LET s == Sink(alarm, h, demoted)
           IN  /\ s.rejected \subseteq Plugins /\ s.distrusted \subseteq Plugins
               /\ s.marks \subseteq Plugins /\ s.owed \subseteq Plugins
<1> DEFINE s == Sink(alarm, h, demoted)
           d == Distrust(Hidden(alarm, h), h)
<1>1. CASE alarm = NoAlarm \/ Silenced(alarm, h) \/ demoted \/ h = Nobody
  BY <1>1 DEF Sink, Quiet
<1>2. CASE ~(alarm = NoAlarm \/ Silenced(alarm, h) \/ demoted \/ h = Nobody)
  <2>1. h \in Plugins  BY <1>2
  <2>2. d.noted \subseteq {h}  BY DEF Distrust
  <2>3. /\ s.rejected = IF ContractOf(h).kind = "rejected" THEN {h} ELSE {}
        /\ s.distrusted = d.noted
        /\ s.marks = IF alarm.kind = "integrity" THEN {h} ELSE {}
        /\ s.owed = IF Hidden(alarm, h) /\ ContractOf(h).kind = "loaded" THEN {h} ELSE {}
    BY <1>2 DEF Sink
  <2> HIDE DEF s, d
  <2>4. /\ s.rejected \subseteq Plugins /\ s.distrusted \subseteq Plugins
        /\ s.marks \subseteq Plugins /\ s.owed \subseteq Plugins
    BY <2>1, <2>2, <2>3
  <2> QED  BY <2>4 DEF s
<1> QED  BY <1>1, <1>2

\* No alarm is of a kind the sink has for itself.
LEMMA AlarmsAreDetected ==
    ASSUME NEW op \in Operations
    PROVE  AlarmOf[op].kind # "m1-contract-distrusted"
<1>1. AlarmOf[op] = Classify(op) /\ op.mod \in {"fs", "proc", "net"}  BY SinkAssumption DEF AlarmOf
<1>2. CASE op.mod = "fs"
  <2>1. AlarmOf[op] = ClassifyFs(op)  BY <1>1, <1>2 DEF Classify
  <2> DEFINE met == {k \in DOMAIN FsHits(op) : FsHits(op)[k].hit # {}}
  <2>2. CASE op.paths = <<>> \/ met = {}
    <3>1. ClassifyFs(op) = NoAlarm  BY <2>2 DEF ClassifyFs
    <3> QED  BY <2>1, <3>1 DEF NoAlarm, Alarm
  <2>3. CASE op.paths # <<>> /\ met # {}
    <3>1. DOMAIN FsHits(op) = 1..10  BY DEF FsHits
    <3>2. PICK i \in 1..10 : FsHits(op)[i].hit # {}  BY <2>3, <3>1
    <3>3. PICK k \in 1..10 : FsHits(op)[k].hit # {} /\ ClassifyFs(op).kind = FsHits(op)[k].kind
      BY <2>3, <3>2, FsAlarm
    <3>4. FsHits(op)[k].kind \in DetectorKinds \cup {"fs-probe"}
      <4>1. k = 10 \/ k \in 1..9  BY <3>3
      <4>2. CASE k = 10  BY <4>2 DEF FsHits
      <4>3. CASE k \in 1..9  BY <4>3 DEF FsHits, DetectorKinds
      <4> QED  BY <4>1, <4>2, <4>3
    <3> QED  BY <2>1, <3>3, <3>4 DEF DetectorKinds
  <2> QED  BY <2>2, <2>3
<1>3. CASE op.mod = "proc"
  <2>1. AlarmOf[op] = ClassifyProcess(op)  BY <1>1, <1>3 DEF Classify
  <2>2. AlarmOf[op] = NoAlarm \/ AlarmOf[op] = Alarm("yellow", "spawn", Running(op.cmd))
    BY <2>1 DEF ClassifyProcess
  <2> QED  BY <2>2 DEF NoAlarm, Alarm
<1>4. CASE op.mod = "net"
  <2>1. AlarmOf[op] = ClassifyNet(op)  BY <1>1, <1>4 DEF Classify
  <2>2. AlarmOf[op].kind \in {"none", "net-egress"}
    BY <2>1 DEF ClassifyNet, NoAlarm, Alarm
  <2> QED  BY <2>2
<1> QED  BY <1>1, <1>2, <1>3, <1>4

\* Whoever is called distrusted is a plugin.
LEMMA SinkNames ==
    ASSUME NEW alarm, NEW h \in Plugins \cup {Nobody}, NEW demoted, alarm.kind # "m1-contract-distrusted",
           NEW row \in Sink(alarm, h, demoted).rows, row.kind = "m1-contract-distrusted"
    PROVE  row.by \in Plugins
<1>1. CASE alarm = NoAlarm \/ Silenced(alarm, h)
  BY <1>1 DEF Sink, Quiet
<1>2. CASE ~(alarm = NoAlarm \/ Silenced(alarm, h)) /\ demoted
  <2>1. row = Row("official-housekeeping-probe", "info", h)  BY <1>2 DEF Sink, Quiet
  <2> QED  BY <2>1 DEF Row
<1>3. CASE ~(alarm = NoAlarm \/ Silenced(alarm, h)) /\ ~demoted /\ h = Nobody
  <2>1. row = Row(alarm.kind, alarm.severity, h)  BY <1>3 DEF Sink, Quiet
  <2> QED  BY <2>1 DEF Row
<1>4. CASE ~(alarm = NoAlarm \/ Silenced(alarm, h)) /\ ~demoted /\ h # Nobody
  <2>1. row \in {Row(alarm.kind, alarm.severity, h)} \cup ContractRows(alarm, h)
              \cup (IF Hidden(alarm, h) THEN {Row("n1-hidden", "red", h)} ELSE {})
              \cup Distrust(Hidden(alarm, h), h).rows
    BY <1>4 DEF Sink
  <2>2. \E kind, sev : row = Row(kind, sev, h)
    <3>1. CASE row \in ContractRows(alarm, h)  BY <3>1 DEF ContractRows
    <3>2. CASE row \in Distrust(Hidden(alarm, h), h).rows  BY <3>2 DEF Distrust
    <3> QED  BY <2>1, <3>1, <3>2
  <2> QED  BY <1>4, <2>2 DEF Row
<1> QED  BY <1>1, <1>2, <1>3, <1>4

\* A call keeps the types.
LEMMA CallTyped ==
    ASSUME SinkTypeOK, NEW op \in Operations, NEW p \in Plugins \cup {Nobody}, Call(op, p)
    PROVE  SinkTypeOK'
<1> DEFINE h == Hint(p)
           s == Handled(op, h)
           says == {r.by : r \in {x \in s.rows : x.kind = "m1-contract-distrusted"}}
<1>1. h \in Plugins \cup {Nobody}  BY DEF Hint
<1>2. /\ s.rejected \subseteq Plugins /\ s.distrusted \subseteq Plugins
      /\ s.marks \subseteq Plugins /\ s.owed \subseteq Plugins
  <2> HIDE DEF h
  <2>1. CASE Refused(op, h, AlarmOf[op]) \/ Explained(op, h, AlarmOf[op])
    BY <2>1 DEF Handled, Quiet
  <2>2. CASE ~(Refused(op, h, AlarmOf[op]) \/ Explained(op, h, AlarmOf[op]))
    <3>1. s = Sink(AlarmOf[op], h, Demoted(op, h, AlarmOf[op]))  BY <2>2 DEF Handled
    <3> QED  BY <1>1, <3>1, SinkRemembers
  <2> QED  BY <2>1, <2>2
<1>3. Leaker(op, h) \subseteq Plugins  BY <1>1 DEF Leaker, ThirdParty
<1>4. /\ marked' \subseteq Plugins /\ rejectedNoted' \subseteq Plugins
      /\ distrustedNoted' \subseteq Plugins /\ owed' \subseteq Plugins
  <2>1. /\ marked' \subseteq marked \cup s.marks \cup Leaker(op, h)
        /\ rejectedNoted' = rejectedNoted \cup s.rejected
        /\ distrustedNoted' = distrustedNoted \cup s.distrusted
        /\ owed' = owed \cup s.owed
    BY DEF Call, Handled
  <2> HIDE DEF s, h
  <2> QED  BY <1>2, <1>3, <2>1 DEF SinkTypeOK
<1>5. steps' \in 0..MaxSteps /\ trusted' = trusted  BY SinkAssumption DEF Call, Step, SinkTypeOK, world
<1>6. told' \subseteq Plugins
  <2>1. told' = told \cup says  BY DEF Call, Handled
  <2>2. ASSUME NEW row \in s.rows, row.kind = "m1-contract-distrusted"  PROVE row.by \in Plugins
    <3> HIDE DEF h
    <3>1. CASE Refused(op, h, AlarmOf[op])
      <4>1. row = Row("n7-block", "red", h)  BY <2>2, <3>1 DEF Handled, Quiet
      <4> QED  BY <2>2, <4>1 DEF Row
    <3>2. CASE ~Refused(op, h, AlarmOf[op]) /\ Explained(op, h, AlarmOf[op])
      BY <2>2, <3>2 DEF Handled, Quiet
    <3>3. CASE ~(Refused(op, h, AlarmOf[op]) \/ Explained(op, h, AlarmOf[op]))
      <4>1. s = Sink(AlarmOf[op], h, Demoted(op, h, AlarmOf[op]))  BY <3>3 DEF Handled
      <4>2. row \in Sink(AlarmOf[op], h, Demoted(op, h, AlarmOf[op])).rows  BY <2>2, <4>1
      <4> QED  BY <1>1, <2>2, <4>2, AlarmsAreDetected, SinkNames
    <3> QED  BY <3>1, <3>2, <3>3
  <2> HIDE DEF s
  <2> QED  BY <2>1, <2>2 DEF SinkTypeOK
<1> QED  BY <1>4, <1>5, <1>6 DEF SinkTypeOK

\* The marks and memories of the sink are of plugins, for any plugins and
\* operations.
THEOREM SinkTypeCorrect == SinkSpec => []SinkTypeOK
<1>1. SinkInit => SinkTypeOK  BY SinkAssumption DEF SinkInit, SinkTypeOK
<1>2. SinkTypeOK /\ [SinkNext]_sinkVars => SinkTypeOK'
  <2> SUFFICES ASSUME SinkTypeOK, [SinkNext]_sinkVars  PROVE SinkTypeOK'
    OBVIOUS
  <2>1. CASE \E op \in Operations, p \in Plugins \cup {Nobody} : Call(op, p)  BY <2>1, CallTyped
  <2>2. ASSUME NEW f, NEW c, EditContract(f, c)  PROVE SinkTypeOK'
    BY <2>2, SinkAssumption DEF EditContract, Step, SinkTypeOK, notes, past
  <2>3. ASSUME NEW p, NEW m, ScanFiles(p, m)  PROVE SinkTypeOK'
    BY <2>3, SinkAssumption DEF ScanFiles, Step, SinkTypeOK, notes, past
  <2>4. ASSUME NEW p, Verify(p)  PROVE SinkTypeOK'
    BY <2>4, SinkAssumption DEF Verify, Step, SinkTypeOK, notes, past
  <2>5. CASE Tamper  BY <2>5, SinkAssumption DEF Tamper, Step, SinkTypeOK, notes, past
  <2>6. CASE UNCHANGED sinkVars  BY <2>6 DEF sinkVars, world, notes, past, SinkTypeOK
  <2> QED  BY <2>1, <2>2, <2>3, <2>4, <2>5, <2>6 DEF SinkNext
<1> QED  BY <1>1, <1>2, PTL DEF SinkSpec
==============================================================================
