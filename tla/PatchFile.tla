------------------------------ MODULE PatchFile ------------------------------
(***************************************************************************)
(* cordis.patch.yml, as far as vet's switch tells its texts apart, and the *)
(* line surgery of status-route.ts on it.  A document is a list of entries *)
(* of one kind each:                                                       *)
(*   "plain"   an entry of somebody else                                   *)
(*   "tagged"  one with a !!js tag, which only the tolerant schema reads   *)
(*   "vet"     vet's own, of the form "block" (config: and lines under     *)
(*             it), "inline" (config: {...}) or "bare" (no config yet),    *)
(*             with its two switched keys and whether its config has more. *)
(* It may be cut by a line of dashes, or be no YAML at all; that nobody    *)
(* has written it yet is a document too.  At most one entry is vet's.      *)
(***************************************************************************)
EXTENDS Naturals, Sequences, SequencesExt, FiniteSets

Tiers == {"standard", "hardened", "paranoid"}

Entry(kind) == [kind |-> kind, form |-> "none", profile |-> "none", guard |-> "none", more |-> FALSE]
VetEntry(form, profile, guard, more) ==
    [kind |-> "vet", form |-> form, profile |-> profile, guard |-> guard, more |-> more]

Document(entries) == [written |-> TRUE, dashes |-> FALSE, broken |-> FALSE, entries |-> entries]
NoFile == [Document(<<>>) EXCEPT !.written = FALSE]

\* What a document may be: vet's entry, if there is one, has one of its forms.
Entries ==
    [kind : {"plain", "tagged"}, form : {"none"}, profile : {"none"}, guard : {"none"}, more : {FALSE}] \cup
    [kind : {"vet"}, form : {"block", "inline", "bare"}, profile : Tiers \cup {"none"},
     guard : {"none", "off", "watch"}, more : BOOLEAN]

VetEntries(doc) == {n \in DOMAIN doc.entries : doc.entries[n].kind = "vet"}
HasVet(doc) == VetEntries(doc) # {}
IsDocument(doc) ==
    /\ doc \in [written : BOOLEAN, dashes : BOOLEAN, broken : BOOLEAN, entries : Seq(Entries)]
    /\ \A m, n \in VetEntries(doc) : m = n
VetAt(doc) == CHOOSE n \in VetEntries(doc) : TRUE
Vet(doc) == doc.entries[VetAt(doc)]
IsInline(doc) == HasVet(doc) /\ Vet(doc).form = "inline"
Others(doc) == IF HasVet(doc) THEN RemoveAt(doc.entries, VetAt(doc)) ELSE doc.entries

\* ---- what reads it ----

\* The lines of an inline or bare entry do not show its keys.
LineOf(doc, key) == IF HasVet(doc) /\ Vet(doc).form = "block" THEN Vet(doc)[key] ELSE "none"

ReadProfileInPatch(doc) == LineOf(doc, "profile")
ReadPatchRuntimeGuard(doc) == IF LineOf(doc, "guard") = "watch" THEN "watch" ELSE "off"

\* readPatchVetKeys: what the user set himself, so that no preset replaces it.
ReadPatchVetKeys(doc) == {key \in {"profile", "guard"} : LineOf(doc, key) # "none"}

(***************************************************************************)
(* What the next start makes of the document: the loader takes the keys of *)
(* vet's entry, inline or not, and applyProfile lets the preset of the     *)
(* tier replace a guard left at its default, unless it is explicit.        *)
(***************************************************************************)
Started(doc) ==
    LET has == HasVet(doc) /\ Vet(doc).form # "bare"
        profile == IF has /\ Vet(doc).profile # "none" THEN Vet(doc).profile ELSE "standard"
        guard == IF has /\ Vet(doc).guard = "watch" THEN "watch" ELSE "off"
        preset == profile # "standard" /\ "guard" \notin ReadPatchVetKeys(doc)
    IN  [profile |-> profile, guard |-> IF preset THEN "watch" ELSE guard]

\* ---- what writes it ----

Kept(doc) == [doc |-> doc, repaired |-> FALSE, refused |-> FALSE]
Spliced(doc, entries) ==
    [doc |-> [doc EXCEPT !.written = TRUE, !.entries = entries], repaired |-> FALSE, refused |-> FALSE]

SetVet(doc, entry) == Spliced(doc, [doc.entries EXCEPT ![VetAt(doc)] = entry])
Appended(doc, entry) == Spliced(doc, Append(doc.entries, entry))

(***************************************************************************)
(* reconstructVetOnly: parsed with the plain schema and dumped again.  A   *)
(* parse that fails leaves nothing of the rest and nothing of vet's keys.  *)
(* The switched key goes into a config that was parsed; without one, the   *)
(* guard alone is written in any case, and a tier is lost: `config: {}`.   *)
(***************************************************************************)
Unparsable(doc) == doc.broken \/ \E n \in DOMAIN doc.entries : doc.entries[n].kind = "tagged"

EmptyConfig == VetEntry("inline", "none", "none", FALSE)

Rescued(key, value) == IF key = "guard" THEN VetEntry("block", "none", value, FALSE) ELSE EmptyConfig

Reconstructed(doc, key, value) ==
    IF doc.dashes THEN [Kept(doc) EXCEPT !.refused = TRUE]
    ELSE LET entries == IF Unparsable(doc) THEN <<Rescued(key, value)>>
                        ELSE Append(Others(doc), [Vet(doc) EXCEPT !.form = "block", ![key] = value])
         IN  [doc |-> Document(entries), repaired |-> TRUE, refused |-> FALSE]

\* Mutant: the entry goes with the key, whatever else it says.
DroppedWhole(doc, key) == Spliced(doc, Others(doc))

\* A key taken out; an entry that says nothing else goes with it.
Dropped(doc, key) ==
    LET left == [Vet(doc) EXCEPT ![key] = "none"]
    IN  IF left.profile = "none" /\ left.guard = "none" /\ ~left.more
        THEN Spliced(doc, Others(doc))
        ELSE SetVet(doc, left)

\* A key put on its line, or under config; inline has no place for it.
PutKey(doc, key, value) ==
    IF IsInline(doc) THEN Reconstructed(doc, key, value)
    ELSE SetVet(doc, [Vet(doc) EXCEPT !.form = "block", ![key] = value])

SpliceRuntimeGuardText(doc, enable) ==
    IF doc.dashes THEN [Kept(doc) EXCEPT !.refused = TRUE]
    ELSE IF ~HasVet(doc)
         THEN IF enable THEN Appended(doc, VetEntry("block", "hardened", "watch", FALSE)) ELSE Kept(doc)
    ELSE IF enable THEN PutKey(doc, "guard", "watch")
    ELSE IF LineOf(doc, "guard") = "none" THEN Kept(doc) ELSE Dropped(doc, "guard")

SpliceProfile(doc, tier) ==
    IF doc.dashes THEN [Kept(doc) EXCEPT !.refused = TRUE]
    ELSE IF ~HasVet(doc)
         THEN IF tier = "standard" THEN Kept(doc) ELSE Appended(doc, VetEntry("block", tier, "none", FALSE))
    ELSE IF tier = "standard"
         THEN IF LineOf(doc, "profile") = "none" THEN Kept(doc) ELSE Dropped(doc, "profile")
    ELSE PutKey(doc, "profile", tier)

\* ---- the two writers, up to the write ----

Both(first, second) ==
    [doc |-> second.doc, repaired |-> first.repaired \/ second.repaired, refused |-> first.refused \/ second.refused]

\* writeRuntimeGuardConfig: on lifts a standard tier and keeps a higher one.
Switched(doc, enable) ==
    LET lift == enable /\ ReadProfileInPatch(doc) \in {"none", "standard"}
        first == IF ~enable THEN SpliceProfile(doc, "standard")
                 ELSE IF lift THEN SpliceProfile(doc, "hardened") ELSE Kept(doc)
    IN  [plan |-> Both(first, SpliceRuntimeGuardText(first.doc, enable)),
         profile |-> IF ~enable THEN "standard" ELSE IF lift THEN "hardened" ELSE ReadProfileInPatch(doc)]

\* Mutant: the tier is written and the line of the guard is forgotten.
TieredAlone(doc, tier) ==
    [plan |-> SpliceProfile([doc EXCEPT !.written = TRUE], tier), profile |-> tier]

\* writeVetTierConfig: what the second splice did is not asked.
Tiered(doc, tier) ==
    LET first == SpliceProfile([doc EXCEPT !.written = TRUE], tier)
    IN  [plan |-> [first EXCEPT !.doc = SpliceRuntimeGuardText(first.doc, tier # "standard").doc],
         profile |-> tier]

\* validateYaml, before anything is written.
Valid(doc) == ~doc.broken

=============================================================================
