------------------------- MODULE RuntimeHooksProofs -------------------------
(***************************************************************************)
(* Proofs about RuntimeHooks, for any number of copies, layers, plugins    *)
(* and lures, any configured modes, with or without replaced stack hooks.  *)
(*                                                                         *)
(* The argument: an installed layer belongs to its copy, whatever other    *)
(* layers came and went, so a call that passes it meets the copy's marks;  *)
(* and a copy marks exactly whom it found destructive.                     *)
(***************************************************************************)
EXTENDS RuntimeHooks, TLAPS, WellFoundedInduction

\* The layer a copy has installed is its own.
OwnLayers == \A c \in Copies : guard[c] # NoLayer => /\ layer[guard[c]].used
                                                     /\ layer[guard[c]].owner = c

MarksAreFindings == marked = confirmed

HooksInv == TypeOK /\ OwnLayers /\ MarksAreFindings

-----------------------------------------------------------------------------
(* The operators.                                                          *)

\* Collecting keeps the layers a guard holds as they are.
LEMMA CollectedFacts ==
    ASSUME NEW s \in Seq(Layers), NEW L \in [Layers -> Layer],
           NEW G \in [Copies -> Layers \cup {NoLayer}]
    PROVE  /\ Collected(s, L, G) \in [Layers -> Layer]
           /\ \A c \in Copies : G[c] # NoLayer => Collected(s, L, G)[G[c]] = L[G[c]]
<1>1. Unused \in Layer  BY DEF Unused, Layer
<1>2. Collected(s, L, G) \in [Layers -> Layer]  BY <1>1 DEF Collected
<1>3. ASSUME NEW c \in Copies, G[c] # NoLayer  PROVE  Collected(s, L, G)[G[c]] = L[G[c]]
  <2>1. G[c] \in Reachable(s, L, G)  BY <1>3 DEF Reachable
  <2> QED  BY <2>1, <1>3 DEF Collected
<1> QED  BY <1>2, <1>3

LEMMA OnTopType ==
    ASSUME NEW c \in Copies \cup {NoCopy}, NEW s \in Seq(Layers)
    PROVE  OnTop(c, s) \in Layer /\ OnTop(c, s).used /\ OnTop(c, s).owner = c
BY DEF OnTop, Layer

\* Among some positions there is a first one.
LEMMA FirstOf ==
    ASSUME NEW T, T \subseteq Nat, T # {}
    PROVE  \E k \in T : \A j \in T : ~ (j < k)
<1> DEFINE R == {ss \in Nat \X Nat : ss[1] < ss[2]}
<1>1. IsWellFoundedOn(R, Nat)  BY NatLessThanWellFounded DEF OpToRel
<1> HIDE DEF R
<1>2. PICK k \in T : \A j \in T : ~ (<<j, k>> \in R)  BY <1>1, WFMin
<1>3. \A j \in T : j < k => <<j, k>> \in R
  BY DEF R
<1> QED  BY <1>2, <1>3

\* A call that some wrapper in its way would stop is stopped by some wrapper.
LEMMA SomeoneStops ==
    ASSUME TypeOK, NEW h, NEW op, NEW i \in DOMAIN slot, Stops(i, h, op)
    PROVE  Refusers(h, op) # {}
<1> DEFINE T == {k \in DOMAIN slot : Stops(k, h, op)}
<1>1. T \subseteq Nat /\ T # {} /\ DOMAIN slot = 1..Len(slot) /\ Len(slot) \in Nat
  BY DEF TypeOK
<1> HIDE DEF T
<1>2. PICK k \in T : \A j \in T : ~ (j < k)  BY <1>1, FirstOf
<1>3. k \in DOMAIN slot /\ Stops(k, h, op)  BY DEF T
<1>4. \A j \in 1..(k - 1) : ~Stops(j, h, op)
  <2> SUFFICES ASSUME NEW j \in 1..(k - 1), Stops(j, h, op)  PROVE FALSE  OBVIOUS
  <2>1. k \in 1..Len(slot)  BY <1>1, <1>3
  <2>2. j \in DOMAIN slot /\ j < k  BY <1>1, <2>1
  <2> QED  BY <1>2, <2>2 DEF T
<1>5. Owner(k) \in Refusers(h, op)  BY <1>3, <1>4 DEF Refusers
<1> QED  BY <1>5

\* Who refuses a call is a copy and has its reason.
LEMMA RefusersFacts ==
    ASSUME TypeOK, NEW h, NEW op, NEW c \in Refusers(h, op)
    PROVE  /\ c \in Copies
           /\ \E i \in DOMAIN slot : Owner(i) = c /\ Refuses(c, h, op, MarkedAt(i, h, op))
<1>1. PICK i \in DOMAIN slot : c = Owner(i) /\ Stops(i, h, op)  BY DEF Refusers
<1>2. slot[i] \in Layers  BY DEF TypeOK
<1>3. Owner(i) \in Copies \cup {NoCopy}  BY <1>2 DEF TypeOK, Layer, Owner
<1> QED  BY <1>1, <1>3 DEF Stops

LEMMA PassedCopies ==
    ASSUME TypeOK, NEW h, NEW op
    PROVE  {Owner(i) : i \in Passed(h, op)} \subseteq Copies
<1> SUFFICES ASSUME NEW i \in Passed(h, op)  PROVE Owner(i) \in Copies  OBVIOUS
<1>1. i \in DOMAIN slot /\ Owner(i) # NoCopy  BY DEF Passed
<1>2. slot[i] \in Layers  BY <1>1 DEF TypeOK
<1> QED  BY <1>1, <1>2 DEF TypeOK, Layer, Owner

\* A new finding marks plugins only.
LEMMA MarkFamily1Facts ==
    ASSUME HooksInv, NEW C \in SUBSET Copies, NEW h \in Plugins \cup {Nobody},
           C # {} => h # Nobody, MarkFamily1(C, h)
    PROVE  /\ marked' \in [Copies -> SUBSET Plugins]
           /\ confirmed' = marked'
<1>1. \A c \in Copies : (IF c \in C THEN {h} ELSE {}) \subseteq Plugins  OBVIOUS
<1>2. marked \in [Copies -> SUBSET Plugins] /\ marked = confirmed
  BY DEF HooksInv, TypeOK, MarksAreFindings
<1> QED  BY <1>1, <1>2 DEF MarkFamily1

-----------------------------------------------------------------------------
(* The invariant.                                                          *)

LEMMA InitHooks == Init => HooksInv
<1> SUFFICES ASSUME Init PROVE HooksInv  OBVIOUS
<1>1. Unused \in Layer  BY DEF Unused, Layer
<1>2. slot \in Seq(Layers) /\ layer \in [Layers -> Layer]
      /\ guard \in [Copies -> Layers \cup {NoLayer}]
  <2>1. slot = <<>> /\ layer = [l \in Layers |-> Unused] /\ guard = [c \in Copies |-> NoLayer]
    BY DEF Init
  <2> QED  BY <1>1, <2>1
<1>3. made \in 0..MaxLures /\ lure \in 0..made  BY HooksAssumption DEF Init
<1>4. TypeOK  BY <1>2, <1>3 DEF Init, TypeOK
<1>5. OwnLayers  BY DEF Init, OwnLayers
<1> QED  BY <1>4, <1>5 DEF HooksInv, Init, MarksAreFindings

\* What the slot holds once a guard is off.
LEMMA RestoredType ==
    ASSUME TypeOK, NEW c \in Copies  PROVE Restored(c) \in Seq(Layers)
<1>1. CASE guard[c] = NoLayer  BY <1>1 DEF Restored, TypeOK
<1>2. CASE guard[c] # NoLayer
  <2>1. guard[c] \in Layers  BY <1>2 DEF TypeOK
  <2>2. layer[guard[c]].under \in Seq(Layers)  BY <2>1 DEF TypeOK, Layer
  <2> QED  BY <1>2, <2>2 DEF Restored
<1> QED  BY <1>1, <1>2

\* The part of the invariant about the slot and its layers.
Stacked == /\ slot \in Seq(Layers) /\ layer \in [Layers -> Layer]
           /\ guard \in [Copies -> Layers \cup {NoLayer}]
           /\ OwnLayers

LEMMA InstallStacks ==
    ASSUME HooksInv, NEW c \in Copies, NEW l \in Layers, NEW m \in Modes, Install(c, l, m)
    PROVE  Stacked'
<1> DEFINE below == Restored(c)
           G == [guard EXCEPT ![c] = l]
           L == [layer EXCEPT ![l] = OnTop(c, below)]
<1>1. TypeOK /\ OwnLayers  BY DEF HooksInv
<1>2. below \in Seq(Layers)  BY <1>1, RestoredType
<1>3. <<l>> \o below \in Seq(Layers)  BY <1>2
<1>4. OnTop(c, below) \in Layer /\ OnTop(c, below).used /\ OnTop(c, below).owner = c
  BY <1>2, OnTopType
<1>5. slot' = <<l>> \o below /\ guard' = G /\ layer' = Collected(<<l>> \o below, L, G)
      /\ ~layer[l].used
  BY DEF Install
<1> HIDE DEF below
<1>6. L \in [Layers -> Layer] /\ G \in [Copies -> Layers \cup {NoLayer}]
  BY <1>1, <1>4 DEF TypeOK
<1>7. \A d \in Copies : G[d] # NoLayer => L[G[d]].used /\ L[G[d]].owner = d
  <2> SUFFICES ASSUME NEW d \in Copies, G[d] # NoLayer
               PROVE  L[G[d]].used /\ L[G[d]].owner = d
    OBVIOUS
  <2>1. CASE d = c  BY <2>1, <1>1, <1>4 DEF TypeOK
  <2>2. CASE d # c
    <3>1. G[d] = guard[d] /\ guard[d] \in Layers  BY <2>2, <1>1 DEF TypeOK
    <3>2. layer[guard[d]].used /\ layer[guard[d]].owner = d  BY <3>1, <1>1 DEF OwnLayers
    <3>3. L[guard[d]] = layer[guard[d]]  BY <3>1, <3>2, <1>1, <1>5 DEF TypeOK
    <3> QED  BY <3>1, <3>2, <3>3
  <2> QED  BY <2>1, <2>2
<1> HIDE DEF G, L
<1>8. layer' \in [Layers -> Layer] /\ \A d \in Copies : G[d] # NoLayer => layer'[G[d]] = L[G[d]]
  BY <1>3, <1>5, <1>6, CollectedFacts
<1> QED  BY <1>3, <1>5, <1>6, <1>7, <1>8 DEF Stacked, OwnLayers

LEMMA UninstalledStacks ==
    ASSUME HooksInv, NEW c \in Copies, Uninstalled(c)  PROVE Stacked'
<1> DEFINE G == [guard EXCEPT ![c] = NoLayer]
<1>1. TypeOK /\ OwnLayers  BY DEF HooksInv
<1>2. slot' \in Seq(Layers)  BY <1>1, RestoredType DEF Uninstalled
<1>3. guard' = G /\ layer' = Collected(slot', layer, G)  BY DEF Uninstalled
<1>4. G \in [Copies -> Layers \cup {NoLayer}] /\ layer \in [Layers -> Layer]
  BY <1>1 DEF TypeOK
<1>5. \A d \in Copies : G[d] # NoLayer => G[d] = guard[d]  BY <1>1 DEF TypeOK
<1> HIDE DEF G
<1>6. layer' \in [Layers -> Layer]
      /\ \A d \in Copies : G[d] # NoLayer => layer'[G[d]] = layer[G[d]]
  BY <1>2, <1>3, <1>4, CollectedFacts
<1> QED  BY <1>1, <1>2, <1>3, <1>4, <1>5, <1>6 DEF Stacked, OwnLayers

\* The other plugins' patches.
LEMMA WrapStacks ==
    ASSUME HooksInv, NEW l \in Layers, Wrap(l)  PROVE Stacked'
<1>1. TypeOK /\ OwnLayers  BY DEF HooksInv
<1>2. ~layer[l].used /\ slot' = <<l>> \o slot /\ guard' = guard
      /\ layer' = [layer EXCEPT ![l] = OnTop(NoCopy, slot)]
  BY DEF Wrap
<1>3. slot' \in Seq(Layers)  BY <1>1, <1>2 DEF TypeOK
<1>4. OnTop(NoCopy, slot) \in Layer  BY <1>1, OnTopType DEF TypeOK
<1>5. layer' \in [Layers -> Layer]  BY <1>1, <1>2, <1>4 DEF TypeOK
<1>6. \A c \in Copies : guard[c] # NoLayer => layer'[guard[c]] = layer[guard[c]]
  BY <1>1, <1>2 DEF OwnLayers, TypeOK
<1> QED  BY <1>1, <1>2, <1>3, <1>5, <1>6 DEF Stacked, OwnLayers, TypeOK

LEMMA ReplaceStacks ==
    ASSUME HooksInv, NEW l \in Layers, Replace(l)  PROVE Stacked'
<1> DEFINE L == [layer EXCEPT ![l] = Replacement]
<1>1. TypeOK /\ OwnLayers  BY DEF HooksInv
<1>2. ~layer[l].used /\ slot' = <<l>> /\ guard' = guard /\ layer' = Collected(slot', L, guard)
  BY DEF Replace
<1>3. slot' \in Seq(Layers)  BY <1>2
<1>4. Replacement \in Layer  BY DEF Replacement, Layer
<1>5. L \in [Layers -> Layer]  BY <1>1, <1>4 DEF TypeOK
<1>6. \A c \in Copies : guard[c] # NoLayer => L[guard[c]] = layer[guard[c]]
  BY <1>1, <1>2 DEF OwnLayers, TypeOK
<1> HIDE DEF L
<1>7. layer' \in [Layers -> Layer]
      /\ \A c \in Copies : guard[c] # NoLayer => layer'[guard[c]] = L[guard[c]]
  BY <1>1, <1>2, <1>3, <1>5, CollectedFacts DEF TypeOK
<1> QED  BY <1>1, <1>2, <1>3, <1>6, <1>7 DEF Stacked, OwnLayers, TypeOK

LEMMA UndoStacks ==
    ASSUME HooksInv, NEW l \in Layers, Undo(l)  PROVE Stacked'
<1> DEFINE L == [layer EXCEPT ![l].undone = TRUE]
<1>1. TypeOK /\ OwnLayers  BY DEF HooksInv
<1>2. slot' = layer[l].under /\ guard' = guard /\ layer' = Collected(slot', L, guard)
      /\ layer[l].owner = NoCopy
  BY DEF Undo
<1>3. slot' \in Seq(Layers)  BY <1>1, <1>2 DEF TypeOK, Layer
<1>4. L \in [Layers -> Layer]  BY <1>1 DEF TypeOK, Layer
<1>5. \A c \in Copies : guard[c] # NoLayer => L[guard[c]] = layer[guard[c]]
  BY <1>1, <1>2, HooksAssumption DEF OwnLayers, TypeOK
<1> HIDE DEF L
<1>6. layer' \in [Layers -> Layer]
      /\ \A c \in Copies : guard[c] # NoLayer => layer'[guard[c]] = L[guard[c]]
  BY <1>1, <1>2, <1>3, <1>4, CollectedFacts DEF TypeOK
<1> QED  BY <1>1, <1>2, <1>3, <1>5, <1>6 DEF Stacked, OwnLayers, TypeOK

-----------------------------------------------------------------------------
(* Calls, findings and the rest.                                           *)

\* Findings judged when a body was read, or when the call returned, are about
\* plugins.
LEMMA CallMarks ==
    ASSUME HooksInv, NEW p \in Plugins \cup {Nobody}, NEW op \in Ops, NEW g \in 0..made,
           NEW ransom \in SUBSET Copies, Call(p, op, g, ransom)
    PROVE  /\ marked' \in [Copies -> SUBSET Plugins] /\ confirmed' = marked'
           /\ scans' \subseteq Copies \X (Plugins \cup {Nobody}) \X (1..made)
<1> DEFINE h == Hint(p)
           C == {Owner(i) : i \in Passed(h, op)}
           found == IF Touches(op) THEN C
                    ELSE IF op = "send" THEN {c \in C : g \in known[c]} ELSE C \cap ransom
           D == {c \in found : Confirms(c, h)}
<1>1. TypeOK  BY DEF HooksInv
<1>2. h \in Plugins \cup {Nobody}  BY DEF Hint
<1>3. C \subseteq Copies  BY <1>1, PassedCopies
<1>4. /\ op \in NetOps <=> g # 0
      /\ MarkFamily1(D, h)
      /\ IF op = "stream" THEN scans = {} /\ scans' = {<<c, h, g>> : c \in C} ELSE UNCHANGED scans
  BY DEF Call
<1> HIDE DEF h, C
<1>5. D \in SUBSET Copies /\ (D # {} => h # Nobody)  BY <1>3 DEF Confirms
<1> HIDE DEF D, found
<1>6. marked' \in [Copies -> SUBSET Plugins] /\ confirmed' = marked'
  BY <1>2, <1>4, <1>5, MarkFamily1Facts
<1>7. CASE op = "stream"
  <2>1. op \in NetOps  BY <1>7 DEF NetOps
  <2>2. made \in Nat  BY <1>1, HooksAssumption DEF TypeOK
  <2>3. g \in 1..made  BY <1>4, <2>1, <2>2
  <2> QED  BY <1>2, <1>3, <1>4, <1>6, <1>7, <2>3
<1>8. CASE op # "stream"  BY <1>1, <1>4, <1>6, <1>8 DEF TypeOK
<1> QED  BY <1>7, <1>8

LEMMA BodyReadMarks ==
    ASSUME HooksInv, NEW s \in scans, BodyRead(s)
    PROVE  marked' \in [Copies -> SUBSET Plugins] /\ confirmed' = marked'
<1> DEFINE C == IF s[3] \in known[s[1]] /\ Confirms(s[1], s[2]) THEN {s[1]} ELSE {}
<1>1. s[1] \in Copies /\ s[2] \in Plugins \cup {Nobody}  BY DEF HooksInv, TypeOK
<1>2. C \in SUBSET Copies /\ (C # {} => s[2] # Nobody)  BY <1>1 DEF Confirms
<1>3. MarkFamily1(C, s[2])  BY DEF BodyRead
<1> HIDE DEF C
<1> QED  BY <1>1, <1>2, <1>3, MarkFamily1Facts

LEMMA LuresType ==
    ASSUME TypeOK, NEW c \in Copies, Lures(c)
    PROVE  /\ made' \in 0..MaxLures /\ lure' \in 0..made' /\ made' \in Nat /\ made <= made'
           /\ known' \in [Copies -> SUBSET (1..made')]
<1>1. made \in Nat /\ MaxLures \in Nat /\ made <= MaxLures  BY HooksAssumption DEF TypeOK
<1>2. CASE UNCHANGED traps  BY <1>1, <1>2 DEF TypeOK, traps
<1>3. CASE /\ made < MaxLures
           /\ made' = made + 1 /\ lure' = made'
           /\ known' = [known EXCEPT ![c] = @ \cup {made'}]
  <2>1. 1..made \subseteq 1..made' /\ made' \in 1..made'  BY <1>1, <1>3
  <2>2. known \in [Copies -> SUBSET (1..made)]  BY DEF TypeOK
  <2>3. \A d \in Copies : known'[d] \subseteq 1..made'  BY <1>3, <2>1, <2>2
  <2> QED  BY <1>1, <1>3, <2>1, <2>2, <2>3
<1> QED  BY <1>2, <1>3 DEF Lures

\* Every step keeps the invariant.
LEMMA NextHooks ==
    ASSUME HooksInv, [Next]_vars  PROVE HooksInv'
<1>1. TypeOK /\ OwnLayers /\ marked = confirmed  BY DEF HooksInv, MarksAreFindings
<1>2. ASSUME Stacked', NEW c \in Copies, NEW m \in Modes, Lures(c),
             mode' = [mode EXCEPT ![c] = m], reported' \in [Copies -> BOOLEAN],
             UNCHANGED <<proof, world, scans>>
      PROVE  HooksInv'
  <2>1. UNCHANGED <<marked, confirmed, trusted, tampered, scans>>  BY <1>2 DEF proof, world
  <2>2. /\ made' \in 0..MaxLures /\ lure' \in 0..made' /\ made' \in Nat /\ made <= made'
        /\ known' \in [Copies -> SUBSET (1..made')]
    BY <1>1, <1>2, LuresType
  <2>3. mode' \in [Copies -> {"alarm", "block", "strict"}]
    BY <1>1, <1>2, HooksAssumption DEF TypeOK
  <2>4. scans' \subseteq Copies \X (Plugins \cup {Nobody}) \X (1..made')
    <3>1. made \in Nat  BY <1>1, HooksAssumption DEF TypeOK
    <3>2. 1..made \subseteq 1..made'  BY <2>2, <3>1
    <3> QED  BY <1>1, <2>1, <3>2 DEF TypeOK
  <2> QED  BY <1>1, <1>2, <2>1, <2>2, <2>3, <2>4 DEF HooksInv, TypeOK, Stacked, MarksAreFindings
<1>3. ASSUME Stacked', UNCHANGED <<mode, proof, traps, world, scans, reported>>
      PROVE  HooksInv'
  BY <1>1, <1>3 DEF HooksInv, TypeOK, Stacked, MarksAreFindings, proof, traps, world
<1>4. ASSUME NEW c \in Copies, Dispose(c)  PROVE HooksInv'
  BY <1>3, <1>4, UninstalledStacks DEF Dispose
<1>5. ASSUME NEW l \in Layers, Wrap(l) \/ Replace(l) \/ Undo(l)  PROVE HooksInv'
  <2>1. Stacked'  BY <1>5, WrapStacks, ReplaceStacks, UndoStacks
  <2> QED  BY <1>3, <1>5, <2>1 DEF Wrap, Replace, Undo
<1>6. ASSUME NEW c \in Copies, Heartbeat(c)  PROVE HooksInv'
  BY <1>1, <1>6 DEF Heartbeat, Intact, HooksInv, TypeOK, OwnLayers, MarksAreFindings,
                    hooks, proof, traps, world
<1>7. ASSUME NEW p \in Plugins \cup {Nobody}, NEW op \in Ops, NEW g \in 0..made,
             NEW ransom \in SUBSET Copies, Call(p, op, g, ransom)
      PROVE  HooksInv'
  <2>1. UNCHANGED <<hooks, traps, world, reported>>  BY <1>7 DEF Call
  <2> QED  BY <1>1, <1>7, <2>1, CallMarks DEF HooksInv, TypeOK, OwnLayers, MarksAreFindings,
                                              hooks, traps, world
<1>8. ASSUME NEW s \in scans, BodyRead(s)  PROVE HooksInv'
  <2>1. UNCHANGED <<hooks, traps, world, reported>> /\ scans' = scans \ {s}  BY <1>8 DEF BodyRead
  <2> QED  BY <1>1, <1>8, <2>1, BodyReadMarks DEF HooksInv, TypeOK, OwnLayers, MarksAreFindings,
                                                  hooks, traps, world
<1>9. ASSUME NEW c \in Copies, NEW p \in Plugins, Trust(c, p)  PROVE HooksInv'
  BY <1>1, <1>9 DEF Trust, HooksInv, TypeOK, OwnLayers, MarksAreFindings, hooks, proof, traps
<1>10. ASSUME Tamper \/ LuresDeleted  PROVE HooksInv'
  <2>1. made \in Nat  BY <1>1, HooksAssumption DEF TypeOK
  <2>2. CASE Tamper
    BY <1>1, <2>2 DEF Tamper, HooksInv, TypeOK, OwnLayers, MarksAreFindings, hooks, proof, traps
  <2>3. CASE LuresDeleted
    <3>1. lure' = 0 /\ 0 \in 0..made  BY <2>1, <2>3 DEF LuresDeleted
    <3>2. UNCHANGED <<slot, layer, guard, mode, marked, confirmed, known, made, trusted, tampered,
                      scans, reported>>
      BY <2>3 DEF LuresDeleted, hooks, proof, world
    <3> QED  BY <1>1, <3>1, <3>2 DEF HooksInv, TypeOK, OwnLayers, MarksAreFindings
  <2> QED  BY <1>10, <2>2, <2>3
<1>11. ASSUME Restart  PROVE HooksInv'
  <2>1. Unused \in Layer  BY DEF Unused, Layer
  <2>2. Stacked'
    <3>1. slot' = <<>> /\ layer' = [l \in Layers |-> Unused] /\ guard' = [c \in Copies |-> NoLayer]
      BY <1>11 DEF Restart
    <3> QED  BY <2>1, <3>1 DEF Stacked, OwnLayers
  <2>3. /\ mode' = [c \in Copies |-> "block"] /\ reported' = [c \in Copies |-> FALSE]
        /\ marked' = [c \in Copies |-> {}] /\ confirmed' = marked'
        /\ trusted' = [c \in Copies |-> {}] /\ known' = [c \in Copies |-> {}]
        /\ tampered' = FALSE /\ scans' = {} /\ UNCHANGED <<lure, made>>
    BY <1>11 DEF Restart
  <2>4. TypeOK'  BY <1>1, <2>2, <2>3 DEF TypeOK, Stacked
  <2> QED  BY <2>2, <2>3, <2>4 DEF HooksInv, Stacked, MarksAreFindings
<1>12. CASE UNCHANGED vars
  BY <1>1, <1>12 DEF HooksInv, TypeOK, OwnLayers, MarksAreFindings, vars, hooks, proof, traps, world
<1>13. ASSUME NEW c \in Copies, NEW l \in Layers, NEW m \in Modes, Install(c, l, m)
       PROVE  HooksInv'
  <2>1. Stacked'  BY <1>13, InstallStacks
  <2>2. reported' \in [Copies -> BOOLEAN]  BY <1>1, <1>13 DEF Install, TypeOK
  <2> QED  BY <1>2, <1>13, <2>1, <2>2 DEF Install
<1>14. ASSUME NEW c \in Copies, NEW m \in Modes, InstallFails(c, m)  PROVE HooksInv'
  <2>1. Stacked'  BY <1>14, UninstalledStacks DEF InstallFails
  <2>2. reported' \in [Copies -> BOOLEAN]  BY <1>1, <1>14 DEF InstallFails, TypeOK
  <2> QED  BY <1>2, <1>14, <2>1, <2>2 DEF InstallFails
<1> QED  BY <1>4, <1>5, <1>6, <1>7, <1>8, <1>9, <1>10, <1>11, <1>12, <1>13, <1>14 DEF Next

-----------------------------------------------------------------------------
(* What the invariant gives.                                               *)

LEMMA HooksConfirmed ==
    ASSUME HooksInv  PROVE ConfirmedIsStopped
<1> SUFFICES ASSUME NEW c \in Copies, NEW p \in confirmed[c], NEW op \in Destructive,
                    guard[c] \in Elems(slot), mode[c] # "alarm", ~tampered, p \notin trusted[c]
             PROVE  Refusers(Hint(p), op) # {}
  BY DEF ConfirmedIsStopped
<1>1. TypeOK /\ OwnLayers /\ marked = confirmed  BY DEF HooksInv, MarksAreFindings
<1>2. PICK i \in DOMAIN slot : slot[i] = guard[c]  BY DEF Elems
<1>3. Owner(i) = c /\ c # NoCopy
  <2>1. guard[c] \in Layers  BY <1>1, <1>2 DEF TypeOK
  <2>2. guard[c] # NoLayer  BY <2>1, HooksAssumption
  <2> QED  BY <1>1, <1>2, <2>2, HooksAssumption DEF OwnLayers, Owner
<1>4. p \in Plugins /\ p # Nobody /\ Hint(p) = p  BY <1>1, HooksAssumption DEF TypeOK, Hint
<1>5. p \in MarkedAt(i, p, op)  BY <1>1, <1>3 DEF MarkedAt
<1>6. Refuses(c, p, op, MarkedAt(i, p, op))  BY <1>4, <1>5 DEF Refuses
<1>7. Stops(i, p, op)  BY <1>3, <1>6 DEF Stops
<1> QED  BY <1>1, <1>4, <1>7, SomeoneStops

LEMMA HooksNoFalse ==
    ASSUME HooksInv  PROVE NoFalseIntercept
<1> SUFFICES ASSUME ~tampered, NEW p \in Plugins \cup {Nobody}, NEW op \in Ops,
                    NEW c \in Refusers(p, op)
             PROVE  p \in Plugins \ trusted[c] /\ (op = "delete" => p \in confirmed[c])
  BY DEF NoFalseIntercept
<1>1. TypeOK /\ marked = confirmed  BY DEF HooksInv, MarksAreFindings
<1>2. PICK i \in DOMAIN slot : Owner(i) = c /\ Refuses(c, p, op, MarkedAt(i, p, op))
  BY <1>1, RefusersFacts
<1>3. p \in Plugins \ trusted[c]  BY <1>2 DEF Refuses
<1>4. ASSUME op = "delete"  PROVE p \in confirmed[c]
  <2>1. p \in MarkedAt(i, p, op)  BY <1>2, <1>4 DEF Refuses
  <2>2. MarkedAt(i, p, op) = marked[c]  BY <1>2, <1>4 DEF MarkedAt, Touches
  <2> QED  BY <1>1, <2>1, <2>2
<1> QED  BY <1>3, <1>4

LEMMA HooksAlways == Spec => []HooksInv
BY InitHooks, NextHooks, PTL DEF Spec

\* The slot, its layers, the marks and the traps keep their types in every
\* reachable state.
THEOREM HooksType == Spec => []TypeOK
<1>1. HooksInv => TypeOK  BY DEF HooksInv
<1> QED  BY <1>1, HooksAlways, PTL

\* However guards and foreign patches pile up and go, a plugin that a copy
\* found destructive has each of its destructive calls refused while the copy's
\* wrapper is in the way, blocks, and knows who calls.
THEOREM HooksConfirmedIsStopped == Spec => []ConfirmedIsStopped
BY HooksAlways, HooksConfirmed, PTL

\* No call of the host, the user or a verified package is ever refused, and an
\* ordinary file is protected from plugins found destructive only, unless the
\* stack hooks are replaced.
THEOREM HooksNoFalseIntercept == Spec => []NoFalseIntercept
BY HooksAlways, HooksNoFalse, PTL

=============================================================================
