---------------------------- MODULE RuntimeHooks ----------------------------
(***************************************************************************)
(* The wrappers vet puts around the functions of fs, child_process and the *)
(* network modules, and the confirmation block they enforce.               *)
(* (guard/runtime-patch.ts, guard/confirm-block.ts, guard/runtime-sink.ts, *)
(* guard/runtime-heartbeat.ts, guard/honeypot.ts, guard/canary.ts and the  *)
(* assembly in guard/runtime-guard.ts)                                     *)
(*                                                                         *)
(* All functions are patched and restored together, so one slot stands for *)
(* all of them: what a caller finds under the function's name.  A layer    *)
(* keeps what it found when it was put there and calls that, whatever the  *)
(* slot holds later.  The layers of two copies of the module (hot reload)  *)
(* and the wrappers of other plugins pile up and go in any order.          *)
(*                                                                         *)
(* A call passes the layers from the outermost on: each decides before it  *)
(* calls on, and observes what came back.  Nothing else runs meanwhile     *)
(* (one thread), so a call is one action; only the scan of a request's     *)
(* body comes later.                                                       *)
(***************************************************************************)
EXTENDS Naturals, Sequences, FiniteSets

CONSTANTS
    Copies,     \* copies of the module in the host
    NoCopy,
    Layers,     \* wrappers that exist at a time; bounds the model
    NoLayer,
    Plugins,
    Nobody,     \* no attribution: the host, the user, a stack without plugin
    Official,   \* plugins whose content may be verified as official
    Modes,      \* confirmBlock as configured; "strict": families 3, 4 too
    MaxLures,   \* bounds of the model: generations of lures
    Tampering   \* may a plugin replace Error.prepareStackTrace

ASSUME HooksAssumption ==
    /\ NoCopy \notin Copies /\ NoLayer \notin Layers /\ Nobody \notin Plugins
    /\ Official \subseteq Plugins
    /\ Modes \subseteq {"alarm", "block", "strict"} /\ Modes # {}
    /\ MaxLures \in Nat \ {0} /\ Tampering \in BOOLEAN

\* What the decisions tell apart: deleting or overwriting an ordinary file, a
\* credential body that exists, an integrity canary or a start-up file;
\* appending to an integrity canary; and sending a lure's content, in the URL
\* or a body that is read later.
FsOps  == {"delete", "credential", "canary", "implant", "append"}
NetOps == {"send", "stream"}
Ops    == FsOps \cup NetOps

\* BLOCK_FS_OPS and open for writing; appending is recoverable.
Destructive == FsOps \ {"append"}

VARIABLES
    slot,      \* the layers a call passes, outermost first
    layer,     \* [Layers -> layer]
    guard,     \* [Copies -> its installed layer]
    mode,      \* [Copies -> confirmBlock.mode and the family modes]
    marked,    \* [Copies -> f1Blocked]
    trusted,   \* [Copies -> officialTrusted]
    tampered,  \* isStackTraceTampered
    lure,      \* generation of the lures on disk, 0 = deleted
    known,     \* [Copies -> canaryStore: generations]
    made,      \* generations made so far
    scans,     \* bodies being read: <<copy, attribution, generation>>
    reported,  \* [Copies -> the last heartbeat found the wrapper gone]
    confirmed  \* history: [Copies -> plugins it found destructive]

hooks   == <<slot, layer, guard, mode>>
proof   == <<marked, confirmed>>
traps   == <<lure, known, made>>
world   == <<trusted, tampered>>
vars    == <<hooks, proof, traps, world, scans, reported>>

Layer == [owner : Copies \cup {NoCopy}, used : BOOLEAN, undone : BOOLEAN, under : Seq(Layers)]

Unused == [owner |-> NoCopy, used |-> FALSE, undone |-> FALSE, under |-> <<>>]

Elems(s) == {s[i] : i \in DOMAIN s}

\* What the copy c, or another plugin (NoCopy), puts on top of s.
OnTop(c, s) == [owner |-> c, used |-> TRUE, undone |-> FALSE, under |-> s]

\* A replacement calls nothing under it and stays.
Replacement == [owner |-> NoCopy, used |-> TRUE, undone |-> TRUE, under |-> <<>>]

\* Layers nobody can call any more are collected: not in the slot, not held by
\* an installed guard or by a plugin that may still undo its patch.
Reachable(s, L, G) ==
    LET held == {G[c] : c \in Copies} \ {NoLayer}
        ext  == {l \in Layers : L[l].used /\ ~L[l].undone /\ L[l].owner = NoCopy}
    IN  Elems(s) \cup held \cup ext \cup UNION {Elems(L[l].under) : l \in held \cup ext}

Collected(s, L, G) == [l \in Layers |-> IF l \in Reachable(s, L, G) THEN L[l] ELSE Unused]

-----------------------------------------------------------------------------
(* Installing and removing.                                                *)

\* What the slot holds once the installed layer of c is disposed: what that
\* layer found when it was put there.
Restored(c) == IF guard[c] = NoLayer THEN slot ELSE layer[guard[c]].under

\* ensureHoneypot: lures that exist are left alone, also by the store of marks;
\* when they cannot be written the guard goes on without.
Lures(c) ==
    \/ /\ lure = 0 /\ made < MaxLures
       /\ made' = made + 1 /\ lure' = made'
       /\ known' = [known EXCEPT ![c] = @ \cup {made'}]
    \/ UNCHANGED traps

\* The disposer of the guard of c.
Uninstalled(c) ==
    /\ slot' = Restored(c)
    /\ guard' = [guard EXCEPT ![c] = NoLayer]
    /\ layer' = Collected(slot', layer, guard')

\* installRuntimeGuard in watch mode: the previous layer of the copy goes first.
Install(c, l, m) ==
    /\ ~layer[l].used
    /\ slot' = <<l>> \o Restored(c)
    /\ guard' = [guard EXCEPT ![c] = l]
    /\ layer' = Collected(slot', [layer EXCEPT ![l] = OnTop(c, Restored(c))], guard')
    /\ mode' = [mode EXCEPT ![c] = m]
    /\ Lures(c)
    /\ reported' = [reported EXCEPT ![c] = FALSE]
    /\ UNCHANGED <<proof, world, scans>>

\* A function that cannot be replaced takes the wrappers put so far back; the
\* previous layer is gone, lures and mode stay.
InstallFails(c, m) ==
    /\ Uninstalled(c)
    /\ mode' = [mode EXCEPT ![c] = m]
    /\ Lures(c)
    /\ UNCHANGED <<proof, world, scans, reported>>

\* The plugin's context ends, or the guard is switched off.
Dispose(c) ==
    /\ guard[c] # NoLayer
    /\ Uninstalled(c)
    /\ UNCHANGED <<mode, proof, traps, world, scans, reported>>

\* Another plugin wraps the function, replaces it, and undoes its patch.
Wrap(l) ==
    /\ ~layer[l].used
    /\ slot' = <<l>> \o slot
    /\ layer' = [layer EXCEPT ![l] = OnTop(NoCopy, slot)]
    /\ UNCHANGED <<guard, mode, proof, traps, world, scans, reported>>

Replace(l) ==
    /\ ~layer[l].used
    /\ slot' = <<l>>
    /\ layer' = Collected(slot', [layer EXCEPT ![l] = Replacement], guard)
    /\ UNCHANGED <<guard, mode, proof, traps, world, scans, reported>>

Undo(l) ==
    /\ layer[l].used /\ ~layer[l].undone /\ layer[l].owner = NoCopy
    /\ slot' = layer[l].under
    /\ layer' = Collected(slot', [layer EXCEPT ![l].undone = TRUE], guard)
    /\ UNCHANGED <<guard, mode, proof, traps, world, scans, reported>>

\* Mutated: any function in the slot will do.
IntactAny(c) == slot # <<>>

\* isVetHook of the function in the slot: a wrapper this copy branded.
Intact(c) == slot # <<>> /\ layer[Head(slot)].owner = c

\* The heartbeat of a guard that is on.
Heartbeat(c) ==
    /\ guard[c] # NoLayer
    /\ reported' = [reported EXCEPT ![c] = ~Intact(c)]
    /\ UNCHANGED <<hooks, proof, traps, world, scans>>

-----------------------------------------------------------------------------
(* A call.                                                                 *)

\* pluginFromStack; no attribution while the stack hooks are replaced.
Hint(p) == IF tampered THEN Nobody ELSE p

\* A red finding about an attributed caller that is not trusted confirms it.
Confirms(c, h) == h # Nobody /\ h \notin trusted[c]

\* Mutated: family 1 looks at calls that raise an alarm only.
RefusesLoudOnly(c, h, op, M) ==
    /\ mode[c] # "alarm" /\ op \in Destructive
    /\ tampered \/ (h # Nobody /\ h \notin trusted[c])
    /\ \/ op = "credential"
       \/ h \in M /\ op # "delete"
       \/ op = "implant" /\ mode[c] = "strict"

\* Mutated: a call without attribution counts as the last offender's.
RefusesUnnamed(c, h, op, M) ==
    /\ mode[c] # "alarm" /\ op \in Destructive
    /\ h \notin trusted[c]
    /\ \/ op = "credential"
       \/ h \in M \/ (h = Nobody /\ M # {})
       \/ op = "implant" /\ mode[c] = "strict"

\* decideBlock in a wrapper of c, with M marked, for a call attributed to h:
\* family 2, 1, then 3 and 4.  A call under replaced stack hooks has an
\* identity of its own, which is never trusted and never marked.
Refuses(c, h, op, M) ==
    /\ mode[c] # "alarm" /\ op \in Destructive
    /\ tampered \/ (h # Nobody /\ h \notin trusted[c])
    /\ \/ op = "credential"
       \/ h \in M
       \/ op = "implant" /\ mode[c] = "strict"

Owner(i) == layer[slot[i]].owner

\* Before it calls on, a wrapper reports a write to an integrity canary, which
\* confirms the caller; a second wrapper of the same copy already knows.
Touches(op) == op \in {"canary", "append"}

MarkedAt(i, h, op) ==
    IF Touches(op) /\ Confirms(Owner(i), h) /\ (\E j \in 1..(i - 1) : Owner(j) = Owner(i))
    THEN marked[Owner(i)] \cup {h} ELSE marked[Owner(i)]

Stops(i, h, op) == Owner(i) # NoCopy /\ Refuses(Owner(i), h, op, MarkedAt(i, h, op))

\* The wrappers the call passes: all layers above the first that stops it.
Passed(h, op) ==
    {i \in DOMAIN slot : Owner(i) # NoCopy /\ \A j \in 1..i : ~Stops(j, h, op)}

\* The copies whose wrapper stops it: one, or none and the function runs.
Refusers(h, op) ==
    {Owner(i) : i \in {k \in DOMAIN slot : /\ Stops(k, h, op)
                                         /\ \A j \in 1..(k - 1) : ~Stops(j, h, op)}}

\* markFamily1, in each copy of C.
MarkFamily1(C, h) ==
    /\ marked' = [c \in Copies |-> marked[c] \cup (IF c \in C THEN {h} ELSE {})]
    /\ confirmed' = [c \in Copies |-> confirmed[c] \cup (IF c \in C THEN {h} ELSE {})]

\* One call, attributed by its stack to p.  A wrapper that was passed observes
\* afterwards, also when its callee threw: the ledger may find a destruction
\* signature complete (in the copies in ransom), a sent URL is searched for known
\* lures at once and a body when it has been read.
Call(p, op, g, ransom) ==
    LET h == Hint(p)
        C == {Owner(i) : i \in Passed(h, op)}
        found == IF Touches(op) THEN C
                 ELSE IF op = "send" THEN {c \in C : g \in known[c]} ELSE C \cap ransom
    IN  /\ op \in NetOps <=> g # 0
        /\ ransom # {} => op \in FsOps
        /\ MarkFamily1({c \in found : Confirms(c, h)}, h)
        /\ IF op = "stream"
           THEN scans = {} /\ scans' = {<<c, h, g>> : c \in C}
           ELSE UNCHANGED scans
        /\ UNCHANGED <<hooks, traps, world, reported>>

\* A body has been read; the finding is judged by what is known and trusted now.
BodyRead(s) ==
    /\ scans' = scans \ {s}
    /\ MarkFamily1(IF s[3] \in known[s[1]] /\ Confirms(s[1], s[2]) THEN {s[1]} ELSE {}, s[2])
   
    /\ UNCHANGED <<hooks, traps, world, reported>>

-----------------------------------------------------------------------------
(* The surroundings.                                                       *)

\* markOfficialTrusted: the content of p was verified (module OfficialTrust).
Trust(c, p) ==
    /\ p \in Official \ trusted[c]
    /\ trusted' = [trusted EXCEPT ![c] = @ \cup {p}]
    /\ UNCHANGED <<hooks, proof, traps, tampered, scans, reported>>

Tamper ==
    /\ Tampering
    /\ tampered' = ~tampered
    /\ UNCHANGED <<hooks, proof, traps, trusted, scans, reported>>

LuresDeleted ==
    /\ lure # 0
    /\ lure' = 0
    /\ UNCHANGED <<hooks, proof, known, made, world, scans, reported>>

\* The host ends and starts again: only the lures are on disk.
Restart ==
    /\ slot' = <<>> /\ layer' = [l \in Layers |-> Unused]
    /\ guard' = [c \in Copies |-> NoLayer]
    /\ mode' = [c \in Copies |-> "block"]
    /\ marked' = [c \in Copies |-> {}] /\ confirmed' = marked'
    /\ trusted' = [c \in Copies |-> {}] /\ known' = [c \in Copies |-> {}]
    /\ tampered' = FALSE
    /\ scans' = {}
    /\ reported' = [c \in Copies |-> FALSE]
    /\ UNCHANGED <<lure, made>>

Init ==
    /\ slot = <<>> /\ layer = [l \in Layers |-> Unused]
    /\ guard = [c \in Copies |-> NoLayer]
    /\ mode = [c \in Copies |-> "block"]
    /\ marked = [c \in Copies |-> {}] /\ confirmed = marked
    /\ trusted = [c \in Copies |-> {}] /\ known = [c \in Copies |-> {}]
    /\ tampered = FALSE
    /\ lure = 0 /\ made = 0
    /\ scans = {}
    /\ reported = [c \in Copies |-> FALSE]

Next ==
    \/ \E c \in Copies, l \in Layers, m \in Modes : Install(c, l, m)
    \/ \E c \in Copies, m \in Modes : InstallFails(c, m)
    \/ \E c \in Copies : Dispose(c) \/ Heartbeat(c)
    \/ \E l \in Layers : Wrap(l) \/ Replace(l) \/ Undo(l)
    \/ \E p \in Plugins \cup {Nobody}, op \in Ops, g \in 0..made, ransom \in SUBSET Copies :
           Call(p, op, g, ransom)
    \/ \E s \in scans : BodyRead(s)
    \/ \E c \in Copies, p \in Plugins : Trust(c, p)
    \/ Tamper
    \/ LuresDeleted
    \/ Restart

Spec == Init /\ [][Next]_vars

\* The timer of the heartbeat fires.
FairSpec == Spec /\ \A c \in Copies : WF_vars(Heartbeat(c))

-----------------------------------------------------------------------------
(* Properties                                                              *)

\* Type invariant.
TypeOK ==
    /\ slot \in Seq(Layers) /\ layer \in [Layers -> Layer]
    /\ guard \in [Copies -> Layers \cup {NoLayer}]
    /\ mode \in [Copies -> {"alarm", "block", "strict"}]
    /\ marked \in [Copies -> SUBSET Plugins] /\ confirmed \in [Copies -> SUBSET Plugins]
    /\ trusted \in [Copies -> SUBSET Official]
    /\ tampered \in BOOLEAN
    /\ made \in 0..MaxLures /\ lure \in 0..made
    /\ known \in [Copies -> SUBSET (1..made)]
    /\ reported \in [Copies -> BOOLEAN]
    /\ scans \subseteq Copies \X (Plugins \cup {Nobody}) \X (1..made)

\* Once a copy has found a plugin destructive, none of that plugin's later
\* destructive calls reaches the disk while the copy's guard is in the way and
\* blocks, also after the guard was switched off and on or taken over, with
\* other layers above and below.  Excused: a plugin whose content was verified
\* as official, and a call under replaced stack hooks, which has no name.
\* (runtime-patch 50-186, confirm-block 189-241)
ConfirmedIsStopped ==
    \A c \in Copies : \A p \in confirmed[c], op \in Destructive :
        Refusers(Hint(p), op) = {} =>
            \/ guard[c] \notin Elems(slot)
            \/ mode[c] = "alarm" \/ tampered \/ p \in trusted[c]

\* A call is refused only for what the refusing copy knows of its caller: no
\* host or user call and no call of a verified package is, and an ordinary
\* file is protected from confirmed plugins only.  (ARCHITECTURE 5.7,
\* "Zero-false-intercept guards"; the code excepts replaced stack hooks)
NoFalseIntercept ==
    ~tampered => \A p \in Plugins \cup {Nobody}, op \in Ops : \A c \in Refusers(p, op) :
        /\ p \in Plugins \ trusted[c]
        /\ op = "delete" => p \in confirmed[c]

\* A guard that is on while no wrapper of its copy is in the way raises its
\* row, unless the wrapper comes back by itself.  (runtime-heartbeat 62-78)
StrippedIsReported ==
    \A c \in Copies :
        LET Covered == \E l \in Elems(slot) : layer[l].owner = c
        IN  guard[c] # NoLayer /\ ~Covered ~> reported[c] \/ guard[c] = NoLayer \/ Covered

=============================================================================
