----------------------------- MODULE GuardSwitch -----------------------------
(***************************************************************************)
(* The switch of the runtime guard: the requests of status-route.ts that   *)
(* rewrite cordis.patch.yml (PatchFile) and take effect at once            *)
(* (runtime-guard.ts, applyRuntimeGuardImmediate), and the starts of the   *)
(* plugin that read the file again (index.ts, apply).  A request runs to   *)
(* its end before the host does anything else; the user's editor and the   *)
(* end of the process may come between its read and its rename.            *)
(***************************************************************************)
EXTENDS PatchFile

CONSTANTS
    Documents,     \* what the user may have in, or save to, the patch file
    Worlds         \* what a behaviour starts from: [disks, left], the documents and
                   \* what may happen at most: [posts, polls, saves, faults, starts, days, events]

Budget == {"posts", "polls", "saves", "faults", "starts", "days", "events"}

ASSUME WorldsAssumption ==
    /\ \A doc \in Documents : IsDocument(doc)
    /\ \A world \in Worlds : (\A doc \in world.disks : IsDocument(doc)) /\ world.left \in [Budget -> Nat]

VARIABLES
    disk,          \* the patch file
    backup,        \* .bak.latest
    host,          \* [up, route, profile, guard]: the configuration in memory
    engine,        \* whether the hooks and the watcher are really installed
    writing,       \* the write under way
    posts,         \* requests on their way to the host
    answers,       \* answers on their way back
    left           \* what is left of the budget

switchVars == <<disk, backup, host, engine, writing, posts, answers, left>>

NoWrite == [under |-> "none"]
Down == [up |-> FALSE, route |-> FALSE, profile |-> "standard", guard |-> "off"]

Spend(what) == left[what] > 0 /\ left' = [left EXCEPT ![what] = @ - 1]

SwitchInit ==
    /\ \E world \in Worlds : disk \in world.disks /\ left = world.left
    /\ backup = NoFile
    /\ host = Down /\ engine = "off"
    /\ writing = NoWrite /\ posts = {} /\ answers = {}

Serving == host.up /\ host.route /\ writing = NoWrite

\* ---- the plugin starts and ends ----

\* apply: presets, then the guard of the configuration.
Apply ==
    /\ ~host.up /\ ~disk.broken /\ Spend("starts")
    /\ host' = [up |-> TRUE, route |-> FALSE, profile |-> Started(disk).profile, guard |-> Started(disk).guard]
    /\ engine' = Started(disk).guard
    /\ UNCHANGED <<disk, backup, writing, posts, answers>>

\* The route waits for a web server, for as long as there is none.
RegisterRoute ==
    /\ host.up /\ ~host.route
    /\ host' = [host EXCEPT !.route = TRUE]
    /\ UNCHANGED <<disk, backup, engine, writing, posts, answers, left>>

\* The plugin's effects are disposed of: the guard, whoever installed it.
Dispose ==
    /\ host.up /\ writing = NoWrite
    /\ host' = Down /\ engine' = "off"
    /\ UNCHANGED <<disk, backup, writing, posts, answers, left>>

Crash ==
    /\ host.up /\ Spend("faults")
    /\ host' = Down /\ engine' = "off" /\ writing' = NoWrite
    /\ UNCHANGED <<disk, backup, posts, answers>>

\* ---- a request ----

Answer(post, ok, profile) ==
    [id |-> post.id, what |-> post.what, ok |-> ok, profile |-> profile, read |-> TRUE]
Reply(post, answer) == posts' = posts \ {post} /\ answers' = answers \cup {answer}

\* Mutant: the guard that could not be installed stays half alive.
TakesEffectHalf(guard) ==
    \/ /\ host' = [host EXCEPT !.guard = guard] /\ engine' = guard /\ UNCHANGED left
    \/ /\ guard = "watch" /\ Spend("faults")
       /\ engine' = guard /\ UNCHANGED host

\* applyRuntimeGuardImmediate: the old guard is gone before the new one is
\* installed; one that cannot be installed is taken down altogether.
TakesEffect(guard) ==
    \/ /\ host' = [host EXCEPT !.guard = guard] /\ engine' = guard /\ UNCHANGED left
    \/ /\ guard = "watch" /\ Spend("faults")
       /\ engine' = "off" /\ UNCHANGED host

GuardFor(profile) == IF profile = "standard" THEN "off" ELSE "watch"

\* Another origin or peer, too long, no JSON, no value, no such tier.
Refuse(post) ==
    /\ Serving /\ post \in posts /\ ~post.sound
    /\ Reply(post, Answer(post, FALSE, "none"))
    /\ UNCHANGED <<disk, backup, host, engine, writing, left>>

Planned(post) == IF post.what = "toggle" THEN Switched(disk, post.arg = "on") ELSE Tiered(disk, post.arg)

\* What the file is compared with: a missing one counts as an empty list.
ReadBy(post) == IF post.what = "tier" THEN [disk EXCEPT !.written = TRUE] ELSE disk

Nothing(post, planned) == planned.plan.doc = ReadBy(post) /\ ~planned.plan.repaired

\* The file cannot be read: nothing is written; switching off is answered
\* as done all the same, and done in memory.
Unread(post) ==
    /\ Serving /\ post \in posts /\ post.sound /\ disk.written
    /\ IF post.what = "toggle" /\ post.arg = "off"
       THEN /\ Spend("faults")
            /\ Reply(post, [Answer(post, TRUE, "standard") EXCEPT !.read = FALSE])
            /\ host' = [host EXCEPT !.guard = "off"] /\ engine' = "off"
       ELSE Spend("faults") /\ Reply(post, Answer(post, FALSE, "none")) /\ UNCHANGED <<host, engine>>
    /\ UNCHANGED <<disk, backup, writing>>

\* A cut document is left alone.
Declined(post) ==
    /\ Serving /\ post \in posts /\ post.sound /\ Planned(post).plan.refused
    /\ Reply(post, Answer(post, FALSE, "none"))
    /\ UNCHANGED <<disk, backup, host, engine, writing, left>>

Already(post) ==
    /\ Serving /\ post \in posts /\ post.sound
    /\ LET planned == Planned(post)
       IN  /\ ~planned.plan.refused /\ Nothing(post, planned)
           /\ Reply(post, Answer(post, TRUE, planned.profile))
           /\ TakesEffect(GuardFor(planned.profile))
    /\ UNCHANGED <<disk, backup, writing>>

\* What would be written is no YAML.
Invalid(post) ==
    /\ Serving /\ post \in posts /\ post.sound
    /\ LET planned == Planned(post)
       IN  ~planned.plan.refused /\ ~Nothing(post, planned) /\ ~Valid(planned.plan.doc)
    /\ Reply(post, Answer(post, FALSE, "none"))
    /\ UNCHANGED <<disk, backup, host, engine, writing, left>>

\* atomicWritePatch, up to the rename: a backup that fails is done without.
Begin(post) ==
    /\ Serving /\ post \in posts /\ post.sound
    /\ LET planned == Planned(post)
       IN  /\ ~planned.plan.refused /\ ~Nothing(post, planned) /\ Valid(planned.plan.doc)
           /\ writing' = [under |-> "way", post |-> post, base |-> disk,
                          doc |-> planned.plan.doc, profile |-> planned.profile]
    /\ \/ backup' = disk /\ UNCHANGED left
       \/ Spend("faults") /\ UNCHANGED backup
    /\ UNCHANGED <<disk, host, engine, posts, answers>>

Underway == writing.under = "way"

\* The rename, and what was asked for takes effect at once.
Commit ==
    /\ Underway
    /\ disk' = writing.doc
    /\ TakesEffect(GuardFor(writing.profile))
    /\ Reply(writing.post, Answer(writing.post, TRUE, writing.profile))
    /\ writing' = NoWrite
    /\ UNCHANGED backup

WriteFails ==
    /\ Underway /\ Spend("faults")
    /\ Reply(writing.post, Answer(writing.post, FALSE, "none"))
    /\ writing' = NoWrite
    /\ UNCHANGED <<disk, backup, host, engine>>

\* ---- the user's editor ----

Save ==
    /\ Spend("saves")
    /\ \E doc \in Documents \ {NoFile} : doc # disk /\ disk' = doc
    /\ UNCHANGED <<backup, host, engine, writing, posts, answers>>

SwitchNext ==
    \/ Apply \/ RegisterRoute \/ Dispose \/ Crash
    \/ \E post \in posts :
        \/ Refuse(post) \/ Unread(post) \/ Declined(post) \/ Already(post) \/ Invalid(post) \/ Begin(post)
    \/ Commit \/ WriteFails \/ Save

\* ---- properties ----

SwitchTypeOK ==
    /\ IsDocument(disk) /\ IsDocument(backup)
    /\ host.profile \in Tiers /\ host.guard \in {"off", "watch"} /\ engine \in {"off", "watch"}
    /\ \A a \in answers : a.profile \in Tiers \cup {"none"}

(***************************************************************************)
(* A panel that is told "off" speaks of a guard that is off: whatever      *)
(* order switches, failed installations, crashes and starts come in, no    *)
(* hook stays installed behind a configuration that says off.              *)
(***************************************************************************)
OffMeansOff == host.guard = "off" => engine = "off"

\* The surgery has to fall back on parsing text it cannot parse.
Rescue(doc) == IsInline(doc) /\ Unparsable(doc)

(***************************************************************************)
(* A write of vet keeps every entry of the others, in their order, and the *)
(* other keys of its own config, as they were when it read them, unless it *)
(* had to rescue a document.                                               *)
(***************************************************************************)
OthersKept ==
    [][disk' # disk /\ Underway /\ writing' = NoWrite /\ ~Rescue(writing.base) =>
          /\ Others(disk') = Others(writing.base)
          /\ HasVet(writing.base) /\ Vet(writing.base).more => HasVet(disk') /\ Vet(disk').more]_switchVars

(***************************************************************************)
(* An answer that something was switched is true of the next start: it     *)
(* would read the guard that goes with the tier that was answered, and,    *)
(* unless a document was rescued, that tier.  (The code gets three cases   *)
(* wrong: an inline config, whose keys the surgery does not see, and a     *)
(* file it could not read, are left out; a rescue writes no tier at all,   *)
(* whatever it answers.)                                                   *)
(***************************************************************************)
AnswerHolds ==
    [][\A a \in answers' \ answers : a.ok /\ a.read /\ ~IsInline(disk') =>
          /\ Started(disk').guard = GuardFor(a.profile)
          /\ ~(Underway /\ Rescue(writing.base)) => Started(disk').profile = a.profile]_switchVars

=============================================================================
