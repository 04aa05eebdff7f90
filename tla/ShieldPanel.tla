----------------------------- MODULE ShieldPanel -----------------------------
(***************************************************************************)
(* The shield in the web page (client/Shield.tsx) and the answers it polls *)
(* (GET /vet/status.json), beside the switch it operates (GuardSwitch),    *)
(* the question for updates each answer may start (UpdateCheck), and the   *)
(* counters each answer writes to disk (guard/stats.ts).  Requests of the  *)
(* page overtake each other on the way to the host and on the way back.    *)
(***************************************************************************)
EXTENDS GuardSwitch, UpdateCheck

VARIABLES
    panel,         \* [snap, asked, badge, toggling, saving]
    polls,         \* polls under way: asked, or answered with a body
    serial,        \* how many answers the host has given
    stats,         \* [memory, file, dirty] of one counter
    lossy          \* the counters' file could not be written or read

panelVars == <<panel, polls, serial, stats, lossy>>
vars == <<switchVars, updateVars, panelVars>>

NoSnap == [at |-> 0, profile |-> "standard", guard |-> "off", patch |-> "off", count |-> 0, update |-> "unknown"]
\* A page opened after so many polls waits for requests numbered from here on.
Opened(asked, from) ==
    [snap |-> NoSnap, asked |-> asked, from |-> from, badge |-> "none", toggling |-> FALSE, saving |-> FALSE]

PanelInit ==
    /\ panel = Opened(0, left.posts) /\ polls = {} /\ serial = 0
    /\ stats = [memory |-> 0, file |-> 0, dirty |-> TRUE] /\ lossy = FALSE

\* ---- polling ----

Poll ==
    /\ Spend("polls")
    /\ panel' = [panel EXCEPT !.asked = @ + 1]
    /\ polls' = polls \cup {[seq |-> panel.asked + 1, body |-> NoSnap]}
    /\ UNCHANGED <<disk, backup, host, engine, writing, posts, answers, updateVars, serial, stats, lossy>>

\* Something is scanned, recorded or blocked.
Count ==
    /\ host.up /\ Spend("events")
    /\ stats' = [stats EXCEPT !.memory = @ + 1, !.dirty = TRUE]
    /\ UNCHANGED <<disk, backup, host, engine, writing, posts, answers, updateVars, panel, polls, serial, lossy>>

\* getStats: what changed is written before it is shown, and a write that
\* fails counts as one all the same.
Mirrored(fails) == [stats EXCEPT !.file = IF stats.dirty /\ ~fails THEN stats.memory ELSE @, !.dirty = FALSE]

Shown(p, mirrored) ==
    [at |-> serial + 1, profile |-> host.profile, guard |-> host.guard,
     patch |-> ReadPatchRuntimeGuard(disk), count |-> mirrored.memory, update |-> UpdateView(p).status]

Serve(poll) ==
    /\ Serving /\ poll \in polls /\ poll.body = NoSnap
    /\ MaybeCheckForUpdate
    /\ \/ stats' = Mirrored(FALSE) /\ UNCHANGED <<left, lossy>>
       \/ stats.dirty /\ Spend("faults") /\ stats' = Mirrored(TRUE) /\ lossy' = TRUE
    /\ serial' = serial + 1
    /\ polls' = (polls \ {poll}) \cup {[poll EXCEPT !.body = Shown(persisted', stats')]}
    /\ UNCHANGED <<disk, backup, host, engine, writing, posts, answers, clock, published, saved, panel>>

\* Mutant: an answer is shown whichever poll it belongs to.
ShowAny(poll) ==
    /\ poll \in polls /\ poll.body # NoSnap
    /\ panel' = [panel EXCEPT !.snap = poll.body]
    /\ polls' = polls \ {poll}
    /\ UNCHANGED <<switchVars, updateVars, serial, stats, lossy>>

\* Only the answer to the newest poll is shown; the others are dropped.
Show(poll) ==
    /\ poll \in polls /\ poll.body # NoSnap
    /\ panel' = IF poll.seq = panel.asked THEN [panel EXCEPT !.snap = poll.body] ELSE panel
    /\ polls' = polls \ {poll}
    /\ UNCHANGED <<switchVars, updateVars, serial, stats, lossy>>

\* ---- operating the switch ----

Busy(what) == IF what = "toggle" THEN panel.toggling ELSE panel.saving
Press(what, busy) == IF what = "toggle" THEN [panel EXCEPT !.toggling = busy] ELSE [panel EXCEPT !.saving = busy]

\* A button is disabled until its own request is answered.
Click(what, arg) ==
    /\ ~Busy(what) /\ Spend("posts")
    /\ panel' = Press(what, TRUE)
    /\ posts' = posts \cup {[id |-> left.posts, what |-> what, arg |-> arg, sound |-> TRUE]}
    /\ UNCHANGED <<disk, backup, host, engine, writing, answers, updateVars, polls, serial, stats, lossy>>

\* Another page or program posts something unfit.
PostElsewhere ==
    /\ Spend("posts")
    /\ posts' = posts \cup {[id |-> left.posts, what |-> "elsewhere", arg |-> "off", sound |-> FALSE]}
    /\ UNCHANGED <<disk, backup, host, engine, writing, answers, updateVars, panel, polls, serial, stats, lossy>>

\* The badge becomes what the answer says, if it says something.
Told(answer) ==
    /\ answer \in answers
    /\ panel' = IF answer.what = "elsewhere" \/ answer.id > panel.from THEN panel
                ELSE IF answer.profile = "none" THEN Press(answer.what, FALSE)
                ELSE [Press(answer.what, FALSE) EXCEPT !.badge = answer.profile]
    /\ answers' = answers \ {answer}
    /\ UNCHANGED <<disk, backup, host, engine, writing, posts, left, updateVars, polls, serial, stats, lossy>>

\* The page is loaded anew; what it waited for is nobody's.
Reload ==
    /\ Spend("polls")
    /\ panel' = Opened(panel.asked, left.posts)
    /\ polls' = {}
    /\ UNCHANGED <<disk, backup, host, engine, writing, posts, answers, updateVars, serial, stats, lossy>>

\* ---- with the host's own life ----

\* A host that starts reads the counters; one that goes loses its requests.
CountersLoad ==
    IF ~host.up /\ host'.up
    THEN \E readable \in BOOLEAN :
            /\ stats' = [memory |-> IF readable THEN stats.file ELSE 0, file |-> stats.file, dirty |-> TRUE]
            /\ lossy' = (lossy \/ (~readable /\ stats.file > 0))
    ELSE UNCHANGED <<stats, lossy>>

HostGoes == host.up /\ ~host'.up

SwitchStep ==
    /\ SwitchNext
    /\ CountersLoad
    /\ IF HostGoes THEN UpdateRestart ELSE UNCHANGED updateVars
    /\ UNCHANGED <<panel, polls, serial>>

UpdateStep ==
    /\ \/ host.up /\ AnswerArrives(FALSE) /\ UNCHANGED left
       \/ host.up /\ Spend("faults") /\ AnswerArrives(TRUE)
       \/ Spend("days") /\ ClockMoves
       \/ Spend("days") /\ Publish
    /\ UNCHANGED <<disk, backup, host, engine, writing, posts, answers, panelVars>>

PanelStep ==
    \/ Poll \/ Count \/ PostElsewhere \/ Reload
    \/ \E poll \in polls : Serve(poll) \/ Show(poll)
    \/ \E way \in {"on", "off"} : Click("toggle", way)
    \/ \E tier \in Tiers : Click("tier", tier)
    \/ \E answer \in answers : Told(answer)

Init == SwitchInit /\ UpdateInit /\ PanelInit
Next == SwitchStep \/ UpdateStep \/ PanelStep
Spec == Init /\ [][Next]_vars

\* ---- properties ----

TypeOK ==
    /\ SwitchTypeOK
    /\ panel.badge \in Tiers \cup {"none"} /\ panel.snap.at <= serial
    /\ \A poll \in polls : poll.seq <= panel.asked
    /\ stats.memory \in Nat /\ stats.file \in Nat

(***************************************************************************)
(* What the panel shows never goes back to an older answer of the host,    *)
(* although answers overtake each other, and the counters it shows do not  *)
(* fall, also over starts of the host, as long as their file could be read *)
(* and written.                                                            *)
(***************************************************************************)
NewestShown ==
    [][panel'.snap # NoSnap /\ panel.snap # NoSnap =>
          /\ panel'.snap.at >= panel.snap.at
          /\ ~lossy => panel'.snap.count >= panel.snap.count]_vars

=============================================================================
