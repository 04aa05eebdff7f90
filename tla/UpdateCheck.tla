----------------------------- MODULE UpdateCheck -----------------------------
(***************************************************************************)
(* Asking the registry for a newer vet (guard/update-check.ts): at most    *)
(* once a day and one request at a time, the answer kept in memory and in  *)
(* a file, and what the panel is told of it.                               *)
(***************************************************************************)
EXTENDS Integers, Sequences

CONSTANTS
    Releases,      \* what the registry has published, oldest first: [version, tested]
    Own,           \* the manifest of this vet: [version, tested]
    Dsh,           \* version of the host, or None
    None,          \* a field that is not there
    Odd,           \* a version that is none
    CheckInterval, \* a day, in steps of the clock
    MaxClock       \* bound: where the clock stops

ASSUME ClockAssumption == CheckInterval \in Nat /\ MaxClock \in Nat

VARIABLES
    clock,
    published,     \* how many of Releases are out
    persisted,     \* what memory holds, once loaded
    saved,         \* update-check.json
    inflight,      \* a request is out
    lastAsk,       \* when the last one went out
    excused        \* since then its mark was lost or the clock set back

updateVars == <<clock, published, persisted, saved, inflight, lastAsk, excused>>

Empty == [checkedAt |-> 0, version |-> None, tested |-> None]
Unloaded == [Empty EXCEPT !.checkedAt = -1]

UpdateInit ==
    /\ clock = CheckInterval /\ published = 1
    /\ persisted = Unloaded /\ saved = Empty
    /\ inflight = FALSE
    /\ lastAsk = 0 /\ excused = TRUE

\* loadPersisted: read once; what cannot be read is empty.
Loaded == IF persisted # Unloaded THEN {persisted} ELSE {saved, Empty}

\* A mark from the future is no excuse: the clock was set back.
Due(p) == clock < p.checkedAt \/ clock >= p.checkedAt + CheckInterval

\* maybeCheckForUpdate, part of every answer to the panel.
MaybeCheckForUpdate ==
    \E p \in Loaded :
        /\ persisted' = p
        /\ IF Due(p) /\ ~inflight
           THEN inflight' = TRUE /\ lastAsk' = clock /\ excused' = FALSE
           ELSE /\ excused' = (excused \/ (p # persisted /\ p # saved))
                /\ UNCHANGED <<inflight, lastAsk>>

\* Mutant: a check that failed is as good as none.
FailedFreely(p) == p

\* A request that failed counts as a check.
Failed(p) == [p EXCEPT !.checkedAt = clock]

Found(release) == [checkedAt |-> clock, version |-> release.version, tested |-> release.tested]

\* The request is back; the file may fail to be written.
AnswerArrives(lost) ==
    /\ inflight
    /\ \E next \in {Failed(persisted), Found(Releases[published])} :
        /\ persisted' = next
        /\ saved' = IF lost THEN saved ELSE next
    /\ excused' = (excused \/ lost)
    /\ inflight' = FALSE
    /\ UNCHANGED <<clock, published, lastAsk>>

UpdateRestart ==
    /\ persisted' = Unloaded /\ inflight' = FALSE
    /\ excused' = (excused \/ inflight)
    /\ UNCHANGED <<clock, published, saved, lastAsk>>

Publish ==
    /\ published < Len(Releases) /\ published' = published + 1
    /\ UNCHANGED <<clock, persisted, saved, inflight, lastAsk, excused>>

ClockMoves ==
    /\ clock' \in {clock - 1, clock + 1} \cap 0..MaxClock
    /\ excused' = (excused \/ clock' < clock)
    /\ UNCHANGED <<published, persisted, saved, inflight, lastAsk>>

\* ---- what the panel is told ----

CompatStatus(dsh, tested) ==
    IF dsh = None \/ tested = None \/ dsh = Odd THEN "unknown"
    ELSE IF dsh \in tested THEN "ok" ELSE "out-of-range"

\* getUpdateView: versions that cannot be compared say nothing, and one that
\* does not claim to be tested with this host is not offered.
UpdateView(p) ==
    [compat |-> CompatStatus(Dsh, Own.tested),
     latest |-> p.version,
     status |-> IF p.version = None \/ Own.version = None \/ p.version = Odd THEN "unknown"
                ELSE IF p.version <= Own.version THEN "up-to-date"
                ELSE IF p.tested # None /\ Dsh # None /\ Dsh \in p.tested THEN "update-available"
                ELSE "unknown"]

\* ---- properties ----

(***************************************************************************)
(* The registry is asked at most once a day, also when its answers fail,   *)
(* panels poll all the time and the host starts again: two requests are a  *)
(* day apart unless the file that says when the last one was could not be  *)
(* written or read, the host ended before its answer, or the clock was set *)
(* back.                                                                   *)
(***************************************************************************)
AskedOnceADay ==
    [][~inflight /\ inflight' =>
          \/ clock >= lastAsk + CheckInterval
          \/ excused \/ (persisted = Unloaded /\ persisted' # saved)]_updateVars

=============================================================================
