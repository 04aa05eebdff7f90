------------------------------- MODULE Sampling -------------------------------
(***************************************************************************)
(* What the sentinel of module Sentinel measures while it watches: at      *)
(* every tick it reads the host's memory, children and descriptors, and    *)
(* tells what is out of bounds.  Its windows live and die with the child   *)
(* process, so a restart begins to measure anew.                           *)
(* (guard/runtime-watch.ts: readProcSample, analyzeSample, detectGrowth,   *)
(* sustainReached and the tick of sidecarMain)                             *)
(*                                                                         *)
(* Time is counted in ticks since the sentinel started.  A tick that can   *)
(* read nothing passes without a sample.                                   *)
(***************************************************************************)
EXTENDS Sentinel, Integers, Sequences

CONSTANTS
    Readings,       \* what a tick may read: [rss, children, fds], -1 for unreadable
    MemLimit, ForkBurstN, FdLimit,
    Growth, GrowthWindow,
    Warmup, MemSustain,
    Worlds          \* bounds: [moves, ticks], what happens to a guard that is on;
                    \* moves = -1, without ticks: anything, from the first start on

ASSUME SamplingAssumption ==
    /\ Readings \subseteq [rss : Nat, children : Nat \cup {-1}, fds : Nat \cup {-1}]
    /\ {MemLimit, ForkBurstN, FdLimit, Growth, GrowthWindow} \subseteq Nat \ {0}
    /\ {Warmup, MemSustain} \subseteq Nat
    /\ Copies # {} /\ Insts # {} /\ Pids # {}

VARIABLES
    sampler,        \* what the watching sentinel remembers and said last
    left            \* what remains of the bounds

allVars == <<vars, sampler, left>>

Unreadable == [rss |-> -1, children |-> -1, fds |-> -1]

\* log: every sample of this sentinel, and whether growth was told at it; history.
Began == [on |-> TRUE, age |-> 0, prev |-> Unreadable, overSince |-> -1, samples |-> <<>>,
          growthMultiples |-> 0, read |-> FALSE, said |-> {}, log |-> <<>>]
Off == [Began EXCEPT !.on = FALSE]

-----------------------------------------------------------------------------
(* One tick.                                                               *)

\* Mutated: a sample below the limit does not end the run above it.
OverStill(s, r) ==
    IF s.age < Warmup THEN s.overSince
    ELSE IF s.overSince = -1 /\ r.rss > MemLimit THEN s.age ELSE s.overSince

\* Since when every sample was above the limit; -1 for none.  Not during warm-up.
OverSince(s, r) ==
    IF s.age < Warmup THEN s.overSince
    ELSE IF r.rss <= MemLimit THEN -1
    ELSE IF s.overSince = -1 THEN s.age ELSE s.overSince

SustainReached(since, age) == since # -1 /\ age - since >= MemSustain

\* analyzeSample.  Children that cannot be counted make no burst.
AnalyzeSample(prev, r, skipMem) ==
    (IF ~skipMem /\ r.rss > MemLimit THEN {"mem"} ELSE {})
    \cup (IF prev # Unreadable /\ prev.children >= 0 /\ r.children - prev.children > ForkBurstN
          THEN {"fork"} ELSE {})
    \cup (IF r.fds > FdLimit THEN {"fd"} ELSE {})

\* The samples of the window, once the host has run for one: older ones are
\* dropped from the front.
InWindow(s, r) ==
    LET all  == Append(s.samples, [rss |-> r.rss, at |-> s.age])
        kept == {k \in DOMAIN all : all[k].at >= s.age - GrowthWindow}
    IN  IF s.age < GrowthWindow THEN s.samples
        ELSE SubSeq(all, CHOOSE k \in kept : \A m \in kept : k <= m, Len(all))

\* detectGrowth: the multiples of the limit by which memory grew over the
\* window, told when there are more than were told before; without growth the
\* count begins anew.  A window that is not filled yet says nothing.
DetectGrowth(samples, prevMultiples) ==
    LET span == samples[Len(samples)].at - samples[1].at
        grew == samples[Len(samples)].rss - samples[1].rss
    IN  IF Len(samples) < 2 THEN prevMultiples
        ELSE IF 10 * span < 9 * GrowthWindow THEN prevMultiples
        ELSE IF grew <= 0 THEN 0
        ELSE IF grew \div Growth > prevMultiples THEN grew \div Growth ELSE prevMultiples

\* tick
Sampled(s, r) ==
    IF r = Unreadable THEN [s EXCEPT !.read = FALSE, !.said = {}]
    ELSE LET since    == OverSince(s, r)
             samples  == InWindow(s, r)
             multiples == IF s.age < GrowthWindow THEN s.growthMultiples
                          ELSE DetectGrowth(samples, s.growthMultiples)
             growth   == multiples > s.growthMultiples
         IN  [s EXCEPT
                !.prev = r, !.overSince = since, !.samples = samples,
                !.growthMultiples = multiples, !.read = TRUE,
                !.said = (IF s.age < Warmup THEN {}
                          ELSE AnalyzeSample(s.prev, r, ~SustainReached(since, s.age)))
                         \cup (IF growth THEN {"growth"} ELSE {}),
                !.log = Append(@, [at |-> s.age, rss |-> r.rss, children |-> r.children,
                                   grew |-> growth])]

-----------------------------------------------------------------------------
(* With the life of the sentinel.                                          *)

Watched == \E p \in Pids : proc[p] = "watching"

\* The first tick is part of the start; what a sentinel remembers ends with it.
Follows ==
    IF ~Watched' THEN sampler' = Off
    ELSE IF Watched \/ left.ticks = 0 THEN UNCHANGED sampler
    ELSE \E r \in Readings \cup {Unreadable} : sampler' = Sampled(Began, r)

\* What happens by itself, when it is left alone.
Forced ==
    \/ \E p \in Pids : Start(p) \/ Leave(p) \/ Tick(p) \/ Terminate(p)
    \/ \E i \in Insts : ExitEvent(i) \/ \E p \in Pids \cup {NoPid} : Respawn(i, p)

LifeStep ==
    /\ Next
    /\ Follows
    /\ IF left.moves = -1 \/ Forced THEN UNCHANGED left
       ELSE left.moves > 0 /\ left' = [left EXCEPT !.moves = @ - 1]

\* The next tick.  In a bounded world a failed read is one of the moves.
SampleStep ==
    /\ sampler.on /\ host = "up" /\ left.ticks > 0
    /\ \E r \in Readings \cup (IF left.moves = 0 THEN {} ELSE {Unreadable}) :
          /\ sampler' = Sampled([sampler EXCEPT !.age = @ + 1], r)
          /\ left' = [left EXCEPT !.ticks = @ - 1, !.moves = IF r = Unreadable THEN @ - 1 ELSE @]
    /\ UNCHANGED vars

\* A bounded world in which nothing is left to happen.
Rest == left.moves = 0 /\ UNCHANGED allVars

\* The guard has just been switched on, by any copy.
GuardOn ==
    LET m == CHOOSE x \in Copies : TRUE
        i == CHOOSE x \in Insts : TRUE
        p == CHOOSE x \in Pids : TRUE
    IN  /\ env = p /\ proc = [x \in Pids |-> IF x = p THEN "starting" ELSE "free"]
        /\ term = {} /\ stray = {} /\ host = "up" /\ faults = 0
        /\ copy = [x \in Copies |-> IF x = m THEN "on" ELSE "fresh"]
        /\ inst = [x \in Insts |-> IF x = i THEN Launched(NewInst(m), p) ELSE Unused]

SamplingInit ==
    /\ left \in Worlds /\ sampler = Off
    /\ IF left.moves = -1 THEN Init ELSE GuardOn
SamplingNext == LifeStep \/ SampleStep \/ Rest
SamplingSpec == SamplingInit /\ [][SamplingNext]_allVars /\ Fairness

-----------------------------------------------------------------------------
(* Properties                                                              *)

\* The samples of the log that the window holds at the n-th; whether they span
\* it, nearly; and by how much memory grew from the first of them to the n-th.
Inside(log, n) == {k \in 1..n : log[k].at >= GrowthWindow /\ log[k].at >= log[n].at - GrowthWindow}
Filled(log, n) == \E k \in Inside(log, n) : 10 * (log[n].at - log[k].at) >= 9 * GrowthWindow
NetGrowth(log, n) ==
    log[n].rss - log[CHOOSE k \in Inside(log, n) : \A m \in Inside(log, n) : k <= m].rss

\* By how many multiples of the limit memory grew over a window that is filled.
Multiples(log, n) == IF Filled(log, n) /\ NetGrowth(log, n) > 0 THEN NetGrowth(log, n) \div Growth ELSE 0

\* What a sentinel tells is what it measured, and it tells it all: memory when
\* every sample of a stretch as long as the sustain window was above the limit
\* and none of them in warm-up; a burst of children between two samples it
\* could count; and a leak once per multiple of the limit, until memory stops
\* growing.  Restarts, failed reads and sentinels in between carry nothing over.
AlarmsAreMeasured ==
    sampler.read =>
        LET log == sampler.log
            n   == Len(log)
            before == {k \in 1..(n - 1) : log[k].grew}
            fell(k) == \E m \in k..n : Filled(log, m) /\ NetGrowth(log, m) <= 0
        IN  /\ "mem" \in sampler.said <=>
                  \E k \in 1..n : /\ log[n].at - log[k].at >= MemSustain
                                  /\ \A m \in k..n : log[m].at >= Warmup /\ log[m].rss > MemLimit
            /\ "fork" \in sampler.said <=>
                  /\ n > 1 /\ log[n].at >= Warmup /\ log[n - 1].children # -1
                  /\ log[n].children - log[n - 1].children > ForkBurstN
            /\ log[n].grew =>
                  /\ Multiples(log, n) > 0
                  /\ \A k \in before : fell(k) \/ Multiples(log, n) > Multiples(log, k)
            /\ Multiples(log, n) > 0 /\ ~log[n].grew =>
                  \E k \in before : Multiples(log, k) >= Multiples(log, n) /\ ~fell(k)
===============================================================================
