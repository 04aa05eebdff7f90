------------------------------- MODULE Sentinel -------------------------------
(***************************************************************************)
(* The life of the T1 sentinel: the child process that watches the host's  *)
(* memory, children and descriptors while runtimeGuard is "watch".         *)
(* (guard/runtime-guard.ts, guard/runtime-sidecar.ts, and the entry of     *)
(* guard/runtime-watch.ts)                                                 *)
(*                                                                         *)
(* Several copies of the module can live in one host: a hot reload loads a *)
(* new copy, and vet can be installed twice.  All they share is a pid in   *)
(* process.env.  Every copy has at most one live installation of the       *)
(* guard; a stopped one lingers until its child's exit event and its timer *)
(* are through.                                                            *)
(*                                                                         *)
(* A dead child keeps its pid (kill(pid, 0) succeeds, its command line is  *)
(* empty) until the host's event loop delivers its exit event.             *)
(***************************************************************************)
EXTENDS Naturals, FiniteSets

CONSTANTS
    Copies,     \* module copies in the host
    NoCopy,
    Insts,      \* installations of the guard that exist at a time
    Pids,       \* process ids the sentinels of this host get
    NoPid,
    Budget,     \* MAX_RESPAWN: restarts within the window, 5
    MaxFaults,  \* bound of the model on crashes and failed spawns
    PidReuse,   \* may the system give a free pid to a foreign process
    HostDies    \* may the host die without disposing anything

ASSUME SentinelAssumption ==
    /\ NoPid \notin Pids /\ NoCopy \notin Copies
    /\ Budget \in Nat /\ MaxFaults \in Nat
    /\ PidReuse \in BOOLEAN /\ HostDies \in BOOLEAN

VARIABLES
    env,     \* DSH_VET_SIDECAR_PID
    proc,    \* [Pids -> what runs under the pid]
    term,    \* sentinels that were sent SIGTERM and are still there
    stray,   \* sentinels that took the host's adopter for their host
    copy,    \* [Copies -> "fresh", "on" or "off"], "off" is guardDisabled
    inst,    \* [Insts -> installation]
    host,    \* "up", "down", or "reused": its pid is a foreign process
    faults   \* bound of the model

vars == <<env, proc, term, stray, copy, inst, host, faults>>

\* What runs under a pid: a sentinel before and after its sibling check (it
\* watches, or it is about to exit), a child that ended (with code 0 or not)
\* and whose exit event is to come.
ProcState == {"free", "starting", "watching", "leaving", "exited", "killed", "foreign"}

Inst == [of : Copies \cup {NoCopy}, live : BOOLEAN, child : Pids \cup {NoPid}, once : BOOLEAN,
         quick : BOOLEAN, spent : 0..Budget, timer : BOOLEAN, told : BOOLEAN]

NewInst(m) == [of |-> m, live |-> TRUE, child |-> NoPid, once |-> FALSE,
               quick |-> FALSE, spent |-> 0, timer |-> FALSE, told |-> FALSE]

Unused == [NewInst(NoCopy) EXCEPT !.live = FALSE]

Live(i) == inst[i].live

\* prevGuardDisposer: the live installation of a copy.
ActiveOf(m) == {i \in Insts : Live(i) /\ inst[i].of = m}

\* A stopped installation nothing will call back any more.
Settled(r) == IF ~r.live /\ r.child = NoPid /\ ~r.timer THEN Unused ELSE r

Running(P) == {p \in Pids : P[p] \in {"starting", "watching", "leaving"}}
Free == {p \in Pids : proc[p] = "free"}

-----------------------------------------------------------------------------
(* The process table and the registry, as the synchronous code changes     *)
(* them one call after the other.                                          *)

World == [env |-> env, proc |-> proc, term |-> term]

Becomes(W) == env' = W.env /\ proc' = W.proc /\ term' = W.term

\* pidAlive
PidAlive(W, p) == p # NoPid /\ W.proc[p] # "free"

\* safeKillSidecar: only a process whose command line is a sentinel's.
SafeKill(W, p) == [W EXCEPT !.term = @ \cup ({p} \cap Running(W.proc))]

\* Mutated: the process stays and is forgotten.
DisposedBlind(W, r) == [W EXCEPT !.env = NoPid]

\* The disposer of installSidecar: whoever is registered is told to stop; if
\* nobody is, the own child.
Disposed(W, r) ==
    IF PidAlive(W, W.env) THEN [SafeKill(W, W.env) EXCEPT !.env = NoPid]
                          ELSE SafeKill(W, r.child)

\* The previous installation of copy m is disposed.
StoppedPrev(m) ==
    IF ActiveOf(m) = {} THEN World ELSE Disposed(World, inst[CHOOSE i \in ActiveOf(m) : TRUE])

StoppedInsts(m) == [i \in Insts |-> IF i \in ActiveOf(m) THEN Settled([inst[i] EXCEPT !.live = FALSE])
                                                         ELSE inst[i]]

\* Mutated: the registered sentinel is replaced without being stopped.
SpawnedBeside(W, p) ==
    [W EXCEPT !.env = p, !.proc = IF p = NoPid THEN @ ELSE [@ EXCEPT ![p] = "starting"]]

\* spawnSidecar past its early returns: a registered process is told to stop,
\* the new child is registered.  p = NoPid when the spawn fails.
Spawned(W, p) ==
    LET calm == IF PidAlive(W, W.env) THEN SafeKill(W, W.env) ELSE W
    IN  [calm EXCEPT !.env = p,
                     !.proc = IF p = NoPid THEN @ ELSE [@ EXCEPT ![p] = "starting"]]

\* An installation that had a child before leaves a registered process alone.
Yields(W, r) == r.once /\ PidAlive(W, W.env)

Launched(r, p) == [r EXCEPT !.child = p, !.once = TRUE, !.quick = TRUE,
                            !.told = @ \/ p = NoPid]

\* What a spawn may get: a free pid, or a failure.
SpawnTargets == Free \cup (IF faults < MaxFaults THEN {NoPid} ELSE {})

Faulted(p) == faults' = IF p = NoPid THEN faults + 1 ELSE faults

-----------------------------------------------------------------------------
(* The host's side.                                                        *)

\* installRuntimeGuard in watch mode: apply(), or the panel's switch.
Install(m, i, p) ==
    /\ host = "up" /\ inst[i] = Unused /\ p \in SpawnTargets
    /\ Becomes(Spawned(StoppedPrev(m), p))
    /\ inst' = [StoppedInsts(m) EXCEPT ![i] = Launched(NewInst(m), p)]
    /\ copy' = [copy EXCEPT ![m] = "on"]
    /\ Faulted(p)
    /\ UNCHANGED <<stray, host>>

\* The hooks cannot be installed: the new installation is disposed again and
\* applyRuntimeGuardImmediate leaves the copy disabled.
InstallFails(m, i, p) ==
    LET r == Launched(NewInst(m), p)
    IN  /\ host = "up" /\ inst[i] = Unused /\ p \in SpawnTargets
        /\ Becomes(Disposed(Spawned(StoppedPrev(m), p), r))
        /\ inst' = [StoppedInsts(m) EXCEPT ![i] = Settled([r EXCEPT !.live = FALSE])]
        /\ copy' = [copy EXCEPT ![m] = "off"]
        /\ Faulted(p)
        /\ UNCHANGED <<stray, host>>

\* disposeActiveGuard: the plugin's context ends.
Dispose(m) ==
    /\ host = "up" /\ copy[m] = "on"
    /\ Becomes(StoppedPrev(m))
    /\ inst' = StoppedInsts(m)
    /\ copy' = [copy EXCEPT ![m] = "off"]
    /\ UNCHANGED <<stray, host, faults>>

\* installRuntimeGuard in any other mode: also the registered sentinel of
\* another copy is told to stop (killSidecarFromEnv).
SwitchOff(m) ==
    LET W == StoppedPrev(m)
    IN  /\ host = "up"
        /\ Becomes([SafeKill(W, W.env) EXCEPT !.env = NoPid])
        /\ inst' = StoppedInsts(m)
        /\ copy' = [copy EXCEPT ![m] = "off"]
        /\ UNCHANGED <<stray, host, faults>>

\* The respawn timer: 5 s after an unexpected exit.
Respawn(i, p) ==
    LET r == [inst[i] EXCEPT !.timer = FALSE]
    IN  /\ host = "up" /\ inst[i].timer
        /\ IF ~r.live \/ copy[r.of] = "off" \/ Yields(World, r)
           THEN /\ p = NoPid
                /\ inst' = [inst EXCEPT ![i] = Settled(r)]
                /\ UNCHANGED <<env, proc, term, faults>>
           ELSE /\ p \in SpawnTargets
                /\ Becomes(Spawned(World, p))
                /\ inst' = [inst EXCEPT ![i] = Launched(r, p)]
                /\ Faulted(p)
        /\ UNCHANGED <<stray, copy, host>>

\* decideRespawn: only the registered child is restarted, within the budget.
DecideRespawn(r) == env = r.child /\ r.spent < Budget

\* Mutated: nobody is told about an exit that is not restarted.
ToldOnRespawn(r) == DecideRespawn(r)

\* The exit raises the sentinel-down row.
Told(r) == TRUE

\* A child that stood down at once for a dying sibling costs no budget.
Costs(r) == ~(proc[r.child] = "exited" /\ r.quick)

\* The exit event of an installation's child.
ExitEvent(i) ==
    LET r == inst[i]
        again == r.live /\ DecideRespawn(r)
    IN  /\ host = "up" /\ r.child # NoPid
        /\ proc[r.child] \in {"exited", "killed"}
        /\ proc' = [proc EXCEPT ![r.child] = "free"]
        /\ term' = term \ {r.child}
        /\ inst' = [inst EXCEPT ![i] = Settled(
               [r EXCEPT !.child = NoPid,
                         !.timer = again,
                         !.told  = @ \/ (r.live /\ Told(r)),
                         !.spent = IF again /\ Costs(r) THEN @ + 1 ELSE @])]
        /\ UNCHANGED <<env, stray, copy, host, faults>>

\* Three seconds pass since the last spawn; the oldest counted restart leaves
\* the 30 minute window.
Slow(i) ==
    /\ Live(i) /\ inst[i].child # NoPid /\ inst[i].quick
    /\ inst' = [inst EXCEPT ![i].quick = FALSE]
    /\ UNCHANGED <<env, proc, term, stray, copy, host, faults>>

Recover(i) ==
    /\ Live(i) /\ inst[i].spent > 0
    /\ inst' = [inst EXCEPT ![i].spent = @ - 1]
    /\ UNCHANGED <<env, proc, term, stray, copy, host, faults>>

-----------------------------------------------------------------------------
(* The sentinels and the system.                                           *)

\* A dead child of a living host waits for its exit event.
Ended(how) == IF host = "up" THEN how ELSE "free"

\* Mutated: nobody looks for siblings.
NoSiblings(p) == {}

\* siblingSidecarPids: the host's other children with a sentinel's command
\* line.  (A process table that cannot be read counts as empty; not modelled.)
Siblings(p) == Running(proc) \ {p}

\* sidecarMain: read the parent, stand down for a sibling, or watch.
Start(p) ==
    /\ proc[p] = "starting"
    /\ proc' = [proc EXCEPT ![p] = IF Siblings(p) = {} THEN "watching" ELSE "leaving"]
    /\ stray' = IF host # "up" /\ Siblings(p) = {} THEN stray \cup {p} ELSE stray
    /\ UNCHANGED <<env, term, copy, inst, host, faults>>

\* Mutated: only kill(hostPid, 0) is asked.
HostPidFree(p) == host = "down"

\* A tick ends the sentinel when its host is gone: kill(hostPid, 0) fails or
\* its parent changed.  The adopter of a stray one stays.
HostGone(p) == host # "up" /\ p \notin stray

Die(p, how) ==
    /\ proc' = [proc EXCEPT ![p] = Ended(how)]
    /\ term' = term \ {p} /\ stray' = stray \ {p}
    /\ UNCHANGED <<env, copy, inst, host>>

\* process.exit(0) of one that stands down, which its own siblings see until
\* it is through.
Leave(p) == proc[p] = "leaving" /\ Die(p, "exited") /\ UNCHANGED faults

Tick(p) == proc[p] = "watching" /\ HostGone(p) /\ Die(p, "exited") /\ UNCHANGED faults

\* An alarm is written after the host closed its end of the pipe.
PipeCloses(p) ==
    /\ proc[p] = "watching" /\ host # "up"
    /\ Die(p, "exited")
    /\ UNCHANGED faults

\* SIGTERM takes effect, sooner or later.
Terminate(p) == p \in term /\ Die(p, "killed") /\ UNCHANGED faults

Crash(p) ==
    /\ p \in Running(proc) /\ faults < MaxFaults
    /\ Die(p, "killed")
    /\ faults' = faults + 1

\* The host dies without disposing; what it left as zombies is reaped.
HostDeath ==
    /\ HostDies /\ host = "up"
    /\ host' = "down"
    /\ env' = NoPid
    /\ proc' = [p \in Pids |-> IF p \in Running(proc) THEN proc[p] ELSE "free"]
    /\ inst' = [i \in Insts |-> Unused]
    /\ copy' = [m \in Copies |-> "off"]
    /\ UNCHANGED <<term, stray, faults>>

\* A foreign process gets the dead host's pid, and ends in its turn.
HostPidReused ==
    /\ host # "up" /\ host' \in {"down", "reused"} \ {host}
    /\ UNCHANGED <<env, proc, term, stray, copy, inst, faults>>

\* A foreign process gets the registered pid, or ends.
Recycle(p) ==
    /\ PidReuse /\ host = "up" /\ env = p
    /\ \/ proc[p] = "free" /\ proc' = [proc EXCEPT ![p] = "foreign"]
       \/ proc[p] = "foreign" /\ proc' = [proc EXCEPT ![p] = "free"]
    /\ UNCHANGED <<env, term, stray, copy, inst, host, faults>>

Init ==
    /\ env = NoPid
    /\ proc = [p \in Pids |-> "free"]
    /\ term = {} /\ stray = {}
    /\ copy = [m \in Copies |-> "fresh"]
    /\ inst = [i \in Insts |-> Unused]
    /\ host = "up" /\ faults = 0

Next ==
    \/ \E m \in Copies, i \in Insts, p \in Pids \cup {NoPid} :
           Install(m, i, p) \/ InstallFails(m, i, p)
    \/ \E m \in Copies : Dispose(m) \/ SwitchOff(m)
    \/ \E i \in Insts, p \in Pids \cup {NoPid} : Respawn(i, p)
    \/ \E i \in Insts : ExitEvent(i) \/ Slow(i) \/ Recover(i)
    \/ \E p \in Pids : \/ Start(p) \/ Leave(p) \/ Tick(p) \/ PipeCloses(p)
                       \/ Terminate(p) \/ Crash(p) \/ Recycle(p)
    \/ HostDeath
    \/ HostPidReused

Spec == Init /\ [][Next]_vars

\* Started processes run, signals arrive, ticks and timers fire and the event
\* loop delivers exits.  Nothing forces a user, a fault or the clock.
Fairness ==
    /\ \A p \in Pids : /\ WF_vars(Start(p)) /\ WF_vars(Leave(p))
                       /\ WF_vars(Tick(p)) /\ WF_vars(Terminate(p))
    /\ \A i \in Insts : WF_vars(ExitEvent(i)) /\ WF_vars(\E p \in Pids \cup {NoPid} : Respawn(i, p))

FairSpec == Spec /\ Fairness

-----------------------------------------------------------------------------
(* Properties                                                              *)

\* A child is there, on its way out, or on its way back.
Attended(i) == inst[i].child # NoPid \/ inst[i].timer

\* No other copy of vet ever ran in this host.
Alone == \A m, n \in Copies : copy[m] # "fresh" /\ copy[n] # "fresh" => m = n

\* Type invariant.
TypeOK ==
    /\ env \in Pids \cup {NoPid}
    /\ proc \in [Pids -> ProcState]
    /\ term \subseteq Running(proc) /\ stray \subseteq Running(proc)
    /\ copy \in [Copies -> {"fresh", "on", "off"}]
    /\ inst \in [Insts -> Inst]
    /\ host \in {"up", "down", "reused"}
    /\ faults \in 0..MaxFaults

\* However often the guard is applied, taken over, restarted or reloaded, one
\* host never has two sentinels watching it.  (siblingSidecarPids, D30)
OneWatcher ==
    \A p, q \in Pids : proc[p] = "watching" /\ proc[q] = "watching" => p = q

\* Once no copy guards the host, no sentinel stays: each one that still runs
\* has been told to end, also one that another copy started or that is on its
\* way up, and no pending restart brings it back.  (runtime-guard
\* 156-165, 409-421; docs/ARCHITECTURE.md:77 "off/uninstall scenarios don't resurrect it")
OffIsOff ==
    host = "up" /\ (\A i \in Insts : ~Live(i)) => Running(proc) \subseteq term

\* A guard that stays on without a sentinel has said so on its board.
\* (runtime-guard 372 and 385)
LossIsVisible ==
    \A i \in Insts : Live(i) /\ ~Attended(i) => inst[i].told

\* A guard that is on and alone gets a watching sentinel, however many dying
\* predecessors the new one first has to stand down for, unless it lost its
\* sentinel for good.
GuardServed ==
    \A i \in Insts :
        Live(i) ~> \/ ~Live(i)
                   \/ inst[i].child # NoPid /\ proc[inst[i].child] = "watching"
                   \/ ~Attended(i) \/ ~Alone

\* A sentinel that watches a host ends when the host does, also when the
\* system gives the host's pid to another process.  (hostPpidChanged, S6)
WatcherFollowsHost ==
    \A p \in Pids : host # "up" /\ proc[p] = "watching" /\ p \notin stray
                    ~> proc[p] # "watching" \/ p \in stray

=============================================================================
