---------------------------- MODULE SentinelProofs ----------------------------
(***************************************************************************)
(* Proofs about Sentinel, for any number of module copies, installations   *)
(* and pids and any restart budget, and about Sampling, for any limits,    *)
(* windows and readings.                                                   *)
(*                                                                         *)
(* The argument for OffIsOff: what runs and was not told to end is the     *)
(* registered process (the handlers stop whatever is registered before     *)
(* they register anything else), and it is the child of a live             *)
(* installation.                                                           *)
(*                                                                         *)
(* The argument for AlarmsAreMeasured: whatever was read, the log tells    *)
(* what the sampler's few variables say.  overSince is where the run of    *)
(* high samples at the end of the log begins, the window is the end of the *)
(* log from its earliest sample inside on, prev is its last sample, and    *)
(* growthMultiples is the most that was told since memory last fell.       *)
(***************************************************************************)
EXTENDS Sampling, SequenceTheorems, WellFoundedInduction, TLAPS

\* A state of the process table and the registry.
Table == [env : Pids \cup {NoPid}, proc : [Pids -> ProcState], term : SUBSET Pids]

\* The sentinels nobody told to end.
Unstopped(W) == Running(W.proc) \ W.term

\* Only sentinels are told to end, and who was not is registered.
Sound(W) ==
    /\ W \in Table
    /\ W.term \subseteq Running(W.proc)
    /\ Unstopped(W) \subseteq {W.env}

\* While the host is up: the registry is sound, ...
Registered == host = "up" => Unstopped(World) \subseteq {env}

\* ... an unstopped sentinel has a live installation that listens to it, ...
Owned == host = "up" => \A p \in Unstopped(World) : \E i \in Insts : Live(i) /\ inst[i].child = p

\* ... and who lost a child has said so before the timer brings the next.
ToldEarly == \A i \in Insts : Live(i) /\ (inst[i].child = NoPid \/ inst[i].timer) => inst[i].told

SentinelInv == TypeOK /\ OneWatcher /\ Registered /\ Owned /\ ToldEarly

-----------------------------------------------------------------------------
(* The process table.                                                      *)

\* A kill stops the one it names, if it is a sentinel, and nothing else.
LEMMA SafeKillFacts ==
    ASSUME NEW W, Sound(W), NEW p \in Pids \cup {NoPid}
    PROVE  /\ Sound(SafeKill(W, p))
           /\ SafeKill(W, p).env = W.env /\ SafeKill(W, p).proc = W.proc
           /\ Unstopped(SafeKill(W, p)) = Unstopped(W) \ {p}
<1> DEFINE K == SafeKill(W, p)
<1>1. K = [W EXCEPT !.term = W.term \cup ({p} \cap Running(W.proc))]  BY DEF SafeKill
<1>2. W \in Table  BY DEF Sound
<1>3. K \in Table /\ K.env = W.env /\ K.proc = W.proc
      /\ K.term = W.term \cup ({p} \cap Running(W.proc))
  BY <1>1, <1>2 DEF Table, Running
<1>4. Unstopped(K) = Unstopped(W) \ {p}  BY <1>3 DEF Unstopped
<1>5. K.term \subseteq Running(K.proc)  BY <1>3 DEF Sound
<1> HIDE DEF K
<1>6. Sound(K)  BY <1>3, <1>4, <1>5 DEF Sound
<1> QED  BY <1>3, <1>4, <1>6 DEF K

\* Forgetting the registered process after it was stopped keeps the table sound.
LEMMA ForgetFacts ==
    ASSUME NEW W, Sound(W), Unstopped(W) = {}
    PROVE  /\ Sound([W EXCEPT !.env = NoPid]) /\ Unstopped([W EXCEPT !.env = NoPid]) = {}
           /\ [W EXCEPT !.env = NoPid].proc = W.proc
<1> DEFINE F == [W EXCEPT !.env = NoPid]
<1>1. W \in Table  BY DEF Sound
<1>2. F \in Table /\ F.proc = W.proc /\ F.term = W.term /\ F.env = NoPid  BY <1>1 DEF Table
<1>3. Unstopped(F) = {} /\ F.term \subseteq Running(F.proc)  BY <1>2 DEF Unstopped, Sound
<1> HIDE DEF F
<1>4. Sound(F)  BY <1>2, <1>3 DEF Sound
<1> QED  BY <1>2, <1>3, <1>4 DEF F

\* A dead or unknown registered process means that nobody is unstopped.
LEMMA NotAlive ==
    ASSUME NEW W, Sound(W), ~PidAlive(W, W.env)
    PROVE  Unstopped(W) = {}
<1> SUFFICES ASSUME NEW p \in Unstopped(W) PROVE FALSE  OBVIOUS
<1>1. p = W.env /\ p \in Running(W.proc)  BY DEF Sound, Unstopped
<1>2. p # NoPid /\ W.proc[p] # "free"  BY <1>1, SentinelAssumption DEF Running
<1> QED  BY <1>1, <1>2 DEF PidAlive

\* Killing the registered process leaves nobody unstopped.
LEMMA KillRegistered ==
    ASSUME NEW W, Sound(W)
    PROVE  /\ Sound(SafeKill(W, W.env)) /\ Unstopped(SafeKill(W, W.env)) = {}
           /\ SafeKill(W, W.env).proc = W.proc
<1>1. W.env \in Pids \cup {NoPid}  BY DEF Sound, Table
<1>2. Unstopped(W) \subseteq {W.env}  BY DEF Sound
<1> QED  BY <1>1, <1>2, SafeKillFacts

\* The disposer leaves nobody unstopped.
LEMMA DisposedFacts ==
    ASSUME NEW W, Sound(W), NEW r \in Inst
    PROVE  /\ Sound(Disposed(W, r)) /\ Unstopped(Disposed(W, r)) = {}
           /\ Disposed(W, r).proc = W.proc
<1>1. CASE PidAlive(W, W.env)
  <2> DEFINE K == SafeKill(W, W.env)
  <2>1. Disposed(W, r) = [K EXCEPT !.env = NoPid]  BY <1>1 DEF Disposed
  <2>2. Sound(K) /\ Unstopped(K) = {} /\ K.proc = W.proc  BY KillRegistered
  <2> HIDE DEF K
  <2> QED  BY <2>1, <2>2, ForgetFacts
<1>2. CASE ~PidAlive(W, W.env)
  <2>1. Unstopped(W) = {}  BY <1>2, NotAlive
  <2>2. Disposed(W, r) = SafeKill(W, r.child)  BY <1>2 DEF Disposed
  <2>3. r.child \in Pids \cup {NoPid}  BY DEF Inst
  <2> QED  BY <2>1, <2>2, <2>3, SafeKillFacts
<1> QED  BY <1>1, <1>2

\* A spawn stops what is registered and registers its child; nothing else runs
\* on unstopped.
LEMMA SpawnedFacts ==
    ASSUME NEW W, Sound(W), NEW p \in Pids \cup {NoPid},
           p \in Pids => W.proc[p] = "free"
    PROVE  /\ Sound(Spawned(W, p)) /\ Unstopped(Spawned(W, p)) \subseteq {p} \cap Pids
           /\ Spawned(W, p).env = p
           /\ Spawned(W, p).proc = IF p = NoPid THEN W.proc ELSE [W.proc EXCEPT ![p] = "starting"]
           /\ p = NoPid => Unstopped(Spawned(W, p)) = {}
<1> DEFINE C == IF PidAlive(W, W.env) THEN SafeKill(W, W.env) ELSE W
           S == Spawned(W, p)
<1>1. Sound(C) /\ Unstopped(C) = {} /\ C.proc = W.proc
  <2>1. CASE PidAlive(W, W.env)  BY <2>1, KillRegistered
  <2>2. CASE ~PidAlive(W, W.env)  BY <2>2, NotAlive
  <2> QED  BY <2>1, <2>2
<1>2. S = [C EXCEPT !.env = p,
                    !.proc = IF p = NoPid THEN C.proc ELSE [C.proc EXCEPT ![p] = "starting"]]
  BY DEF Spawned
<1> HIDE DEF C, S
<1>3. C \in Table /\ C.term \subseteq Running(C.proc)  BY <1>1 DEF Sound
<1>4. /\ S.env = p /\ S.term = C.term
      /\ S.proc = IF p = NoPid THEN C.proc ELSE [C.proc EXCEPT ![p] = "starting"]
      /\ S \in Table
  BY <1>2, <1>3 DEF Table, ProcState
<1>5. Running(C.proc) \subseteq Running(S.proc) /\ Running(S.proc) \subseteq Running(C.proc) \cup ({p} \cap Pids)
  <2>1. CASE p = NoPid  BY <2>1, <1>4
  <2>2. CASE p # NoPid
    <3>1. S.proc = [C.proc EXCEPT ![p] = "starting"] /\ C.proc \in [Pids -> ProcState] /\ p \in Pids
      BY <2>2, <1>3, <1>4 DEF Table
    <3> QED  BY <3>1 DEF Running
  <2> QED  BY <2>1, <2>2
<1>6. S.term \subseteq Running(S.proc)  BY <1>3, <1>4, <1>5
<1>7. Unstopped(S) \subseteq {p} \cap Pids  BY <1>1, <1>4, <1>5 DEF Unstopped
<1>8. p = NoPid => Unstopped(S) = {}  BY <1>1, <1>4 DEF Unstopped
<1>9. Sound(S)  BY <1>4, <1>6, <1>7 DEF Sound
<1> QED  BY <1>1, <1>4, <1>7, <1>8, <1>9 DEF S

\* In a state of the invariant the table is sound as long as the host is up.
LEMMA WorldSound ==
    ASSUME TypeOK, Registered, host = "up"
    PROVE  Sound(World)
<1>1. World \in Table  BY DEF World, Table, TypeOK, Running
<1>2. World.env = env /\ World.proc = proc /\ World.term = term  BY DEF World
<1>3. World.term \subseteq Running(World.proc)  BY <1>2 DEF TypeOK
<1>4. Unstopped(World) \subseteq {World.env}  BY <1>2 DEF Registered
<1> QED  BY <1>1, <1>3, <1>4 DEF Sound

\* After the previous installation of a copy was disposed the table is sound,
\* and if there was one, nobody is unstopped.
LEMMA StoppedPrevFacts ==
    ASSUME TypeOK, Registered, host = "up", NEW m \in Copies
    PROVE  /\ Sound(StoppedPrev(m)) /\ StoppedPrev(m).proc = proc
           /\ ActiveOf(m) = {} => StoppedPrev(m) = World
           /\ ActiveOf(m) # {} => Unstopped(StoppedPrev(m)) = {}
<1>1. Sound(World) /\ World.proc = proc  BY WorldSound DEF World
<1>2. CASE ActiveOf(m) = {}  BY <1>1, <1>2 DEF StoppedPrev
<1>3. CASE ActiveOf(m) # {}
  <2> DEFINE r == inst[CHOOSE i \in ActiveOf(m) : TRUE]
  <2>1. r \in Inst  BY <1>3 DEF ActiveOf, TypeOK
  <2>2. StoppedPrev(m) = Disposed(World, r)  BY <1>3 DEF StoppedPrev
  <2> HIDE DEF r
  <2> QED  BY <1>1, <1>3, <2>1, <2>2, DisposedFacts
<1> QED  BY <1>2, <1>3

-----------------------------------------------------------------------------
(* Installations.                                                          *)

LEMMA UnusedType == Unused \in Inst /\ ~Unused.live
<1> DEFINE r == NewInst(NoCopy)
<1>1. r \in Inst  BY SentinelAssumption DEF NewInst, Inst
<1> HIDE DEF r
<1>2. [r EXCEPT !.live = FALSE] \in Inst /\ ~[r EXCEPT !.live = FALSE].live  BY <1>1 DEF Inst
<1> QED  BY <1>2 DEF Unused, r

LEMMA SettledFacts ==
    ASSUME NEW r \in Inst
    PROVE  /\ Settled(r) \in Inst /\ Settled(r).live = r.live
           /\ r.live => Settled(r) = r
BY UnusedType DEF Settled, Inst

LEMMA LaunchedFacts ==
    ASSUME NEW r \in Inst, NEW p \in Pids \cup {NoPid}
    PROVE  /\ Launched(r, p) \in Inst
           /\ Launched(r, p).child = p /\ Launched(r, p).live = r.live
           /\ Launched(r, p).timer = r.timer
           /\ p = NoPid => Launched(r, p).told
BY DEF Launched, Inst

LEMMA NewInstFacts ==
    ASSUME NEW m \in Copies
    PROVE  NewInst(m) \in Inst /\ NewInst(m).live /\ ~NewInst(m).timer
BY SentinelAssumption DEF NewInst, Inst

\* Disposing a copy ends its live installation and touches no other.
LEMMA StoppedInstsFacts ==
    ASSUME TypeOK, NEW m \in Copies
    PROVE  /\ StoppedInsts(m) \in [Insts -> Inst]
           /\ \A i \in Insts : StoppedInsts(m)[i].live =>
                  Live(i) /\ StoppedInsts(m)[i] = inst[i]
           /\ ActiveOf(m) = {} => StoppedInsts(m) = inst
<1>1. ASSUME NEW i \in Insts
      PROVE  /\ StoppedInsts(m)[i] \in Inst
             /\ StoppedInsts(m)[i].live => Live(i) /\ StoppedInsts(m)[i] = inst[i]
  <2>1. inst[i] \in Inst /\ [inst[i] EXCEPT !.live = FALSE] \in Inst
        /\ ~[inst[i] EXCEPT !.live = FALSE].live
    BY DEF TypeOK, Inst
  <2>2. CASE i \in ActiveOf(m)
    <3>1. StoppedInsts(m)[i] = Settled([inst[i] EXCEPT !.live = FALSE])
      BY <2>2 DEF StoppedInsts
    <3> QED  BY <2>1, <3>1, SettledFacts
  <2>3. CASE i \notin ActiveOf(m)  BY <2>1, <2>3 DEF StoppedInsts, Live
  <2> QED  BY <2>2, <2>3
<1>2. ActiveOf(m) = {} => StoppedInsts(m) = inst  BY DEF StoppedInsts, TypeOK
<1>3. StoppedInsts(m) \in [Insts -> Inst]  BY <1>1 DEF StoppedInsts
<1> QED  BY <1>1, <1>2, <1>3

-----------------------------------------------------------------------------
(* The handlers of the host.                                               *)

\* A handler that leaves the host a sound table, with no new watcher.
LEMMA TableKept ==
    ASSUME TypeOK, OneWatcher, NEW W, Sound(W), Becomes(W), UNCHANGED <<stray, host>>,
           Running(proc) \subseteq Running(W.proc),
           \A p \in Pids : W.proc[p] = "watching" => proc[p] = "watching"
    PROVE  /\ env' \in Pids \cup {NoPid} /\ proc' \in [Pids -> ProcState]
           /\ (term \subseteq Running(proc))' /\ (stray \subseteq Running(proc))'
           /\ host' \in {"up", "down", "reused"}
           /\ OneWatcher' /\ Registered' /\ (Unstopped(World))' = Unstopped(W)
<1>1. env' = W.env /\ proc' = W.proc /\ term' = W.term  BY DEF Becomes
<1>2. W \in Table /\ W.term \subseteq Running(W.proc) /\ Unstopped(W) \subseteq {W.env}  BY DEF Sound
<1>3. env' \in Pids \cup {NoPid} /\ proc' \in [Pids -> ProcState]  BY <1>1, <1>2 DEF Table
<1>4. (term \subseteq Running(proc))' /\ (stray \subseteq Running(proc))'
  BY <1>1, <1>2 DEF TypeOK, Running
<1>5. OneWatcher'  BY <1>1 DEF OneWatcher
<1>6. (Unstopped(World))' = Unstopped(W)  BY <1>1 DEF Unstopped, World, Running
<1>7. Registered'  BY <1>1, <1>2, <1>6 DEF Registered
<1> QED  BY <1>3, <1>4, <1>5, <1>6, <1>7 DEF TypeOK

\* The bound on failed spawns.
LEMMA FaultsKept ==
    ASSUME TypeOK, NEW p \in SpawnTargets, Faulted(p)
    PROVE  faults' \in 0..MaxFaults
<1>1. p = NoPid => faults < MaxFaults  BY SentinelAssumption DEF SpawnTargets, Free
<1> QED  BY <1>1, SentinelAssumption DEF Faulted, TypeOK

\* A spawn over the table W, which runs what the host runs.
LEMMA SpawnKept ==
    ASSUME TypeOK, NEW W, Sound(W), W.proc = proc, NEW p \in SpawnTargets
    PROVE  /\ p \in Pids \cup {NoPid}
           /\ Sound(Spawned(W, p)) /\ Unstopped(Spawned(W, p)) \subseteq {p} \cap Pids
           /\ Spawned(W, p).env = p
           /\ Running(proc) \subseteq Running(Spawned(W, p).proc)
           /\ \A q \in Pids : Spawned(W, p).proc[q] = "watching" => proc[q] = "watching"
<1>1. p \in Pids \cup {NoPid} /\ (p \in Pids => proc[p] = "free")
  BY SentinelAssumption DEF SpawnTargets, Free
<1>2. /\ Sound(Spawned(W, p)) /\ Unstopped(Spawned(W, p)) \subseteq {p} \cap Pids
      /\ Spawned(W, p).env = p
      /\ Spawned(W, p).proc = IF p = NoPid THEN proc ELSE [proc EXCEPT ![p] = "starting"]
  BY <1>1, SpawnedFacts
<1>3. proc \in [Pids -> ProcState]  BY DEF TypeOK
<1>4. Running(proc) \subseteq Running(Spawned(W, p).proc)
      /\ \A q \in Pids : Spawned(W, p).proc[q] = "watching" => proc[q] = "watching"
  <2>1. CASE p = NoPid  BY <1>2, <2>1
  <2>2. CASE p # NoPid
    <3>1. p \in Pids /\ proc[p] = "free"  BY <1>1, <2>2
    <3>2. Spawned(W, p).proc = [proc EXCEPT ![p] = "starting"]  BY <1>2, <2>2
    <3> QED  BY <1>3, <3>1, <3>2 DEF Running
  <2> QED  BY <2>1, <2>2
<1> QED  BY <1>1, <1>2, <1>4

LEMMA InstallStep ==
    ASSUME SentinelInv, NEW m \in Copies, NEW i \in Insts, NEW p \in Pids \cup {NoPid},
           Install(m, i, p)
    PROVE  SentinelInv'
<1> DEFINE W == Spawned(StoppedPrev(m), p)
           r == Launched(NewInst(m), p)
<1>1. host = "up" /\ p \in SpawnTargets /\ Becomes(W) /\ Faulted(p)
      /\ UNCHANGED <<stray, host>> /\ TypeOK /\ OneWatcher /\ Registered /\ ToldEarly
  BY DEF Install, SentinelInv
<1>2. Sound(StoppedPrev(m)) /\ StoppedPrev(m).proc = proc  BY <1>1, StoppedPrevFacts
<1>3. Sound(W) /\ Unstopped(W) \subseteq {p} \cap Pids
      /\ Running(proc) \subseteq Running(W.proc)
      /\ \A q \in Pids : W.proc[q] = "watching" => proc[q] = "watching"
  BY <1>1, <1>2, SpawnKept
<1>4. inst' = [StoppedInsts(m) EXCEPT ![i] = r] /\ copy' = [copy EXCEPT ![m] = "on"]
  BY DEF Install
<1>5. r \in Inst /\ r.live /\ r.child = p /\ ~r.timer /\ (p = NoPid => r.told)
  BY NewInstFacts, LaunchedFacts
<1> HIDE DEF W, r
<1>6. /\ env' \in Pids \cup {NoPid} /\ proc' \in [Pids -> ProcState]
      /\ (term \subseteq Running(proc))' /\ (stray \subseteq Running(proc))'
      /\ host' \in {"up", "down", "reused"}
      /\ OneWatcher' /\ Registered' /\ (Unstopped(World))' = Unstopped(W)
  BY <1>1, <1>3, TableKept
<1>7. StoppedInsts(m) \in [Insts -> Inst]
      /\ \A j \in Insts : StoppedInsts(m)[j].live => Live(j) /\ StoppedInsts(m)[j] = inst[j]
  BY <1>1, StoppedInstsFacts
<1>8. inst' \in [Insts -> Inst] /\ inst'[i] = r
      /\ \A j \in Insts \ {i} : inst'[j] = StoppedInsts(m)[j]
  BY <1>4, <1>5, <1>7
<1>9. copy' \in [Copies -> {"fresh", "on", "off"}]  BY <1>1, <1>4 DEF TypeOK
<1>10. TypeOK'  BY <1>1, <1>6, <1>8, <1>9, FaultsKept DEF TypeOK
<1>11. Owned'
  <2>1. \A q \in (Unstopped(World))' : q = inst'[i].child  BY <1>3, <1>5, <1>6, <1>8
  <2> QED  BY <1>5, <1>8, <2>1 DEF Owned, Live
<1>12. ToldEarly'
  <2> SUFFICES ASSUME NEW j \in Insts, inst'[j].live, inst'[j].child = NoPid \/ inst'[j].timer
               PROVE  inst'[j].told
    BY DEF ToldEarly, Live
  <2>1. CASE j = i  BY <1>5, <1>8, <2>1
  <2>2. CASE j # i  BY <1>1, <1>7, <1>8, <2>2 DEF ToldEarly
  <2> QED  BY <2>1, <2>2
<1> QED  BY <1>6, <1>10, <1>11, <1>12 DEF SentinelInv

LEMMA InstallFailsStep ==
    ASSUME SentinelInv, NEW m \in Copies, NEW i \in Insts, NEW p \in Pids \cup {NoPid},
           InstallFails(m, i, p)
    PROVE  SentinelInv'
<1> DEFINE V == Spawned(StoppedPrev(m), p)
           r == Launched(NewInst(m), p)
           W == Disposed(V, r)
<1>1. host = "up" /\ p \in SpawnTargets /\ Becomes(W) /\ Faulted(p)
      /\ UNCHANGED <<stray, host>> /\ TypeOK /\ OneWatcher /\ Registered /\ ToldEarly
  BY DEF InstallFails, SentinelInv
<1>2. Sound(StoppedPrev(m)) /\ StoppedPrev(m).proc = proc  BY <1>1, StoppedPrevFacts
<1>3. Sound(V) /\ Running(proc) \subseteq Running(V.proc)
      /\ \A q \in Pids : V.proc[q] = "watching" => proc[q] = "watching"
  BY <1>1, <1>2, SpawnKept
<1>4. inst' = [StoppedInsts(m) EXCEPT ![i] = Settled([r EXCEPT !.live = FALSE])]
      /\ copy' = [copy EXCEPT ![m] = "off"]
  BY DEF InstallFails
<1>5. r \in Inst  BY NewInstFacts, LaunchedFacts
<1> HIDE DEF V, r
<1>6. Sound(W) /\ Unstopped(W) = {} /\ W.proc = V.proc  BY <1>3, <1>5, DisposedFacts
<1>7. [r EXCEPT !.live = FALSE] \in Inst /\ ~[r EXCEPT !.live = FALSE].live  BY <1>5 DEF Inst
<1>8. Settled([r EXCEPT !.live = FALSE]) \in Inst /\ ~Settled([r EXCEPT !.live = FALSE]).live
  BY <1>7, SettledFacts
<1> HIDE DEF W
<1>9. /\ env' \in Pids \cup {NoPid} /\ proc' \in [Pids -> ProcState]
      /\ (term \subseteq Running(proc))' /\ (stray \subseteq Running(proc))'
      /\ host' \in {"up", "down", "reused"}
      /\ OneWatcher' /\ Registered' /\ (Unstopped(World))' = Unstopped(W)
  BY <1>1, <1>3, <1>6, TableKept
<1>10. StoppedInsts(m) \in [Insts -> Inst]
       /\ \A j \in Insts : StoppedInsts(m)[j].live => Live(j) /\ StoppedInsts(m)[j] = inst[j]
  BY <1>1, StoppedInstsFacts
<1>11. inst' \in [Insts -> Inst] /\ ~inst'[i].live
       /\ \A j \in Insts \ {i} : inst'[j] = StoppedInsts(m)[j]
  BY <1>4, <1>8, <1>10
<1>12. copy' \in [Copies -> {"fresh", "on", "off"}]  BY <1>1, <1>4 DEF TypeOK
<1>13. TypeOK'  BY <1>1, <1>9, <1>11, <1>12, FaultsKept DEF TypeOK
<1>14. Owned'  BY <1>6, <1>9 DEF Owned
<1>15. ToldEarly'  BY <1>1, <1>10, <1>11 DEF ToldEarly, Live
<1> QED  BY <1>9, <1>13, <1>14, <1>15 DEF SentinelInv

LEMMA DisposeStep ==
    ASSUME SentinelInv, NEW m \in Copies, Dispose(m)
    PROVE  SentinelInv'
<1> DEFINE W == StoppedPrev(m)
<1>1. host = "up" /\ Becomes(W) /\ inst' = StoppedInsts(m) /\ copy' = [copy EXCEPT ![m] = "off"]
      /\ UNCHANGED <<stray, host, faults>> /\ TypeOK /\ OneWatcher /\ Registered /\ Owned /\ ToldEarly
  BY DEF Dispose, SentinelInv
<1>2. /\ Sound(W) /\ W.proc = proc
      /\ ActiveOf(m) = {} => W = World
      /\ ActiveOf(m) # {} => Unstopped(W) = {}
  BY <1>1, StoppedPrevFacts
<1> HIDE DEF W
<1>3. /\ env' \in Pids \cup {NoPid} /\ proc' \in [Pids -> ProcState]
      /\ (term \subseteq Running(proc))' /\ (stray \subseteq Running(proc))'
      /\ host' \in {"up", "down", "reused"}
      /\ OneWatcher' /\ Registered' /\ (Unstopped(World))' = Unstopped(W)
  BY <1>1, <1>2, TableKept
<1>4. /\ inst' \in [Insts -> Inst]
      /\ \A j \in Insts : inst'[j].live => Live(j) /\ inst'[j] = inst[j]
      /\ ActiveOf(m) = {} => inst' = inst
  BY <1>1, StoppedInstsFacts
<1>5. TypeOK'  BY <1>1, <1>3, <1>4 DEF TypeOK
<1>6. Owned'
  <2>1. CASE ActiveOf(m) = {}  BY <1>1, <1>2, <1>3, <1>4, <2>1 DEF Owned, Live
  <2>2. CASE ActiveOf(m) # {}  BY <1>2, <1>3, <2>2 DEF Owned
  <2> QED  BY <2>1, <2>2
<1>7. ToldEarly'  BY <1>1, <1>4 DEF ToldEarly, Live
<1> QED  BY <1>3, <1>5, <1>6, <1>7 DEF SentinelInv

LEMMA SwitchOffStep ==
    ASSUME SentinelInv, NEW m \in Copies, SwitchOff(m)
    PROVE  SentinelInv'
<1> DEFINE V == StoppedPrev(m)
           K == SafeKill(V, V.env)
           W == [K EXCEPT !.env = NoPid]
<1>1. host = "up" /\ Becomes(W) /\ inst' = StoppedInsts(m) /\ copy' = [copy EXCEPT ![m] = "off"]
      /\ UNCHANGED <<stray, host, faults>> /\ TypeOK /\ OneWatcher /\ Registered /\ ToldEarly
  BY DEF SwitchOff, SentinelInv
<1>2. Sound(V) /\ V.proc = proc  BY <1>1, StoppedPrevFacts
<1> HIDE DEF V
<1>3. Sound(K) /\ Unstopped(K) = {} /\ K.proc = proc  BY <1>2, KillRegistered
<1> HIDE DEF K
<1>4. Sound(W) /\ Unstopped(W) = {} /\ W.proc = proc  BY <1>3, ForgetFacts
<1> HIDE DEF W
<1>5. /\ env' \in Pids \cup {NoPid} /\ proc' \in [Pids -> ProcState]
      /\ (term \subseteq Running(proc))' /\ (stray \subseteq Running(proc))'
      /\ host' \in {"up", "down", "reused"}
      /\ OneWatcher' /\ Registered' /\ (Unstopped(World))' = Unstopped(W)
  BY <1>1, <1>4, TableKept
<1>6. /\ inst' \in [Insts -> Inst]
      /\ \A j \in Insts : inst'[j].live => Live(j) /\ inst'[j] = inst[j]
  BY <1>1, StoppedInstsFacts
<1>7. TypeOK'  BY <1>1, <1>5, <1>6 DEF TypeOK
<1>8. Owned'  BY <1>4, <1>5 DEF Owned
<1>9. ToldEarly'  BY <1>1, <1>6 DEF ToldEarly, Live
<1> QED  BY <1>5, <1>7, <1>8, <1>9 DEF SentinelInv

LEMMA RespawnStep ==
    ASSUME SentinelInv, NEW i \in Insts, NEW p \in Pids \cup {NoPid}, Respawn(i, p)
    PROVE  SentinelInv'
<1> DEFINE r == [inst[i] EXCEPT !.timer = FALSE]
           s == Launched(r, p)
           W == Spawned(World, p)
<1>1. host = "up" /\ inst[i].timer /\ UNCHANGED <<stray, copy, host>>
      /\ TypeOK /\ OneWatcher /\ Registered /\ Owned /\ ToldEarly
  BY DEF Respawn, SentinelInv
<1>2. r \in Inst /\ r.live = inst[i].live /\ r.child = inst[i].child /\ ~r.timer /\ r.told = inst[i].told
  BY <1>1 DEF TypeOK, Inst
<1>3. \/ /\ inst' = [inst EXCEPT ![i] = Settled(r)]
         /\ UNCHANGED <<env, proc, term, faults>>
      \/ /\ p \in SpawnTargets /\ Becomes(W) /\ Faulted(p)
         /\ inst' = [inst EXCEPT ![i] = s]
  BY DEF Respawn
<1>4. CASE /\ inst' = [inst EXCEPT ![i] = Settled(r)]
           /\ UNCHANGED <<env, proc, term, faults>>
  <2>1. Settled(r) \in Inst /\ Settled(r).live = r.live /\ (r.live => Settled(r) = r)
    BY <1>2, SettledFacts
  <2> HIDE DEF r
  <2>2. inst' \in [Insts -> Inst] /\ inst'[i] = Settled(r)
        /\ \A j \in Insts \ {i} : inst'[j] = inst[j]
    BY <1>1, <1>4, <2>1 DEF TypeOK
  <2>3. TypeOK'  BY <1>1, <1>4, <2>2 DEF TypeOK, Running
  <2>4. OneWatcher' /\ Registered' /\ (Unstopped(World))' = Unstopped(World)
    BY <1>1, <1>4 DEF OneWatcher, Registered, Unstopped, World, Running
  <2>5. Owned'  BY <1>1, <1>2, <2>1, <2>2, <2>4 DEF Owned, Live
  <2>6. ToldEarly'
    <3> SUFFICES ASSUME NEW j \in Insts, inst'[j].live, inst'[j].child = NoPid \/ inst'[j].timer
                 PROVE  inst'[j].told
      BY DEF ToldEarly, Live
    <3>1. CASE j = i  BY <1>1, <1>2, <2>1, <2>2, <3>1 DEF ToldEarly, Live
    <3>2. CASE j # i  BY <1>1, <2>2, <3>2 DEF ToldEarly, Live
    <3> QED  BY <3>1, <3>2
  <2> QED  BY <2>3, <2>4, <2>5, <2>6 DEF SentinelInv
<1>5. CASE /\ p \in SpawnTargets /\ Becomes(W) /\ Faulted(p)
           /\ inst' = [inst EXCEPT ![i] = s]
           /\ r.live
  <2>1. Sound(World) /\ World.proc = proc  BY <1>1, WorldSound DEF World
  <2>2. Sound(W) /\ Unstopped(W) \subseteq {p} \cap Pids
        /\ Running(proc) \subseteq Running(W.proc)
        /\ \A q \in Pids : W.proc[q] = "watching" => proc[q] = "watching"
    BY <1>1, <1>5, <2>1, SpawnKept
  <2>3. s \in Inst /\ s.live /\ s.child = p /\ ~s.timer /\ (p = NoPid => s.told)
    BY <1>2, <1>5, LaunchedFacts
  <2> HIDE DEF W, s, r
  <2>4. /\ env' \in Pids \cup {NoPid} /\ proc' \in [Pids -> ProcState]
        /\ (term \subseteq Running(proc))' /\ (stray \subseteq Running(proc))'
        /\ host' \in {"up", "down", "reused"}
        /\ OneWatcher' /\ Registered' /\ (Unstopped(World))' = Unstopped(W)
    BY <1>1, <1>5, <2>2, TableKept
  <2>5. inst' \in [Insts -> Inst] /\ inst'[i] = s /\ \A j \in Insts \ {i} : inst'[j] = inst[j]
    BY <1>1, <1>5, <2>3 DEF TypeOK
  <2>6. TypeOK'  BY <1>1, <1>5, <2>4, <2>5, FaultsKept DEF TypeOK
  <2>7. Owned'
    <3>1. \A q \in (Unstopped(World))' : q = inst'[i].child  BY <2>2, <2>3, <2>4, <2>5
    <3> QED  BY <2>3, <2>5, <3>1 DEF Owned, Live
  <2>8. ToldEarly'
    <3> SUFFICES ASSUME NEW j \in Insts, inst'[j].live, inst'[j].child = NoPid \/ inst'[j].timer
                 PROVE  inst'[j].told
      BY DEF ToldEarly, Live
    <3>1. CASE j = i  BY <2>3, <2>5, <3>1
    <3>2. CASE j # i  BY <1>1, <2>5, <3>2 DEF ToldEarly, Live
    <3> QED  BY <3>1, <3>2
  <2> QED  BY <2>4, <2>6, <2>7, <2>8 DEF SentinelInv
<1> QED
  <2>1. \/ r.live
        \/ /\ inst' = [inst EXCEPT ![i] = Settled(r)]
           /\ UNCHANGED <<env, proc, term, faults>>
    BY DEF Respawn
  <2> QED  BY <1>3, <1>4, <1>5, <2>1

LEMMA ExitEventStep ==
    ASSUME SentinelInv, NEW i \in Insts, ExitEvent(i)
    PROVE  SentinelInv'
<1> DEFINE r == inst[i]
           c == inst[i].child
           again == r.live /\ DecideRespawn(r)
           u == [r EXCEPT !.child = NoPid, !.timer = again,
                          !.told = r.told \/ (r.live /\ Told(r)),
                          !.spent = IF again /\ Costs(r) THEN r.spent + 1 ELSE r.spent]
<1>1. /\ host = "up" /\ c # NoPid /\ proc[c] \in {"exited", "killed"}
      /\ proc' = [proc EXCEPT ![c] = "free"] /\ term' = term \ {c}
      /\ inst' = [inst EXCEPT ![i] = Settled(u)]
      /\ UNCHANGED <<env, stray, copy, host, faults>>
      /\ TypeOK /\ OneWatcher /\ Registered /\ Owned /\ ToldEarly
  BY DEF ExitEvent, SentinelInv
<1>2. r \in Inst /\ c \in Pids  BY <1>1 DEF TypeOK, Inst
<1>3. u \in Inst /\ u.live = r.live /\ (u.live => u.told)
  <2>1. again => r.spent + 1 \in 0..Budget  BY <1>2, SentinelAssumption DEF Inst, DecideRespawn
  <2>2. again \in BOOLEAN  BY <1>2 DEF Inst, DecideRespawn
  <2>3. (IF again /\ Costs(r) THEN r.spent + 1 ELSE r.spent) \in 0..Budget  BY <1>2, <2>1 DEF Inst
  <2>4. (r.told \/ (r.live /\ Told(r))) \in BOOLEAN /\ (r.live => r.told \/ (r.live /\ Told(r)))
    BY <1>2 DEF Inst, Told
  <2> HIDE DEF again, r
  <2> QED  BY <1>2, <2>2, <2>3, <2>4 DEF Inst
<1>4. Settled(u) \in Inst /\ Settled(u).live = u.live /\ (u.live => Settled(u) = u)
  BY <1>3, SettledFacts
<1> HIDE DEF u, r
<1>5. inst' \in [Insts -> Inst] /\ inst'[i] = Settled(u) /\ \A j \in Insts \ {i} : inst'[j] = inst[j]
  BY <1>1, <1>4 DEF TypeOK
<1> HIDE DEF c
<1>6. Running(proc') = Running(proc) /\ c \notin Running(proc)  BY <1>1, <1>2 DEF Running, TypeOK
<1>7. TypeOK'  BY <1>1, <1>5, <1>6 DEF TypeOK, ProcState
<1>8. OneWatcher'  BY <1>1 DEF OneWatcher, TypeOK
<1>9. (Unstopped(World))' = Unstopped(World)  BY <1>1, <1>6 DEF Unstopped, World, TypeOK
<1>10. Registered'  BY <1>1, <1>9 DEF Registered
<1>11. Owned'
  <2> SUFFICES ASSUME NEW q \in Unstopped(World)
               PROVE  \E j \in Insts : inst'[j].live /\ inst'[j].child = q
    BY <1>9 DEF Owned, Live
  <2>1. PICK j \in Insts : inst[j].live /\ inst[j].child = q  BY <1>1 DEF Owned, Live
  <2>2. q # c  BY <1>6 DEF Unstopped, World
  <2>3. j # i  BY <2>1, <2>2 DEF c
  <2> QED  BY <1>5, <2>1, <2>3
<1>12. ToldEarly'
  <2> SUFFICES ASSUME NEW j \in Insts, inst'[j].live, inst'[j].child = NoPid \/ inst'[j].timer
               PROVE  inst'[j].told
    BY DEF ToldEarly, Live
  <2>1. CASE j = i  BY <1>3, <1>4, <1>5, <2>1
  <2>2. CASE j # i  BY <1>1, <1>5, <2>2 DEF ToldEarly, Live
  <2> QED  BY <2>1, <2>2
<1> QED  BY <1>7, <1>8, <1>10, <1>11, <1>12 DEF SentinelInv

\* The clock of an installation touches neither its child nor its row.
LEMMA ClockStep ==
    ASSUME SentinelInv, NEW i \in Insts, Slow(i) \/ Recover(i)
    PROVE  SentinelInv'
<1>1. TypeOK /\ OneWatcher /\ Registered /\ Owned /\ ToldEarly  BY DEF SentinelInv
<1>2. UNCHANGED <<env, proc, term, stray, copy, host, faults>>  BY DEF Slow, Recover
<1>3. PICK r \in Inst : /\ inst' = [inst EXCEPT ![i] = r]
                        /\ r.live = inst[i].live /\ r.child = inst[i].child
                        /\ r.timer = inst[i].timer /\ r.told = inst[i].told
  <2>1. inst[i] \in Inst  BY <1>1 DEF TypeOK
  <2>2. CASE Slow(i)
    <3>1. [inst[i] EXCEPT !.quick = FALSE] \in Inst  BY <2>1 DEF Inst
    <3>2. inst' = [inst EXCEPT ![i] = [inst[i] EXCEPT !.quick = FALSE]]  BY <2>2 DEF Slow
    <3> QED  BY <2>1, <3>1, <3>2 DEF Inst
  <2>3. CASE Recover(i)
    <3>1. inst[i].spent - 1 \in 0..Budget  BY <2>1, <2>3, SentinelAssumption DEF Inst, Recover
    <3>2. [inst[i] EXCEPT !.spent = inst[i].spent - 1] \in Inst  BY <2>1, <3>1 DEF Inst
    <3>3. inst' = [inst EXCEPT ![i] = [inst[i] EXCEPT !.spent = inst[i].spent - 1]]
      BY <2>3 DEF Recover
    <3> QED  BY <2>1, <3>2, <3>3 DEF Inst
  <2> QED  BY <2>2, <2>3
<1>4. inst' \in [Insts -> Inst] /\ inst'[i] = r /\ \A j \in Insts \ {i} : inst'[j] = inst[j]
  BY <1>1, <1>3 DEF TypeOK
<1>5. TypeOK'  BY <1>1, <1>2, <1>4 DEF TypeOK, Running
<1>6. OneWatcher' /\ Registered' /\ (Unstopped(World))' = Unstopped(World)
  BY <1>1, <1>2 DEF OneWatcher, Registered, Unstopped, World, Running
<1>7. \A j \in Insts : /\ inst'[j].live = inst[j].live /\ inst'[j].child = inst[j].child
                       /\ inst'[j].timer = inst[j].timer /\ inst'[j].told = inst[j].told
  BY <1>3, <1>4
<1>8. Owned'  BY <1>1, <1>2, <1>6, <1>7 DEF Owned, Live
<1>9. ToldEarly'  BY <1>1, <1>7 DEF ToldEarly, Live
<1> QED  BY <1>5, <1>6, <1>8, <1>9 DEF SentinelInv

-----------------------------------------------------------------------------
(* The sentinels and the system.                                           *)

\* Processes may end or change what they do; nobody new appears unstopped and
\* the host's own state stays.
LEMMA ProcKept ==
    ASSUME SentinelInv, UNCHANGED <<env, copy, inst, host>>,
           proc' \in [Pids -> ProcState], faults' \in 0..MaxFaults,
           Running(proc') \subseteq Running(proc),
           term' = term \cap Running(proc'), stray' \subseteq Running(proc'),
           OneWatcher'
    PROVE  SentinelInv'
<1>1. TypeOK /\ Registered /\ Owned /\ ToldEarly  BY DEF SentinelInv
<1>2. TypeOK'  BY <1>1 DEF TypeOK, Running
<1>3. (Unstopped(World))' \subseteq Unstopped(World)
  <2>1. (Unstopped(World))' = Running(proc') \ term'  BY DEF Unstopped, World, Running
  <2>2. Unstopped(World) = Running(proc) \ term  BY DEF Unstopped, World
  <2> QED  BY <2>1, <2>2
<1>4. Registered' /\ Owned'  BY <1>1, <1>3 DEF Registered, Owned, Live
<1>5. ToldEarly'  BY <1>1 DEF ToldEarly, Live
<1> QED  BY <1>2, <1>4, <1>5 DEF SentinelInv

LEMMA DieStep ==
    ASSUME SentinelInv, NEW p \in Pids, NEW how \in {"exited", "killed"}, Die(p, how),
           faults' \in 0..MaxFaults
    PROVE  SentinelInv'
<1>1. /\ proc' = [proc EXCEPT ![p] = Ended(how)]
      /\ term' = term \ {p} /\ stray' = stray \ {p} /\ UNCHANGED <<env, copy, inst, host>>
      /\ TypeOK /\ OneWatcher
  BY DEF Die, SentinelInv
<1>2. Ended(how) \in {"exited", "killed", "free"}  BY DEF Ended
<1>3. proc \in [Pids -> ProcState] /\ proc' \in [Pids -> ProcState]
  BY <1>1, <1>2 DEF TypeOK, ProcState
<1>4. Running(proc') = Running(proc) \ {p}  BY <1>1, <1>2, <1>3 DEF Running
<1>5. term' = term \cap Running(proc') /\ stray' \subseteq Running(proc')
  BY <1>1, <1>4 DEF TypeOK
<1>6. \A q \in Pids : proc'[q] = "watching" => proc[q] = "watching"  BY <1>1, <1>2, <1>3
<1>7. OneWatcher'  BY <1>1, <1>6 DEF OneWatcher
<1> QED  BY <1>1, <1>3, <1>4, <1>5, <1>7, ProcKept

\* Who finds no sibling finds no watcher either.
LEMMA StartStep ==
    ASSUME SentinelInv, NEW p \in Pids, Start(p)
    PROVE  SentinelInv'
<1>1. /\ proc[p] = "starting" /\ UNCHANGED <<env, term, copy, inst, host, faults>>
      /\ proc' = [proc EXCEPT ![p] = IF Siblings(p) = {} THEN "watching" ELSE "leaving"]
      /\ TypeOK /\ OneWatcher
  BY DEF Start, SentinelInv
<1>2. proc \in [Pids -> ProcState] /\ proc' \in [Pids -> ProcState]
  BY <1>1 DEF TypeOK, ProcState
<1>3. Running(proc') = Running(proc) /\ p \in Running(proc)  BY <1>1, <1>2 DEF Running
<1>4. term' = term \cap Running(proc') /\ stray' \subseteq Running(proc')
  BY <1>1, <1>3 DEF TypeOK, Start
<1>5. OneWatcher'
  <2>1. CASE Siblings(p) = {}
    <3>1. \A q \in Pids : proc'[q] = "watching" => q = p
      BY <1>1, <1>2, <2>1 DEF Siblings, Running
    <3> QED  BY <3>1 DEF OneWatcher
  <2>2. CASE Siblings(p) # {}
    <3>1. \A q \in Pids : proc'[q] = "watching" => proc[q] = "watching"  BY <1>1, <1>2, <2>2
    <3> QED  BY <1>1, <3>1 DEF OneWatcher
  <2> QED  BY <2>1, <2>2
<1>6. faults' \in 0..MaxFaults  BY <1>1 DEF TypeOK
<1> QED  BY <1>1, <1>2, <1>3, <1>4, <1>5, <1>6, ProcKept

LEMMA RecycleStep ==
    ASSUME SentinelInv, NEW p \in Pids, Recycle(p)
    PROVE  SentinelInv'
<1>1. TypeOK /\ OneWatcher /\ UNCHANGED <<env, term, stray, copy, inst, host, faults>>
  BY DEF Recycle, SentinelInv
<1>2. PICK s \in {"foreign", "free"} : proc' = [proc EXCEPT ![p] = s] /\ proc[p] \in {"foreign", "free"}
  BY DEF Recycle
<1>3. proc \in [Pids -> ProcState] /\ proc' \in [Pids -> ProcState]  BY <1>1, <1>2 DEF TypeOK, ProcState
<1>4. Running(proc') = Running(proc)  BY <1>2, <1>3 DEF Running
<1>5. term' = term \cap Running(proc') /\ stray' \subseteq Running(proc') /\ faults' \in 0..MaxFaults
  BY <1>1, <1>4 DEF TypeOK
<1>6. OneWatcher'  BY <1>1, <1>2, <1>3 DEF OneWatcher
<1> QED  BY <1>1, <1>3, <1>4, <1>5, <1>6, ProcKept

LEMMA HostStep ==
    ASSUME SentinelInv, HostDeath \/ HostPidReused
    PROVE  SentinelInv'
<1>1. TypeOK /\ OneWatcher /\ Registered /\ Owned /\ ToldEarly  BY DEF SentinelInv
<1>2. CASE HostDeath
  <2>1. /\ host' = "down" /\ env' = NoPid /\ UNCHANGED <<term, stray, faults>>
        /\ proc' = [q \in Pids |-> IF q \in Running(proc) THEN proc[q] ELSE "free"]
        /\ inst' = [i \in Insts |-> Unused] /\ copy' = [m \in Copies |-> "off"]
    BY <1>2 DEF HostDeath
  <2>2. Running(proc') = Running(proc) /\ proc' \in [Pids -> ProcState]
    BY <1>1, <2>1 DEF Running, TypeOK, ProcState
  <2>3. TypeOK'  BY <1>1, <2>1, <2>2, UnusedType DEF TypeOK
  <2>4. OneWatcher'  BY <1>1, <2>1 DEF OneWatcher, Running
  <2>5. Registered' /\ Owned'  BY <2>1 DEF Registered, Owned
  <2>6. ToldEarly'  BY <2>1, UnusedType DEF ToldEarly, Live
  <2> QED  BY <2>3, <2>4, <2>5, <2>6 DEF SentinelInv
<1>3. CASE HostPidReused
  <2>1. /\ host # "up" /\ host' \in {"down", "reused"}
        /\ UNCHANGED <<env, proc, term, stray, copy, inst, faults>>
    BY <1>3 DEF HostPidReused
  <2>2. TypeOK'  BY <1>1, <2>1 DEF TypeOK, Running
  <2>3. OneWatcher' /\ ToldEarly'  BY <1>1, <2>1 DEF OneWatcher, ToldEarly, Live
  <2>4. Registered' /\ Owned'  BY <2>1 DEF Registered, Owned
  <2> QED  BY <2>2, <2>3, <2>4 DEF SentinelInv
<1> QED  BY <1>2, <1>3

-----------------------------------------------------------------------------
(* The theorems.                                                           *)

LEMMA SentinelInit == Init => SentinelInv
<1> SUFFICES ASSUME Init PROVE SentinelInv  OBVIOUS
<1>1. /\ env = NoPid /\ proc = [p \in Pids |-> "free"] /\ term = {} /\ stray = {}
      /\ copy = [m \in Copies |-> "fresh"] /\ inst = [i \in Insts |-> Unused]
      /\ host = "up" /\ faults = 0
  BY DEF Init
<1>2. Running(proc) = {}  BY <1>1 DEF Running
<1>3. TypeOK  BY <1>1, <1>2, UnusedType, SentinelAssumption DEF TypeOK, ProcState
<1>4. OneWatcher  BY <1>1 DEF OneWatcher
<1>5. Registered /\ Owned  BY <1>2 DEF Registered, Owned, Unstopped, World
<1>6. ToldEarly  BY <1>1, UnusedType DEF ToldEarly, Live
<1> QED  BY <1>3, <1>4, <1>5, <1>6 DEF SentinelInv

LEMMA SentinelNext == SentinelInv /\ [Next]_vars => SentinelInv'
<1> SUFFICES ASSUME SentinelInv, [Next]_vars PROVE SentinelInv'  OBVIOUS
<1>1. ASSUME NEW m \in Copies, NEW i \in Insts, NEW p \in Pids \cup {NoPid},
             Install(m, i, p) \/ InstallFails(m, i, p)
      PROVE  SentinelInv'
  BY <1>1, InstallStep, InstallFailsStep
<1>2. ASSUME NEW m \in Copies, Dispose(m) \/ SwitchOff(m) PROVE SentinelInv'
  BY <1>2, DisposeStep, SwitchOffStep
<1>3. ASSUME NEW i \in Insts, NEW p \in Pids \cup {NoPid}, Respawn(i, p) PROVE SentinelInv'
  BY <1>3, RespawnStep
<1>4. ASSUME NEW i \in Insts, ExitEvent(i) \/ Slow(i) \/ Recover(i) PROVE SentinelInv'
  BY <1>4, ExitEventStep, ClockStep
<1>5. faults \in 0..MaxFaults  BY DEF SentinelInv, TypeOK
<1>6. ASSUME NEW p \in Pids,
             \/ Start(p) \/ Leave(p) \/ Tick(p) \/ PipeCloses(p)
             \/ Terminate(p) \/ Crash(p) \/ Recycle(p)
      PROVE  SentinelInv'
  <2>1. CASE Start(p)  BY <2>1, StartStep
  <2>2. CASE Leave(p) \/ Tick(p) \/ PipeCloses(p)
    BY <1>5, <2>2, DieStep DEF Leave, Tick, PipeCloses
  <2>3. CASE Terminate(p)  BY <1>5, <2>3, DieStep DEF Terminate
  <2>4. CASE Crash(p)
    <3>1. faults' \in 0..MaxFaults  BY <1>5, <2>4, SentinelAssumption DEF Crash
    <3> QED  BY <2>4, <3>1, DieStep DEF Crash
  <2>5. CASE Recycle(p)  BY <2>5, RecycleStep
  <2> QED  BY <1>6, <2>1, <2>2, <2>3, <2>4, <2>5
<1>7. CASE HostDeath \/ HostPidReused  BY <1>7, HostStep
<1>8. CASE UNCHANGED vars
  <2>1. UNCHANGED <<env, proc, term, stray, copy, inst, host, faults>>  BY <1>8 DEF vars
  <2> QED  BY <2>1 DEF SentinelInv, TypeOK, OneWatcher, Registered, Owned, ToldEarly,
                       Unstopped, World, Running, Live
<1> QED  BY <1>1, <1>2, <1>3, <1>4, <1>6, <1>7, <1>8 DEF Next

\* The inductive invariant holds in every run.
THEOREM SentinelInvariant == Spec => []SentinelInv
<1>1. SentinelInv /\ [Next]_vars => SentinelInv'  BY SentinelNext
<1>2. Init => SentinelInv  BY SentinelInit
<1> QED  BY <1>1, <1>2, PTL DEF Spec

\* The variables keep their types, whatever is installed, killed or recycled.
THEOREM SentinelTypeCorrect == Spec => []TypeOK
<1>1. SentinelInv => TypeOK  BY DEF SentinelInv
<1> QED  BY <1>1, SentinelInvariant, PTL

\* No host ever has two sentinels watching it: the sibling check of a new
\* sentinel is enough, however many copies start and stop sentinels.
THEOREM OneSentinelWatches == Spec => []OneWatcher
<1>1. SentinelInv => OneWatcher  BY DEF SentinelInv
<1> QED  BY <1>1, SentinelInvariant, PTL

LEMMA OffFromInv == SentinelInv => OffIsOff
<1> SUFFICES ASSUME SentinelInv, host = "up", \A i \in Insts : ~Live(i),
                    NEW p \in Running(proc), p \notin term
             PROVE  FALSE
  BY DEF OffIsOff
<1>1. p \in Unstopped(World)  BY DEF Unstopped, World
<1> QED  BY <1>1 DEF SentinelInv, Owned

\* When no copy guards the host every sentinel that runs was told to end.
THEOREM SwitchedOffMeansOff == Spec => []OffIsOff
BY OffFromInv, SentinelInvariant, PTL

LEMMA LossFromInv == SentinelInv => LossIsVisible
BY DEF SentinelInv, ToldEarly, LossIsVisible, Attended

\* A guard that stays on without a sentinel has said so.
THEOREM LostSentinelIsReported == Spec => []LossIsVisible
BY LossFromInv, SentinelInvariant, PTL

-----------------------------------------------------------------------------
(* Samples and the log.                                                    *)

Sample == [at : Nat, rss : Nat, children : Nat \cup {-1}, grew : BOOLEAN]

\* The log is in the order of time, and not ahead of it.
Ordered(L, age) ==
    /\ L \in Seq(Sample)
    /\ \A k \in 1..Len(L) : L[k].at <= age
    /\ \A k, m \in 1..Len(L) : k < m => L[k].at < L[m].at

Behind(L, age) == \A k \in 1..Len(L) : L[k].at < age

\* Samples k to n were taken after warm-up and above the limit.
High(L, k, n) == \A m \in k..n : L[m].at >= Warmup /\ L[m].rss > MemLimit

\* overSince is where the present run of high samples began.
RunKnown(L, since) ==
    /\ since \in Int
    /\ since # -1 => \E k \in 1..Len(L) : L[k].at = since
    /\ \A k \in 1..Len(L) : High(L, k, Len(L)) <=> since # -1 /\ L[k].at >= since

\* f is the first sample the window holds at the n-th.
Earliest(L, n, f) == f \in Inside(L, n) /\ \A m \in Inside(L, n) : f <= m

\* The window is the end of the log, from its earliest sample on.
WindowKept(L, S) ==
    LET n == Len(L) IN
    IF n = 0 \/ L[n].at < GrowthWindow THEN S = <<>>
    ELSE /\ S \in Seq([rss : Nat, at : Nat])
         /\ \E f \in 1..n : /\ Earliest(L, n, f) /\ Len(S) = n - f + 1
                            /\ \A j \in 1..Len(S) : S[j].rss = L[f + j - 1].rss /\ S[j].at = L[f + j - 1].at

\* Since the k-th sample memory stopped growing over a window.
Fell(L, k, n) == \E m \in k..n : Filled(L, m) /\ NetGrowth(L, m) <= 0

\* What was told since is what the sentinel remembers to have told.
TellsKnown(L, multiples) ==
    /\ multiples \in Nat
    /\ \A k \in 1..Len(L) : L[k].grew => Fell(L, k, Len(L)) \/ multiples >= Multiples(L, k)
    /\ multiples > 0 => \E k \in 1..Len(L) : L[k].grew /\ ~Fell(L, k, Len(L)) /\ Multiples(L, k) >= multiples

PrevKnown(L, prev) ==
    /\ prev \in [rss : Nat, children : Nat \cup {-1}, fds : Nat \cup {-1}] \cup {Unreadable}
    /\ prev = Unreadable <=> Len(L) = 0
    /\ Len(L) > 0 => prev.children = L[Len(L)].children

SamplerFields == {"on", "age", "prev", "overSince", "samples", "growthMultiples", "read", "said", "log"}

\* What a sentinel remembers, at an age no sample is ahead of.
Knows(s, age) ==
    /\ DOMAIN s = SamplerFields /\ s = [x \in SamplerFields |-> s[x]]
    /\ s.age \in Nat /\ Ordered(s.log, age)
    /\ PrevKnown(s.log, s.prev) /\ RunKnown(s.log, s.overSince)
    /\ WindowKept(s.log, s.samples) /\ TellsKnown(s.log, s.growthMultiples)

\* AlarmsAreMeasured, of any sampler.
Measured(s) ==
    s.read =>
        LET log == s.log
            n   == Len(log)
            before == {k \in 1..(n - 1) : log[k].grew}
        IN  /\ "mem" \in s.said <=>
                  \E k \in 1..n : log[n].at - log[k].at >= MemSustain /\ High(log, k, n)
            /\ "fork" \in s.said <=>
                  /\ n > 1 /\ log[n].at >= Warmup /\ log[n - 1].children # -1
                  /\ log[n].children - log[n - 1].children > ForkBurstN
            /\ log[n].grew =>
                  /\ Multiples(log, n) > 0
                  /\ \A k \in before : Fell(log, k, n) \/ Multiples(log, n) > Multiples(log, k)
            /\ Multiples(log, n) > 0 /\ ~log[n].grew =>
                  \E k \in before : Multiples(log, k) >= Multiples(log, n) /\ ~Fell(log, k, n)

SamplerInv == Knows(sampler, sampler.age) /\ Measured(sampler)

\* The measured alarms are those of the sampler.
LEMMA MeasuredIs == SamplerInv => AlarmsAreMeasured
  BY DEF SamplerInv, Measured, AlarmsAreMeasured, High, Fell

-----------------------------------------------------------------------------
(* A log that grows by one sample.                                         *)

\* Among some numbers there is a least one.
LEMMA SmallestOf ==
    ASSUME NEW T, T \subseteq Nat, T # {}
    PROVE  \E k \in T : \A j \in T : k <= j
<1> DEFINE R == {ss \in Nat \X Nat : ss[1] < ss[2]}
<1>1. IsWellFoundedOn(R, Nat)
  BY NatLessThanWellFounded DEF OpToRel
<1> HIDE DEF R
<1>2. PICK k \in T : \A j \in T : ~(<<j, k>> \in R)
  BY <1>1, WFMin
<1>3. \A j \in T : j < k => <<j, k>> \in R
  BY DEF R
<1>4. \A j \in T : ~(j < k) /\ j \in Nat /\ k \in Nat
  BY <1>2, <1>3
<1> QED
  BY <1>4

\* L is the log until now, N with sample x at the end.
Grown(L, x, N) ==
    /\ N \in Seq(Sample) /\ Len(N) = Len(L) + 1 /\ N[Len(L) + 1] = x
    /\ \A k \in 1..Len(L) : N[k] = L[k]

LEMMA GrownLog ==
    ASSUME NEW L, NEW age \in Nat, Ordered(L, age), NEW x \in Sample
    PROVE  Grown(L, x, Append(L, x))
<1>1. L \in Seq(Sample)
  BY DEF Ordered
<1> QED
  BY <1>1 DEF Grown

LEMMA GrownOrdered ==
    ASSUME NEW L, NEW N, NEW x \in Sample, Grown(L, x, N), NEW age \in Nat, age = x.at,
           Ordered(L, age), Behind(L, age)
    PROVE  Ordered(N, age)
<1> USE DEF Behind
<1>1. L \in Seq(Sample) /\ Len(L) \in Nat
  BY DEF Ordered
<1>2. ASSUME NEW k \in 1..Len(N) PROVE N[k].at <= age /\ (k < Len(N) => N[k].at < age)
  <2>1. CASE k = Len(L) + 1
    BY <2>1, <1>1 DEF Grown, Sample
  <2>2. CASE k \in 1..Len(L)
    <3>1. L[k] \in Sample /\ N[k] = L[k]
      BY <2>2, <1>1 DEF Grown
    <3>2. L[k].at \in Nat /\ L[k].at < age
      BY <2>2, <3>1 DEF Sample
    <3> QED
      BY <3>1, <3>2
  <2> QED
    BY <1>1, <1>2, <2>1, <2>2 DEF Grown
<1>3. ASSUME NEW k \in 1..Len(N), NEW m \in 1..Len(N), k < m PROVE N[k].at < N[m].at
  <2>1. k \in 1..Len(L) /\ (m \in 1..Len(L) \/ m = Len(L) + 1)
    BY <1>1, <1>3 DEF Grown
  <2>2. CASE m \in 1..Len(L)
    BY <1>3, <2>1, <2>2 DEF Grown, Ordered
  <2>3. CASE m = Len(L) + 1
    BY <1>2, <1>3, <2>1, <2>3 DEF Grown
  <2> QED
    BY <2>1, <2>2, <2>3
<1> QED
  BY <1>2, <1>3 DEF Ordered, Grown

\* Earlier samples keep their windows.
LEMMA GrownInside ==
    ASSUME NEW L, NEW N, NEW x, Grown(L, x, N), L \in Seq(Sample), NEW k \in 1..Len(L)
    PROVE  /\ Inside(N, k) = Inside(L, k)
           /\ Filled(N, k) <=> Filled(L, k)
           /\ Filled(L, k) => NetGrowth(N, k) = NetGrowth(L, k)
           /\ Multiples(N, k) = Multiples(L, k)
<1>1. Len(L) \in Nat /\ N[k] = L[k] /\ \A m \in 1..k : m \in 1..Len(L) /\ N[m] = L[m]
  BY DEF Grown
<1>2. Inside(N, k) = Inside(L, k)
  BY <1>1 DEF Inside
<1>3. Inside(L, k) \subseteq 1..k
  BY DEF Inside
<1>4. Filled(N, k) <=> Filled(L, k)
  BY <1>1, <1>2, <1>3 DEF Filled
<1>5. ASSUME Filled(L, k) PROVE NetGrowth(N, k) = NetGrowth(L, k)
  <2> DEFINE f == CHOOSE j \in Inside(L, k) : \A m \in Inside(L, k) : j <= m
  <2>1. f \in Inside(L, k)
    <3>1. Inside(L, k) \subseteq Nat /\ Inside(L, k) # {}
      BY <1>1, <1>3, <1>5 DEF Filled
    <3> QED
      BY <3>1, SmallestOf
  <2>2. N[f] = L[f]
    BY <1>1, <1>3, <2>1
  <2>3. NetGrowth(N, k) = N[k].rss - N[f].rss /\ NetGrowth(L, k) = L[k].rss - L[f].rss
    BY <1>2 DEF NetGrowth
  <2> HIDE DEF f
  <2> QED
    BY <1>1, <2>2, <2>3
<1>6. Multiples(N, k) = Multiples(L, k)
  BY <1>4, <1>5 DEF Multiples
<1> QED
  BY <1>2, <1>4, <1>5, <1>6

\* The run of high samples after one more.
LEMMA RunGrows ==
    ASSUME NEW s, NEW age \in Nat, s.age = age, NEW L, L = s.log, Ordered(L, age),
           Behind(L, age), RunKnown(L, s.overSince),
           NEW r, r.rss \in Nat, NEW x \in Sample, x.at = age, x.rss = r.rss,
           NEW N, Grown(L, x, N), Ordered(N, age), NEW since, since = OverSince(s, r)
    PROVE  /\ RunKnown(N, since)
           /\ age >= Warmup /\ SustainReached(since, age) /\ r.rss > MemLimit <=>
                \E k \in 1..Len(N) : N[Len(N)].at - N[k].at >= MemSustain /\ High(N, k, Len(N))
<1> USE DEF Behind
<1> DEFINE n == Len(L)
           o == s.overSince
<1>1. /\ n \in Nat /\ Len(N) = n + 1 /\ N[n + 1] = x /\ \A k \in 1..n : N[k] = L[k]
      /\ L \in Seq(Sample) /\ o \in Int /\ Warmup \in Nat /\ MemLimit \in Nat /\ MemSustain \in Nat
  BY SamplingAssumption DEF Ordered, Grown, RunKnown
<1>2. ASSUME NEW k \in 1..n PROVE L[k].at \in Nat /\ L[k].rss \in Nat /\ L[k].at < age
  <2>1. L[k] \in Sample /\ L[k].at < age
    BY <1>1
  <2> QED
    BY <2>1 DEF Sample
<1>3. since \in Int
  BY <1>1 DEF OverSince
<1>4. ASSUME NEW k \in 1..(n + 1)
      PROVE  High(N, k, n + 1) <=> /\ k \in 1..n => High(L, k, n)
                                   /\ age >= Warmup /\ r.rss > MemLimit
  <2>1. \A m \in k..n : N[m] = L[m]
    BY <1>1
  <2>2. k..(n + 1) = (k..n) \cup {n + 1} /\ (k \in 1..n \/ k = n + 1)
    BY <1>1
  <2>3. CASE k \in 1..n
    BY <1>1, <2>1, <2>2, <2>3 DEF High
  <2>4. CASE k = n + 1
    BY <1>1, <2>2, <2>4 DEF High
  <2> QED
    BY <2>2, <2>3, <2>4
<1>5. \A k \in 1..n : High(L, k, n) <=> o # -1 /\ L[k].at >= o
  BY DEF RunKnown
<1>6. o # -1 => \E k \in 1..n : L[k].at = o
  BY DEF RunKnown
<1>7. o # -1 => o >= Warmup /\ o < age /\ o \in Nat
  <2> SUFFICES ASSUME o # -1 PROVE o >= Warmup /\ o < age /\ o \in Nat
    OBVIOUS
  <2>1. PICK k \in 1..n : L[k].at = o
    BY <1>6
  <2>2. High(L, k, n)
    BY <1>1, <1>5, <2>1
  <2>3. k \in k..n
    BY <1>1
  <2> QED
    BY <1>2, <2>1, <2>2, <2>3 DEF High
<1>8. /\ since # -1 => \E k \in 1..(n + 1) : N[k].at = since
      /\ \A k \in 1..(n + 1) : High(N, k, n + 1) <=> since # -1 /\ N[k].at >= since
  <2>1. CASE age < Warmup \/ r.rss <= MemLimit
    <3>1. since = -1
      BY <1>1, <1>7, <2>1 DEF OverSince
    <3> QED
      BY <1>1, <1>4, <2>1, <3>1
  <2>2. CASE age >= Warmup /\ r.rss > MemLimit /\ o = -1
    <3>1. since = age
      BY <1>1, <2>2 DEF OverSince
    <3>2. n + 1 \in 1..(n + 1) /\ N[n + 1].at = age
      BY <1>1
    <3>3. ASSUME NEW k \in 1..(n + 1) PROVE High(N, k, n + 1) <=> N[k].at >= age
      <4>1. CASE k = n + 1
        BY <1>1, <1>4, <2>2, <4>1
      <4>2. CASE k \in 1..n
        <5>1. ~High(L, k, n) /\ N[k].at = L[k].at
          BY <1>1, <1>5, <2>2, <4>2
        <5>2. ~(N[k].at >= age)
          BY <1>2, <4>2, <5>1
        <5> QED
          BY <1>4, <4>2, <5>1, <5>2
      <4> QED
        BY <1>1, <4>1, <4>2
    <3> QED
      BY <3>1, <3>2, <3>3
  <2>3. CASE age >= Warmup /\ r.rss > MemLimit /\ o # -1
    <3>1. since = o
      BY <1>1, <2>3 DEF OverSince
    <3>2. \E k \in 1..(n + 1) : N[k].at = o
      BY <1>1, <1>6, <2>3
    <3>3. ASSUME NEW k \in 1..(n + 1) PROVE High(N, k, n + 1) <=> N[k].at >= o
      <4>1. CASE k = n + 1
        BY <1>1, <1>4, <1>7, <2>3, <4>1
      <4>2. CASE k \in 1..n
        BY <1>1, <1>4, <1>5, <2>3, <4>2
      <4> QED
        BY <1>1, <4>1, <4>2
    <3> QED
      BY <2>3, <3>1, <3>2, <3>3
  <2> QED
    BY <1>1, <2>1, <2>2, <2>3
<1>9. RunKnown(N, since)
  BY <1>1, <1>3, <1>8 DEF RunKnown
<1>10. age >= Warmup /\ SustainReached(since, age) /\ r.rss > MemLimit <=>
         \E k \in 1..(n + 1) : N[n + 1].at - N[k].at >= MemSustain /\ High(N, k, n + 1)
  <2>1. ASSUME age >= Warmup, SustainReached(since, age), r.rss > MemLimit
        PROVE  \E k \in 1..(n + 1) : N[n + 1].at - N[k].at >= MemSustain /\ High(N, k, n + 1)
    <3>1. PICK k \in 1..(n + 1) : N[k].at = since
      BY <1>8, <2>1 DEF SustainReached
    <3>2. High(N, k, n + 1)
      BY <1>3, <1>8, <2>1, <3>1 DEF SustainReached
    <3> QED
      BY <1>1, <2>1, <3>1, <3>2 DEF SustainReached
  <2>2. ASSUME NEW k \in 1..(n + 1), N[n + 1].at - N[k].at >= MemSustain, High(N, k, n + 1)
        PROVE  age >= Warmup /\ SustainReached(since, age) /\ r.rss > MemLimit
    <3>1. since # -1 /\ N[k].at >= since /\ age >= Warmup /\ r.rss > MemLimit
      BY <1>4, <1>8, <2>2
    <3>2. N[k].at \in Nat
      BY <1>1, <1>2
    <3> QED
      BY <1>1, <1>3, <2>2, <3>1, <3>2 DEF SustainReached
  <2> QED
    BY <2>1, <2>2
<1> QED
  BY <1>1, <1>9, <1>10

\* The whole window after one more sample: all that is kept and the new one.
AllKept(N, all, f, age) ==
    /\ f \in 1..Len(N) /\ Len(all) = Len(N) - f + 1
    /\ all \in Seq([rss : Nat, at : Nat])
    /\ \A j \in 1..Len(all) : all[j].rss = N[f + j - 1].rss /\ all[j].at = N[f + j - 1].at
    /\ N[f].at >= GrowthWindow
    /\ \A m \in 1..Len(N) :
           N[m].at >= GrowthWindow /\ N[m].at >= age - GrowthWindow => m >= f

LEMMA AllKeptExists ==
    ASSUME NEW age \in Nat, age >= GrowthWindow, NEW L, Ordered(L, age),
           Behind(L, age), NEW S, WindowKept(L, S),
           NEW x \in Sample, x.at = age, NEW N, Grown(L, x, N), Ordered(N, age)
    PROVE  \E f \in 1..Len(N) : AllKept(N, Append(S, [rss |-> x.rss, at |-> age]), f, age)
<1> USE DEF Behind
<1> DEFINE n == Len(L)
           e == [rss |-> x.rss, at |-> age]
           all == Append(S, e)
           T == [rss : Nat, at : Nat]
<1>1. /\ n \in Nat /\ Len(N) = n + 1 /\ N[n + 1] = x /\ \A k \in 1..n : N[k] = L[k]
      /\ L \in Seq(Sample) /\ GrowthWindow \in Nat \ {0}
  BY SamplingAssumption DEF Ordered, Grown
<1>2. ASSUME NEW k \in 1..n PROVE L[k].at \in Nat /\ L[k].rss \in Nat /\ L[k].at < age
  <2>1. L[k] \in Sample /\ L[k].at < age
    BY <1>1
  <2> QED
    BY <2>1 DEF Sample
<1>3. e \in [rss : Nat, at : Nat] /\ e.rss = x.rss /\ e.at = x.at /\ x.rss \in Nat
  BY DEF Sample
<1> HIDE DEF e
<1>4. CASE n = 0 \/ L[n].at < GrowthWindow
  <2>1. S = <<>>
    BY <1>4 DEF WindowKept
  <2>2. Len(all) = 1 /\ all[1] = e /\ all \in Seq(T)
    <3>1. e \in T
      BY <1>3
    <3> HIDE DEF T
    <3>2. S \in Seq(T) /\ Len(S) = 0
      BY <2>1
    <3> QED
      BY <3>1, <3>2
  <2>3. ASSUME NEW m \in 1..n PROVE N[m].at < GrowthWindow
    <3>1. L[n].at < GrowthWindow /\ n \in 1..n
      BY <1>1, <1>4
    <3>2. L[m].at < L[n].at \/ m = n
      BY <1>1, <3>1 DEF Ordered
    <3>3. L[m].at \in Nat /\ L[n].at \in Nat
      BY <1>2, <3>1
    <3> QED
      BY <1>1, <3>1, <3>2, <3>3
  <2>4. ASSUME NEW m \in 1..(n + 1), N[m].at >= GrowthWindow PROVE m >= n + 1
    <3>1. m = n + 1 \/ m \in 1..n
      BY <1>1
    <3>2. CASE m \in 1..n
      <4>1. N[m].at < GrowthWindow /\ N[m].at \in Nat
        BY <1>1, <1>2, <2>3, <3>2
      <4> QED
        BY <1>1, <2>4, <4>1
    <3> QED
      BY <1>1, <3>1, <3>2
  <2> HIDE DEF all
  <2>5. ASSUME NEW j \in 1..Len(all)
        PROVE  all[j].rss = N[n + 1 + j - 1].rss /\ all[j].at = N[n + 1 + j - 1].at
    <3>1. j = 1 /\ n + 1 + j - 1 = n + 1
      BY <1>1, <2>2
    <3> QED
      BY <1>1, <1>3, <2>2, <3>1
  <2>6. AllKept(N, all, n + 1, age)
    BY <1>1, <2>2, <2>4, <2>5 DEF AllKept
  <2> QED
    BY <1>1, <2>6 DEF all, e
<1>5. CASE n # 0 /\ L[n].at >= GrowthWindow
  <2>1. PICK f \in 1..n : /\ Earliest(L, n, f) /\ Len(S) = n - f + 1 /\ S \in Seq([rss : Nat, at : Nat])
                          /\ \A j \in 1..Len(S) : S[j].rss = L[f + j - 1].rss /\ S[j].at = L[f + j - 1].at
    <3>1. ~(n = 0 \/ L[n].at < GrowthWindow)
      <4>1. n \in 1..n
        BY <1>1, <1>5
      <4>2. L[n].at \in Nat
        BY <1>2, <4>1
      <4> QED
        BY <1>1, <1>5, <4>2
    <3> QED
      BY <3>1 DEF WindowKept
  <2>2. /\ all \in Seq([rss : Nat, at : Nat]) /\ Len(all) = n - f + 2 /\ all[Len(all)] = e
        /\ \A j \in 1..(n - f + 1) : all[j] = S[j]
    <3>1. e \in T /\ S \in Seq(T) /\ Len(S) = n - f + 1 /\ n - f + 1 \in Nat
      BY <1>1, <1>3, <2>1
    <3> HIDE DEF T
    <3>2. all \in Seq(T) /\ Len(all) = Len(S) + 1 /\ all[Len(S) + 1] = e
      BY <3>1
    <3>3. \A j \in 1..Len(S) : all[j] = S[j]
      BY <3>1
    <3> QED
      BY <1>1, <3>1, <3>2, <3>3 DEF T
  <2> HIDE DEF all
  <2>3. ASSUME NEW j \in 1..Len(all)
        PROVE  all[j].rss = N[f + j - 1].rss /\ all[j].at = N[f + j - 1].at
    <3>1. j \in 1..(n - f + 1) \/ j = n - f + 2
      BY <1>1, <2>2
    <3>2. CASE j \in 1..(n - f + 1)
      <4>1. f + j - 1 \in 1..n
        BY <1>1, <3>2
      <4> QED
        BY <1>1, <2>1, <2>2, <3>2, <4>1
    <3>3. CASE j = n - f + 2
      <4>1. f + j - 1 = n + 1
        BY <1>1, <3>3
      <4> QED
        BY <1>1, <1>3, <2>2, <3>3, <4>1
    <3> QED
      BY <3>1, <3>2, <3>3
  <2>4. f \in Inside(L, n) /\ \A m \in Inside(L, n) : f <= m
    BY <2>1 DEF Earliest
  <2>5. N[f].at >= GrowthWindow
    BY <1>1, <2>4 DEF Inside
  <2>6. ASSUME NEW m \in 1..(n + 1), N[m].at >= GrowthWindow, N[m].at >= age - GrowthWindow
        PROVE  m >= f
    <3>1. CASE m = n + 1
      BY <1>1, <3>1
    <3>2. CASE m \in 1..n
      <4>1. /\ N[m] = L[m] /\ n \in 1..n /\ L[n].at < age /\ L[n].at \in Nat /\ L[m].at \in Nat
        BY <1>1, <1>2, <1>5, <3>2
      <4>2. L[m].at >= L[n].at - GrowthWindow
        BY <1>1, <2>6, <4>1
      <4>3. m \in Inside(L, n)
        BY <2>6, <3>2, <4>1, <4>2 DEF Inside
      <4> QED
        BY <1>1, <2>4, <3>2, <4>3
    <3> QED
      BY <1>1, <3>1, <3>2
  <2>7. f \in 1..(n + 1) /\ Len(all) = (n + 1) - f + 1
    BY <1>1, <2>2
  <2>8. AllKept(N, all, f, age)
    BY <1>1, <2>2, <2>3, <2>5, <2>6, <2>7 DEF AllKept
  <2> QED
    BY <1>1, <2>7, <2>8 DEF all, e
<1> QED
  <2>1. n \in 1..n => L[n].at \in Nat
    BY <1>2
  <2> QED
    BY <1>1, <1>4, <1>5, <2>1

\* What is kept of it is the window.
LEMMA WindowCut ==
    ASSUME NEW age \in Nat, age >= GrowthWindow, NEW N, Ordered(N, age), N[Len(N)].at = age,
           NEW f, NEW all, AllKept(N, all, f, age),
           NEW kept, kept = {k \in DOMAIN all : all[k].at >= age - GrowthWindow}
    PROVE  WindowKept(N, SubSeq(all, CHOOSE k \in kept : \A m \in kept : k <= m, Len(all)))
<1> DEFINE n == Len(N)
           z == Len(all)
           c == CHOOSE k \in kept : \A m \in kept : k <= m
           S == SubSeq(all, c, z)
           T == [rss : Nat, at : Nat]
<1>1. /\ n \in Nat /\ N \in Seq(Sample) /\ GrowthWindow \in Nat \ {0} /\ f \in 1..n /\ z = n - f + 1
      /\ all \in Seq(T) /\ DOMAIN all = 1..z /\ z \in 1..n
  BY SamplingAssumption DEF Ordered, AllKept
<1>2. ASSUME NEW k \in 1..n PROVE N[k].at \in Nat /\ N[k].rss \in Nat
  <2>1. N[k] \in Sample
    BY <1>1
  <2> QED
    BY <2>1 DEF Sample
<1>3. ASSUME NEW j \in 1..z
      PROVE  f + j - 1 \in 1..n /\ all[j].rss = N[f + j - 1].rss /\ all[j].at = N[f + j - 1].at
  BY <1>1 DEF AllKept
<1>4. z \in kept /\ kept \subseteq 1..z
  <2>1. z \in 1..z /\ f + z - 1 = n
    BY <1>1
  <2>2. all[z].at = age
    BY <1>3, <2>1
  <2>3. age >= age - GrowthWindow
    BY <1>1
  <2> QED
    BY <1>1, <2>1, <2>2, <2>3
<1>5. c \in kept /\ \A m \in kept : c <= m
  <2>1. kept \subseteq Nat /\ kept # {}
    BY <1>1, <1>4
  <2> QED
    BY <2>1, SmallestOf
<1> HIDE DEF c
<1>6. c \in 1..z /\ all[c].at >= age - GrowthWindow
  BY <1>4, <1>5
<1> DEFINE g == f + c - 1
<1>7. g \in 1..n /\ all[c].at = N[g].at
  BY <1>3, <1>6
<1>8. g \in Inside(N, n)
  <2>1. N[f].at >= GrowthWindow /\ N[f].at \in Nat
    BY <1>1, <1>2 DEF AllKept
  <2>2. N[g].at >= N[f].at
    <3>1. g = f \/ f < g
      BY <1>1, <1>6
    <3>2. f < g => N[f].at < N[g].at
      BY <1>1, <1>7 DEF Ordered
    <3>3. N[g].at \in Nat
      BY <1>2, <1>7
    <3> QED
      BY <2>1, <3>1, <3>2, <3>3
  <2>3. N[g].at \in Nat /\ N[g].at >= GrowthWindow /\ N[g].at >= N[n].at - GrowthWindow
    <3>1. N[g].at \in Nat
      BY <1>2, <1>7
    <3>2. N[g].at >= N[n].at - GrowthWindow
      BY <1>6, <1>7
    <3>3. N[g].at >= GrowthWindow
      <4>1. GrowthWindow \in Nat
        BY <1>1
      <4> QED
        BY <2>1, <2>2, <3>1, <4>1
    <3> QED
      BY <3>1, <3>2, <3>3
  <2> QED
    BY <1>7, <2>3 DEF Inside
<1>9. ASSUME NEW m \in Inside(N, n) PROVE g <= m
  <2>1. m \in 1..n /\ N[m].at >= GrowthWindow /\ N[m].at >= age - GrowthWindow
    BY DEF Inside
  <2>2. m >= f
    BY <2>1 DEF AllKept
  <2>3. m - f + 1 \in 1..z /\ f + (m - f + 1) - 1 = m
    BY <1>1, <2>1, <2>2
  <2>4. m - f + 1 \in kept
    BY <1>1, <1>3, <2>1, <2>3
  <2>5. c <= m - f + 1
    BY <1>5, <2>4
  <2> QED
    BY <1>1, <1>6, <2>1, <2>5
<1> HIDE DEF T
<1>10. S \in Seq(T) /\ Len(S) = z - c + 1 /\ \A j \in 1..(z - c + 1) : S[j] = all[c + j - 1]
  <2>1. \A j \in c..z : all[j] \in T
    BY <1>1, <1>6
  <2> QED
    BY <1>1, <1>6, <2>1, SubSeqProperties
<1> HIDE DEF S
<1>11. Len(S) = n - g + 1
  BY <1>1, <1>6, <1>10
<1>12. ASSUME NEW j \in 1..Len(S) PROVE S[j].rss = N[g + j - 1].rss /\ S[j].at = N[g + j - 1].at
  <2>1. c + j - 1 \in 1..z /\ f + (c + j - 1) - 1 = g + j - 1
    BY <1>1, <1>6, <1>10
  <2> QED
    BY <1>3, <1>10, <2>1
<1>13. Earliest(N, n, g)
  BY <1>8, <1>9 DEF Earliest
<1>14. ~(n = 0 \/ N[n].at < GrowthWindow)
  BY <1>1
<1> HIDE DEF g
<1> USE DEF T
<1>15. WindowKept(N, S)
  BY <1>7, <1>10, <1>11, <1>12, <1>13, <1>14 DEF WindowKept
<1> QED
  BY <1>15 DEF S, c

\* What detectGrowth makes of the window, in the words of the log.
LEMMA GrowthMeasured ==
    ASSUME NEW age \in Nat, age >= GrowthWindow, NEW N, Ordered(N, age), Len(N) > 0,
           N[Len(N)].at = age, NEW S, WindowKept(N, S), NEW prev \in Nat
    PROVE  DetectGrowth(S, prev) =
             IF ~Filled(N, Len(N)) THEN prev
             ELSE IF NetGrowth(N, Len(N)) <= 0 THEN 0
             ELSE IF NetGrowth(N, Len(N)) \div Growth > prev THEN NetGrowth(N, Len(N)) \div Growth ELSE prev
<1> DEFINE n == Len(N)
<1>1. /\ n \in Nat \ {0} /\ N \in Seq(Sample) /\ GrowthWindow \in Nat \ {0} /\ Growth \in Nat \ {0}
  BY SamplingAssumption DEF Ordered
<1>2. ASSUME NEW k \in 1..n PROVE N[k].at \in Nat /\ N[k].rss \in Nat
  <2>1. N[k] \in Sample
    BY <1>1
  <2> QED
    BY <2>1 DEF Sample
<1>3. PICK f \in 1..n : /\ Earliest(N, n, f) /\ Len(S) = n - f + 1
                        /\ \A j \in 1..Len(S) : S[j].rss = N[f + j - 1].rss /\ S[j].at = N[f + j - 1].at
  <2>1. ~(n = 0 \/ N[n].at < GrowthWindow)
    BY <1>1
  <2> QED
    BY <2>1 DEF WindowKept
<1>4. /\ S[1].rss = N[f].rss /\ S[1].at = N[f].at
      /\ S[Len(S)].rss = N[n].rss /\ S[Len(S)].at = N[n].at
  <2>1. 1 \in 1..Len(S) /\ f + 1 - 1 = f /\ Len(S) \in 1..Len(S) /\ f + Len(S) - 1 = n
    BY <1>1, <1>3
  <2> QED
    BY <1>3, <2>1
<1>5. n \in 1..n /\ N[f].at \in Nat /\ N[n].at \in Nat /\ N[f].rss \in Nat /\ N[n].rss \in Nat
  BY <1>1, <1>2
<1>6. Filled(N, n) <=> 10 * (N[n].at - N[f].at) >= 9 * GrowthWindow
  <2>1. f \in Inside(N, n)
    BY <1>3 DEF Earliest
  <2>2. ASSUME NEW k \in Inside(N, n) PROVE k \in 1..n /\ N[f].at <= N[k].at
    <3>1. k \in 1..n /\ f <= k
      BY <1>3 DEF Earliest, Inside
    <3>2. f = k \/ f < k
      BY <1>1, <3>1
    <3>3. f < k => N[f].at < N[k].at
      BY <1>1, <3>1 DEF Ordered
    <3> QED
      BY <1>2, <1>5, <3>1, <3>2, <3>3
  <2>3. ASSUME NEW k \in Inside(N, n), 10 * (N[n].at - N[k].at) >= 9 * GrowthWindow
        PROVE  10 * (N[n].at - N[f].at) >= 9 * GrowthWindow
    <3>1. N[k].at \in Nat /\ N[f].at <= N[k].at
      BY <1>2, <2>2
    <3> QED
      BY <1>1, <1>5, <2>3, <3>1
  <2> QED
    BY <2>1, <2>3 DEF Filled
<1>7. NetGrowth(N, n) = N[n].rss - N[f].rss
  <2> DEFINE P(k) == k \in Inside(N, n) /\ \A m \in Inside(N, n) : k <= m
  <2>1. f \in Inside(N, n) /\ \A m \in Inside(N, n) : f <= m
    BY <1>3 DEF Earliest
  <2>2. ASSUME NEW k \in Inside(N, n), \A m \in Inside(N, n) : k <= m PROVE k = f
    <3>1. k <= f /\ f <= k /\ k \in 1..n
      BY <2>1, <2>2 DEF Inside
    <3> QED
      BY <1>1, <3>1
  <2>3. (CHOOSE k \in Inside(N, n) : \A m \in Inside(N, n) : k <= m) = f
    BY <2>1, <2>2
  <2> QED
    BY <2>3 DEF NetGrowth
<1>8. Len(S) < 2 => ~Filled(N, n)
  <2>1. Len(S) < 2 => f = n
    BY <1>1, <1>3
  <2>2. f = n => 10 * (N[n].at - N[f].at) = 0
    BY <1>5
  <2> QED
    BY <1>1, <1>6, <2>1, <2>2
<1> DEFINE span == S[Len(S)].at - S[1].at
           grew == S[Len(S)].rss - S[1].rss
<1>9. span = N[n].at - N[f].at /\ grew = NetGrowth(N, n) /\ span \in Int /\ grew \in Int
  BY <1>4, <1>5, <1>7
<1>10. DetectGrowth(S, prev) = IF Len(S) < 2 THEN prev ELSE IF 10 * span < 9 * GrowthWindow THEN prev
          ELSE IF grew <= 0 THEN 0 ELSE IF grew \div Growth > prev THEN grew \div Growth ELSE prev
  BY DEF DetectGrowth
<1>11. Len(S) < 2 \/ 10 * span < 9 * GrowthWindow <=> ~Filled(N, n)
  <2>1. 10 * span < 9 * GrowthWindow <=> ~(10 * (N[n].at - N[f].at) >= 9 * GrowthWindow)
    BY <1>1, <1>5, <1>9
  <2> QED
    BY <1>6, <1>8, <2>1
<1> HIDE DEF span, grew
<1> QED
  BY <1>9, <1>10, <1>11

LEMMA MultiplesType ==
    ASSUME NEW N \in Seq(Sample), NEW k \in 1..Len(N)
    PROVE  /\ Filled(N, k) => NetGrowth(N, k) \in Int
           /\ Multiples(N, k) \in Nat
<1>1. Growth \in Nat \ {0} /\ GrowthWindow \in Nat
  BY SamplingAssumption
<1>2. ASSUME Filled(N, k) PROVE NetGrowth(N, k) \in Int
  <2> DEFINE f == CHOOSE j \in Inside(N, k) : \A m \in Inside(N, k) : j <= m
  <2>1. Inside(N, k) \subseteq 1..k /\ Inside(N, k) # {} /\ 1..k \subseteq Nat
    BY <1>2 DEF Inside, Filled
  <2>2. f \in Inside(N, k)
    BY <2>1, SmallestOf
  <2> HIDE DEF f
  <2>3. f \in 1..Len(N)
    <3>1. f \in 1..k /\ Len(N) \in Nat
      BY <2>1, <2>2
    <3> QED
      BY <3>1
  <2>4. N[f] \in Sample /\ N[k] \in Sample
    BY <2>3
  <2>5. N[f].rss \in Nat /\ N[k].rss \in Nat
    BY <2>4 DEF Sample
  <2>6. NetGrowth(N, k) = N[k].rss - N[f].rss
    BY DEF NetGrowth, f
  <2> QED
    BY <2>5, <2>6
<1>3. Multiples(N, k) \in Nat
  <2>1. CASE Filled(N, k) /\ NetGrowth(N, k) > 0
    <3> DEFINE g == NetGrowth(N, k)
    <3>1. g \in Int /\ g > 0 /\ Multiples(N, k) = g \div Growth
      BY <1>2, <2>1 DEF Multiples
    <3> HIDE DEF g
    <3> QED
      BY <1>1, <3>1
  <2> QED
    BY <2>1 DEF Multiples
<1> QED
  BY <1>2, <1>3

\* What is told of growth, and what is remembered of it, after one more sample.
LEMMA TellsGrow ==
    ASSUME NEW L \in Seq(Sample), NEW N \in Seq(Sample), NEW x, Grown(L, x, N), NEW n, n = Len(N),
           NEW prev, TellsKnown(L, prev), NEW now,
           now = (IF ~Filled(N, n) THEN prev
                  ELSE IF NetGrowth(N, n) <= 0 THEN 0
                  ELSE IF NetGrowth(N, n) \div Growth > prev THEN NetGrowth(N, n) \div Growth ELSE prev),
           x.grew <=> now > prev
    PROVE  /\ TellsKnown(N, now)
           /\ N[n].grew =>
                /\ Multiples(N, n) > 0
                /\ \A k \in 1..(n - 1) : N[k].grew => Fell(N, k, n) \/ Multiples(N, n) > Multiples(N, k)
           /\ Multiples(N, n) > 0 /\ ~N[n].grew =>
                \E k \in 1..(n - 1) : /\ N[k].grew /\ Multiples(N, k) >= Multiples(N, n)
                                      /\ ~Fell(N, k, n)
<1> DEFINE l == Len(L)
           F == Filled(N, n) /\ NetGrowth(N, n) <= 0
           q == Multiples(N, n)
<1>1. /\ l \in Nat /\ n = l + 1 /\ N[n] = x /\ n \in 1..n /\ prev \in Nat
      /\ (N[n].grew <=> now > prev) /\ q \in Nat
      /\ \A k \in 1..l : N[k] = L[k] /\ k \in 1..n
  <2>1. l \in Nat /\ Len(N) = l + 1 /\ N[l + 1] = x /\ \A k \in 1..l : N[k] = L[k]
    BY DEF Grown
  <2>2. n \in 1..n
    BY <2>1
  <2>3. q \in Nat
    BY <2>2, MultiplesType
  <2> QED
    BY <2>1, <2>2, <2>3 DEF TellsKnown
<1>2. ASSUME NEW k \in 1..l
      PROVE  /\ Multiples(N, k) = Multiples(L, k) /\ Multiples(L, k) \in Nat
             /\ N[k].grew = L[k].grew /\ (Fell(N, k, n) <=> Fell(L, k, l) \/ F)
  <2>1. Multiples(N, k) = Multiples(L, k) /\ Multiples(L, k) \in Nat
    BY GrownInside, MultiplesType
  <2>2. k..n = (k..l) \cup {n} /\ \A m \in k..l : m \in 1..l
    BY <1>1
  <2>3. \A m \in k..l : (Filled(N, m) /\ NetGrowth(N, m) <= 0) <=> (Filled(L, m) /\ NetGrowth(L, m) <= 0)
    BY <2>2, GrownInside
  <2>4. Fell(N, k, n) <=> Fell(L, k, l) \/ F
    BY <2>2, <2>3 DEF Fell
  <2> QED
    BY <1>1, <2>1, <2>4
<1>3. Fell(N, n, n) <=> F
  <2>1. n..n = {n}
    BY <1>1
  <2> QED
    BY <2>1 DEF Fell
<1>4. /\ \A k \in 1..l : N[k].grew => Fell(L, k, l) \/ prev >= Multiples(N, k)
      /\ prev > 0 => \E k \in 1..l : N[k].grew /\ ~Fell(L, k, l) /\ Multiples(N, k) >= prev
  BY <1>2 DEF TellsKnown
<1>5. 1..(n - 1) = 1..l /\ 1..n = (1..l) \cup {n}
  BY <1>1
<1>6. CASE ~Filled(N, n)
  <2>1. now = prev /\ ~F /\ q = 0 /\ ~N[n].grew
    BY <1>1, <1>6 DEF Multiples
  <2> QED
    BY <1>1, <1>2, <1>4, <1>5, <2>1 DEF TellsKnown
<1>7. CASE F
  <2>1. now = 0 /\ q = 0 /\ ~N[n].grew
    <3>1. NetGrowth(N, n) \in Int
      BY <1>1, <1>7, MultiplesType
    <3>2. now = 0 /\ ~(NetGrowth(N, n) > 0)
      BY <1>7, <3>1
    <3> QED
      BY <1>1, <3>2 DEF Multiples
  <2> QED
    BY <1>1, <1>2, <1>5, <1>7, <2>1 DEF TellsKnown
<1>8. CASE Filled(N, n) /\ ~F
  <2>1. NetGrowth(N, n) \in Int /\ NetGrowth(N, n) > 0
    <3>1. NetGrowth(N, n) \in Int
      BY <1>1, <1>8, MultiplesType
    <3> QED
      BY <1>8, <3>1
  <2>2. q = NetGrowth(N, n) \div Growth
    BY <1>8, <2>1 DEF Multiples
  <2>3. now = IF q > prev THEN q ELSE prev
    BY <1>8, <2>1, <2>2
  <2> HIDE DEF q
  <2>4. now \in Nat /\ now >= prev /\ now >= q /\ (now > prev => now = q) /\ (now <= prev => now = prev)
    BY <1>1, <2>3
  <2> HIDE DEF F
  <2>5. ASSUME NEW k \in 1..n, N[k].grew PROVE Fell(N, k, n) \/ now >= Multiples(N, k)
    <3>1. CASE k = n
      BY <1>1, <2>4, <3>1 DEF q
    <3>2. CASE k \in 1..l
      <4>1. Fell(L, k, l) \/ prev >= Multiples(N, k)
        BY <1>4, <2>5, <3>2
      <4>2. Multiples(N, k) \in Nat
        BY <1>2, <3>2
      <4>3. Fell(L, k, l) => Fell(N, k, n)
        BY <1>2, <3>2
      <4>4. prev >= Multiples(N, k) => now >= Multiples(N, k)
        BY <1>1, <2>4, <4>2
      <4> QED
        BY <4>1, <4>3, <4>4
    <3> QED
      BY <1>5, <2>5, <3>1, <3>2
  <2>6. ASSUME N[n].grew
        PROVE  q > 0 /\ \A k \in 1..l : N[k].grew => Fell(N, k, n) \/ q > Multiples(N, k)
    <3>1. q > prev /\ q > 0
      BY <1>1, <2>3, <2>6
    <3>2. ASSUME NEW k \in 1..l, N[k].grew PROVE Fell(N, k, n) \/ q > Multiples(N, k)
      <4>1. Fell(L, k, l) \/ prev >= Multiples(N, k)
        BY <1>4, <3>2
      <4>2. Multiples(N, k) \in Nat
        BY <1>2
      <4>3. Fell(L, k, l) => Fell(N, k, n)
        BY <1>2
      <4>4. prev >= Multiples(N, k) => q > Multiples(N, k)
        BY <1>1, <3>1, <4>2
      <4> QED
        BY <4>1, <4>3, <4>4
    <3> QED
      BY <3>1, <3>2
  <2>7. ASSUME ~N[n].grew, prev > 0
        PROVE  \E k \in 1..l : N[k].grew /\ ~Fell(N, k, n) /\ Multiples(N, k) >= prev
    <3>1. PICK k \in 1..l : N[k].grew /\ ~Fell(L, k, l) /\ Multiples(N, k) >= prev
      BY <1>4, <2>7
    <3>2. ~Fell(N, k, n)
      BY <1>2, <1>8, <3>1 DEF F
    <3> QED
      BY <3>1, <3>2
  <2>8. now > 0 => \E k \in 1..n : N[k].grew /\ ~Fell(N, k, n) /\ Multiples(N, k) >= now
    <3>1. CASE N[n].grew
      <4>1. now = q /\ ~Fell(N, n, n)
        BY <1>1, <1>3, <1>8, <2>4, <3>1 DEF F
      <4>2. Multiples(N, n) >= now
        BY <1>1, <4>1 DEF q
      <4> QED
        BY <1>1, <3>1, <4>1, <4>2
    <3>2. CASE ~N[n].grew
      <4>1. now = prev
        BY <1>1, <2>4, <3>2
      <4> QED
        BY <1>1, <2>7, <3>2, <4>1
    <3> QED
      BY <3>1, <3>2
  <2>9. ASSUME q > 0, ~N[n].grew
        PROVE  \E k \in 1..l : N[k].grew /\ Multiples(N, k) >= q /\ ~Fell(N, k, n)
    <3>1. prev >= q /\ prev > 0
      BY <1>1, <2>3, <2>9
    <3>2. PICK k \in 1..l : N[k].grew /\ ~Fell(N, k, n) /\ Multiples(N, k) >= prev
      BY <2>7, <2>9, <3>1
    <3>3. Multiples(N, k) \in Nat
      BY <1>2
    <3>4. Multiples(N, k) >= q
      BY <1>1, <3>1, <3>2, <3>3
    <3> QED
      BY <3>2, <3>4
  <2>10. TellsKnown(N, now)
    BY <1>1, <2>4, <2>5, <2>8 DEF TellsKnown
  <2> QED
    BY <1>5, <2>6, <2>9, <2>10 DEF q
<1> QED
  BY <1>6, <1>7, <1>8

\* The reading before is the last sample of the log.
LEMMA PrevGrows ==
    ASSUME NEW L \in Seq(Sample), NEW N, NEW x, Grown(L, x, N), NEW prev, PrevKnown(L, prev),
           NEW r \in Readings, x.children = r.children, NEW n, n = Len(N)
    PROVE  /\ PrevKnown(N, r)
           /\ prev # Unreadable /\ prev.children >= 0 /\ r.children - prev.children > ForkBurstN <=>
                n > 1 /\ N[n - 1].children # -1 /\ N[n].children - N[n - 1].children > ForkBurstN
<1>1. r \in [rss : Nat, children : Nat \cup {-1}, fds : Nat \cup {-1}] /\ ForkBurstN \in Nat
  BY SamplingAssumption
<1>2. /\ Len(L) \in Nat /\ n = Len(L) + 1 /\ N[n] = x /\ \A k \in 1..Len(L) : N[k] = L[k]
  BY DEF Grown
<1>3. r # Unreadable /\ r.children \in Nat \cup {-1}
  <2>1. r.rss \in Nat /\ Unreadable.rss = -1
    BY <1>1 DEF Unreadable
  <2> QED
    BY <1>1, <2>1
<1>4. PrevKnown(N, r)
  BY <1>1, <1>2, <1>3 DEF PrevKnown
<1>5. prev # Unreadable <=> n > 1
  BY <1>2 DEF PrevKnown
<1>6. ASSUME n > 1 PROVE prev.children = N[n - 1].children /\ prev.children \in Nat \cup {-1}
  <2>1. Len(L) > 0 /\ Len(L) \in 1..Len(L) /\ n - 1 = Len(L)
    BY <1>2, <1>6
  <2>2. L[Len(L)] \in Sample
    BY <2>1
  <2>3. L[Len(L)].children \in Nat \cup {-1}
    BY <2>2 DEF Sample
  <2> QED
    BY <1>2, <2>1, <2>3 DEF PrevKnown
<1>7. n > 1 => (prev.children >= 0 <=> N[n - 1].children # -1)
  BY <1>6
<1>8. N[n].children = r.children
  BY <1>2
<1> QED
  BY <1>4, <1>5, <1>6, <1>7, <1>8

-----------------------------------------------------------------------------
(* A tick.                                                                 *)

\* The log is in the past of the tick.
Past(s, age) == s.age = age /\ Knows(s, age) /\ Behind(s.log, age)

\* A tick that reads nothing changes nothing but what was said.
LEMMA UnreadTick ==
    ASSUME NEW s, NEW age \in Nat, Past(s, age)
    PROVE  Knows(Sampled(s, Unreadable), age) /\ Measured(Sampled(s, Unreadable))
           /\ Sampled(s, Unreadable).age = age
<1> DEFINE t == Sampled(s, Unreadable)
<1>1. t = [s EXCEPT !.read = FALSE, !.said = {}]
  BY DEF Sampled
<1>2. s = [x \in SamplerFields |-> s[x]] /\ DOMAIN s = SamplerFields
  BY DEF Past, Knows
<1>3. /\ DOMAIN t = SamplerFields /\ t = [x \in SamplerFields |-> t[x]]
      /\ t.age = s.age /\ t.log = s.log /\ t.prev = s.prev /\ t.overSince = s.overSince
      /\ t.samples = s.samples /\ t.growthMultiples = s.growthMultiples /\ t.read = FALSE
  BY <1>1, <1>2 DEF SamplerFields
<1> HIDE DEF t
<1>4. Knows(t, age)
  BY <1>3 DEF Past, Knows
<1>5. Measured(t)
  BY <1>3 DEF Measured
<1> QED
  BY <1>3, <1>4, <1>5 DEF t, Past

\* A tick that reads measures.
LEMMA ReadTick ==
    ASSUME NEW s, NEW age \in Nat, Past(s, age), NEW r \in Readings
    PROVE  Knows(Sampled(s, r), age) /\ Measured(Sampled(s, r)) /\ Sampled(s, r).age = age
<1> DEFINE t == Sampled(s, r)
           L == s.log
           since == OverSince(s, r)
           all == Append(s.samples, [rss |-> r.rss, at |-> s.age])
           samples == InWindow(s, r)
           now == IF s.age < GrowthWindow THEN s.growthMultiples
                  ELSE DetectGrowth(samples, s.growthMultiples)
           said == (IF s.age < Warmup THEN {}
                    ELSE AnalyzeSample(s.prev, r, ~SustainReached(since, s.age)))
                   \cup (IF now > s.growthMultiples THEN {"growth"} ELSE {})
           grew == now > s.growthMultiples
           x == [at |-> age, rss |-> r.rss, children |-> r.children, grew |-> grew]
           N == Append(L, x)
           n == Len(N)
<1>1. /\ r.rss \in Nat /\ r.children \in Nat \cup {-1} /\ r # Unreadable
  <2>1. r \in [rss : Nat, children : Nat \cup {-1}, fds : Nat \cup {-1}]
    BY SamplingAssumption
  <2>2. r.rss \in Nat /\ r.children \in Nat \cup {-1} /\ Unreadable.rss = -1
    BY <2>1 DEF Unreadable
  <2> QED
    BY <2>2
<1>2. s.age = age /\ Knows(s, age) /\ Behind(L, age)
  BY DEF Past
<1>3. /\ DOMAIN s = SamplerFields /\ s = [y \in SamplerFields |-> s[y]]
      /\ Ordered(L, age) /\ PrevKnown(L, s.prev) /\ RunKnown(L, s.overSince)
      /\ WindowKept(L, s.samples) /\ TellsKnown(L, s.growthMultiples)
  BY <1>2 DEF Knows
<1>4. x \in Sample /\ x.at = age /\ x.rss = r.rss /\ x.children = r.children
      /\ (x.grew <=> now > s.growthMultiples)
  <2>1. grew \in BOOLEAN
    OBVIOUS
  <2> HIDE DEF grew
  <2>2. x \in Sample /\ x.at = age /\ x.rss = r.rss /\ x.children = r.children /\ x.grew = grew
    BY <1>1, <2>1 DEF Sample
  <2> QED
    BY <2>2 DEF grew
<1>5. t = [s EXCEPT !.prev = r, !.overSince = since, !.samples = samples,
                    !.growthMultiples = now, !.read = TRUE, !.said = said, !.log = N]
  BY <1>1, <1>2 DEF Sampled
<1> HIDE DEF x, grew, said, now, since, samples
<1>6. /\ DOMAIN t = SamplerFields /\ t = [y \in SamplerFields |-> t[y]]
      /\ t.age = age /\ t.log = N /\ t.prev = r /\ t.overSince = since
      /\ t.samples = samples /\ t.growthMultiples = now /\ t.read = TRUE /\ t.said = said
  BY <1>2, <1>3, <1>5 DEF SamplerFields
<1> HIDE DEF t
<1>7. Grown(L, x, N) /\ L \in Seq(Sample)
  BY <1>3, <1>4, GrownLog DEF Ordered
<1>8. Ordered(N, age)
  BY <1>2, <1>3, <1>4, <1>7, GrownOrdered
<1>9. N \in Seq(Sample) /\ n = Len(L) + 1 /\ N[n] = x /\ n \in Nat /\ n > 0 /\ N[n].at = age
  BY <1>4, <1>7, <1>8 DEF Grown, Ordered
<1> HIDE DEF L, N
<1>10. /\ RunKnown(N, since)
       /\ age >= Warmup /\ SustainReached(since, age) /\ r.rss > MemLimit <=>
            \E k \in 1..n : N[n].at - N[k].at >= MemSustain /\ High(N, k, n)
  <2>1. L = s.log
    BY DEF L
  <2>2. since = OverSince(s, r)
    BY DEF since
  <2> QED
    BY <1>1, <1>2, <1>3, <1>4, <1>7, <1>8, <2>1, <2>2, RunGrows
<1>11. /\ PrevKnown(N, r)
       /\ s.prev # Unreadable /\ s.prev.children >= 0 /\ r.children - s.prev.children > ForkBurstN <=>
            n > 1 /\ N[n - 1].children # -1 /\ N[n].children - N[n - 1].children > ForkBurstN
  BY <1>3, <1>4, <1>7, PrevGrows
<1>12. s.growthMultiples \in Nat /\ GrowthWindow \in Nat
  BY <1>3, SamplingAssumption DEF TellsKnown
<1>13. /\ WindowKept(N, samples)
       /\ now = (IF ~Filled(N, n) THEN s.growthMultiples
                 ELSE IF NetGrowth(N, n) <= 0 THEN 0
                 ELSE IF NetGrowth(N, n) \div Growth > s.growthMultiples
                 THEN NetGrowth(N, n) \div Growth ELSE s.growthMultiples)
  <2>1. CASE age >= GrowthWindow
    <3> DEFINE e == [rss |-> x.rss, at |-> age]
               W == Append(s.samples, e)
               kept == {k \in DOMAIN W : W[k].at >= age - GrowthWindow}
               cut == SubSeq(W, CHOOSE k \in kept : \A m \in kept : k <= m, Len(W))
    <3>1. PICK f \in 1..n : AllKept(N, W, f, age)
      BY <1>2, <1>3, <1>4, <1>7, <1>8, <2>1, AllKeptExists
    <3>2. samples = cut
      <4>1. ~(s.age < GrowthWindow)
        BY <1>2, <1>12, <2>1
      <4> QED
        BY <1>2, <1>4, <4>1 DEF samples, InWindow
    <3> HIDE DEF W
    <3>3. WindowKept(N, cut)
      BY <1>8, <1>9, <2>1, <3>1, WindowCut
    <3> HIDE DEF cut
    <3>4. now = DetectGrowth(samples, s.growthMultiples)
      BY <1>2, <1>12, <2>1 DEF now
    <3> QED
      BY <1>8, <1>9, <1>12, <2>1, <3>2, <3>3, <3>4, GrowthMeasured
  <2>2. CASE age < GrowthWindow
    <3>1. samples = s.samples /\ now = s.growthMultiples
      BY <1>2, <2>2 DEF samples, InWindow, now
    <3>2. s.samples = <<>>
      <4>1. CASE Len(L) = 0
        BY <1>3, <4>1 DEF WindowKept
      <4>2. CASE Len(L) # 0
        <5>1. Len(L) \in 1..Len(L) /\ L[Len(L)] \in Sample
          BY <1>7, <4>2
        <5>2. L[Len(L)].at < age /\ L[Len(L)].at \in Nat
          BY <1>2, <5>1 DEF Sample, Behind
        <5>3. L[Len(L)].at < GrowthWindow
          BY <1>12, <2>2, <5>2
        <5> QED
          BY <1>3, <5>3 DEF WindowKept
      <4> QED
        BY <4>1, <4>2
    <3>3. WindowKept(N, samples)
      BY <1>9, <2>2, <3>1, <3>2 DEF WindowKept
    <3>4. ASSUME NEW k \in Inside(N, n) PROVE FALSE
      <4>1. k \in 1..n /\ N[k].at >= GrowthWindow
        BY DEF Inside
      <4>2. N[k] \in Sample
        BY <1>9, <4>1
      <4>3. N[k].at \in Nat /\ N[k].at <= age
        BY <1>8, <4>1, <4>2 DEF Ordered, Sample
      <4> QED
        BY <1>12, <2>2, <4>1, <4>3
    <3>5. ~Filled(N, n)
      BY <3>4 DEF Filled
    <3> QED
      BY <3>1, <3>3, <3>5
  <2> QED
    BY <1>12, <2>1, <2>2
<1>14. /\ TellsKnown(N, now)
       /\ N[n].grew =>
            /\ Multiples(N, n) > 0
            /\ \A k \in 1..(n - 1) : N[k].grew => Fell(N, k, n) \/ Multiples(N, n) > Multiples(N, k)
       /\ Multiples(N, n) > 0 /\ ~N[n].grew =>
            \E k \in 1..(n - 1) : /\ N[k].grew /\ Multiples(N, k) >= Multiples(N, n)
                                  /\ ~Fell(N, k, n)
  BY <1>3, <1>4, <1>7, <1>9, <1>13, TellsGrow
<1>15. Knows(t, age)
  BY <1>6, <1>8, <1>10, <1>11, <1>13, <1>14 DEF Knows
<1>16. "mem" \in said <=> age >= Warmup /\ SustainReached(since, age) /\ r.rss > MemLimit
  BY <1>2, SamplingAssumption DEF said, AnalyzeSample
<1>17. "fork" \in said <=>
         /\ age >= Warmup
         /\ s.prev # Unreadable /\ s.prev.children >= 0 /\ r.children - s.prev.children > ForkBurstN
  BY <1>2, SamplingAssumption DEF said, AnalyzeSample
<1>18. Measured(t)
  <2> DEFINE before == {k \in 1..(n - 1) : N[k].grew}
  <2>1. "mem" \in said <=> \E k \in 1..n : N[n].at - N[k].at >= MemSustain /\ High(N, k, n)
    BY <1>10, <1>16
  <2>2. "fork" \in said <=>
          /\ n > 1 /\ N[n].at >= Warmup /\ N[n - 1].children # -1
          /\ N[n].children - N[n - 1].children > ForkBurstN
    BY <1>9, <1>11, <1>17
  <2>3. N[n].grew =>
          /\ Multiples(N, n) > 0
          /\ \A k \in before : Fell(N, k, n) \/ Multiples(N, n) > Multiples(N, k)
    BY <1>14
  <2>4. Multiples(N, n) > 0 /\ ~N[n].grew =>
          \E k \in before : Multiples(N, k) >= Multiples(N, n) /\ ~Fell(N, k, n)
    BY <1>14
  <2> QED
    BY <1>6, <2>1, <2>2, <2>3, <2>4 DEF Measured
<1> QED
  BY <1>6, <1>15, <1>18 DEF t

\* What a sentinel remembers when it begins, and what is remembered of none.
LEMMA NothingKnown ==
    ASSUME NEW s, s = Began \/ s = Off
    PROVE  Knows(s, 0) /\ Measured(s) /\ s.age = 0 /\ Past(s, 0)
<1>1. /\ DOMAIN s = SamplerFields /\ s = [y \in SamplerFields |-> s[y]]
      /\ s.age = 0 /\ s.log = <<>> /\ s.prev = Unreadable /\ s.overSince = -1
      /\ s.samples = <<>> /\ s.growthMultiples = 0 /\ s.read = FALSE
  BY DEF Began, Off, SamplerFields
<1>2. Len(s.log) = 0 /\ 1..0 = {}
  BY <1>1
<1>3. Ordered(s.log, 0)
  <2>1. s.log \in Seq(Sample)
    BY <1>1, EmptySeq
  <2> QED
    BY <1>2, <2>1 DEF Ordered
<1>4. PrevKnown(s.log, s.prev) /\ RunKnown(s.log, s.overSince) /\ WindowKept(s.log, s.samples)
  BY <1>1, <1>2 DEF PrevKnown, RunKnown, WindowKept
<1>5. TellsKnown(s.log, s.growthMultiples)
  BY <1>1, <1>2 DEF TellsKnown
<1>6. Knows(s, 0)
  BY <1>1, <1>3, <1>4, <1>5 DEF Knows
<1> QED
  BY <1>1, <1>2, <1>6 DEF Measured, Past, Behind

-----------------------------------------------------------------------------
(* The sampler over the life of the sentinel.                              *)

LEMMA SamplerInit == SamplingInit => SamplerInv
  BY NothingKnown DEF SamplingInit, SamplerInv

LEMMA SamplerTick ==
    ASSUME SamplerInv, SampleStep
    PROVE  SamplerInv'
<1> DEFINE s == [sampler EXCEPT !.age = @ + 1]
           age == sampler.age + 1
<1>1. /\ sampler = [y \in SamplerFields |-> sampler[y]] /\ DOMAIN sampler = SamplerFields
      /\ Knows(sampler, sampler.age) /\ sampler.age \in Nat
  BY DEF SamplerInv, Knows
<1>2. /\ DOMAIN s = SamplerFields /\ s = [y \in SamplerFields |-> s[y]]
      /\ s.age = age /\ s.log = sampler.log /\ s.prev = sampler.prev /\ s.overSince = sampler.overSince
      /\ s.samples = sampler.samples /\ s.growthMultiples = sampler.growthMultiples
  BY <1>1 DEF SamplerFields
<1>3. PICK r \in Readings \cup {Unreadable} : sampler' = Sampled(s, r)
  BY DEF SampleStep
<1> HIDE DEF s
<1>4. age \in Nat /\ Ordered(s.log, age) /\ Behind(s.log, age)
  <2>1. Ordered(s.log, sampler.age)
    BY <1>1, <1>2 DEF Knows
  <2>2. ASSUME NEW k \in 1..Len(s.log) PROVE s.log[k].at < age /\ s.log[k].at <= age
    <3>1. s.log[k] \in Sample /\ s.log[k].at <= sampler.age
      BY <2>1 DEF Ordered
    <3>2. s.log[k].at \in Nat
      BY <3>1 DEF Sample
    <3> QED
      BY <1>1, <3>1, <3>2
  <2> QED
    BY <1>1, <2>1, <2>2 DEF Ordered, Behind
<1>5. Past(s, age)
  BY <1>1, <1>2, <1>4 DEF Past, Knows
<1> HIDE DEF age
<1>6. Knows(sampler', age) /\ Measured(sampler') /\ sampler'.age = age
  BY <1>3, <1>4, <1>5, UnreadTick, ReadTick
<1> QED
  BY <1>6 DEF SamplerInv

LEMMA SamplerFollows ==
    ASSUME SamplerInv, Follows
    PROVE  SamplerInv'
<1>1. CASE sampler' = Off
  BY <1>1, NothingKnown DEF SamplerInv
<1>2. CASE UNCHANGED sampler
  BY <1>2 DEF SamplerInv
<1>3. ASSUME NEW r \in Readings \cup {Unreadable}, sampler' = Sampled(Began, r)
      PROVE  SamplerInv'
  <2>1. Past(Began, 0)
    BY NothingKnown
  <2>2. Knows(sampler', 0) /\ Measured(sampler') /\ sampler'.age = 0
    BY <1>3, <2>1, UnreadTick, ReadTick
  <2> QED
    BY <2>2 DEF SamplerInv
<1> QED
  BY <1>1, <1>2, <1>3 DEF Follows

LEMMA SamplerStep == SamplerInv /\ [SamplingNext]_allVars => SamplerInv'
<1> SUFFICES ASSUME SamplerInv, [SamplingNext]_allVars PROVE SamplerInv'
  OBVIOUS
<1>1. CASE LifeStep
  BY <1>1, SamplerFollows DEF LifeStep
<1>2. CASE SampleStep
  BY <1>2, SamplerTick
<1>3. CASE Rest \/ UNCHANGED allVars
  BY <1>3 DEF Rest, allVars, SamplerInv
<1> QED
  BY <1>1, <1>2, <1>3 DEF SamplingNext

\* The alarms of every sentinel are what it measured, over any sequence of
\* readings, failed reads and restarts.  (guard/runtime-watch.ts: tick)
THEOREM AlarmsWereMeasured == SamplingSpec => []AlarmsAreMeasured
<1>1. SamplingSpec => []SamplerInv
  BY SamplerInit, SamplerStep, PTL DEF SamplingSpec
<1> QED
  BY <1>1, MeasuredIs, PTL

LEMMA GuardOnSafe == GuardOn => SentinelInv
<1> SUFFICES ASSUME GuardOn PROVE SentinelInv
  OBVIOUS
<1> DEFINE m == CHOOSE x \in Copies : TRUE
           i == CHOOSE x \in Insts : TRUE
           p == CHOOSE x \in Pids : TRUE
           r == Launched(NewInst(m), p)
<1>1. /\ env = p /\ proc = [x \in Pids |-> IF x = p THEN "starting" ELSE "free"]
      /\ term = {} /\ stray = {} /\ host = "up" /\ faults = 0
      /\ copy = [x \in Copies |-> IF x = m THEN "on" ELSE "fresh"]
      /\ inst = [x \in Insts |-> IF x = i THEN r ELSE Unused]
  BY DEF GuardOn
<1>2. m \in Copies /\ i \in Insts /\ p \in Pids
  BY SamplingAssumption
<1> HIDE DEF m, i, p
<1>3. r \in Inst /\ r.live /\ r.child = p /\ ~r.timer
  <2> DEFINE e == NewInst(m)
  <2>1. e \in Inst /\ e.live /\ ~e.timer
    BY <1>2, NewInstFacts
  <2>2. Launched(e, p) \in Inst /\ Launched(e, p).child = p /\ Launched(e, p).live = e.live
    BY <1>2, <2>1, LaunchedFacts
  <2>3. Launched(e, p).timer = e.timer
    BY <2>1 DEF Launched, Inst
  <2> QED
    BY <2>1, <2>2, <2>3
<1> HIDE DEF r
<1>4. Running(proc) = {p}
  BY <1>1, <1>2 DEF Running
<1>5. TypeOK
  BY <1>1, <1>2, <1>3, <1>4, UnusedType, SentinelAssumption DEF TypeOK, ProcState
<1>6. OneWatcher
  BY <1>1 DEF OneWatcher
<1>7. Registered /\ Owned
  BY <1>1, <1>2, <1>3, <1>4 DEF Registered, Owned, Unstopped, World, Live
<1>8. ToldEarly
  <2>1. NoPid \notin Pids
    BY SentinelAssumption
  <2> QED
    BY <1>1, <1>2, <1>3, <2>1, UnusedType DEF ToldEarly, Live
<1> QED
  BY <1>5, <1>6, <1>7, <1>8 DEF SentinelInv

\* Measuring changes nothing in the life of a sentinel: also the one that
\* samples is the only one, ends with its guard and is reported when lost.
\* (guard/runtime-watch.ts: sidecarMain)
THEOREM SamplingIsSafe ==
    SamplingSpec => [](TypeOK /\ OneWatcher /\ OffIsOff /\ LossIsVisible)
<1>1. SamplingInit => SentinelInv
  BY SentinelInit, GuardOnSafe DEF SamplingInit
<1>2. [SamplingNext]_allVars => [Next]_vars
  BY DEF SamplingNext, LifeStep, SampleStep, Rest, allVars
<1>3. SentinelInv /\ [SamplingNext]_allVars => SentinelInv'
  BY <1>2, SentinelNext
<1>4. SentinelInv => TypeOK /\ OneWatcher /\ OffIsOff /\ LossIsVisible
  BY OffFromInv, LossFromInv DEF SentinelInv
<1> QED
  BY <1>1, <1>3, <1>4, PTL DEF SamplingSpec

===============================================================================
