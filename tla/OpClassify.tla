----------------------------- MODULE OpClassify -----------------------------
(***************************************************************************)
(* What the wrappers make of one operation before anybody is blamed for    *)
(* it: which alarm, if any, a call of fs, child_process or a network       *)
(* module is worth, and which alarms the host's own housekeeping explains. *)
(* (guard/runtime-classify.ts, runtime-net.ts, runtime-denoise.ts,         *)
(* runtime-ops.ts, the path sets of confirm-block.ts and the tests of      *)
(* runtime-patch.ts)                                                       *)
(*                                                                         *)
(* A path is the sequence of its segments, absolute and normalised; a      *)
(* segment is the token of the class of names it belongs to.  A command is *)
(* the set of its words.                                                   *)
(***************************************************************************)
EXTENDS Naturals, Sequences, FiniteSets

CONSTANTS
    Lures,      \* honeypotRoots
    Core        \* integrityRoots: the integrity canaries

NoPath == <<>>

\* DEFAULT_HOOK_CONFIG: names that are sensitive wherever they stand, the
\* system roots, and the roots of temporary files.
SensitiveNames == {".dsh", "secret"}
SensitiveRoots == {"etc"}
TempRoots      == {"tmp"}
ShellTokens       == {"sh"}
DestructiveTokens == {"rm", "cp"}
RelDestroyTokens  == {"rm"}
EnvNames       == {".env"}

\* TRANSIENT_TEMP_SUFFIX, ATOMIC_STAGING_SEGMENT_RE, SESSION_LOG_EXTS.
Transients == {"draft", "staging", "journal.tmp"}
Journals   == {"journal", "journal.tmp"}

\* The classes of function names; "rename" stands for those with two paths.
DestroyOps == {"unlink"}
PairOps    == {"rename"}
WriteOps   == {"write"} \cup PairOps
ReadOps    == {"read", "openRead", "openWrite"}
ProbeOps   == {"stat"}

-----------------------------------------------------------------------------
(* Paths.                                                                  *)

BaseName(p) == p[Len(p)]

\* p lies below a directory d somewhere on its way.
Below(p, d) == \E i \in 1..(Len(p) - 1) : p[i] = d

\* p is in ~/.dsh under the directories of ds, one after the other.
InState(p, ds) ==
    \E i \in 1..(Len(p) - Len(ds) - 1) :
        p[i] = ".dsh" /\ \A k \in 1..Len(ds) : p[i + k] = ds[k]

IsLockSiblingPath(p) == BaseName(p) = "lock"
IsTransient(p) == BaseName(p) \in Transients
IsDshWebTempArtifact(p) ==
    (InState(p, <<"web">>) \/ InState(p, <<"profiles", "web">>)) /\ IsTransient(p)
IsDshAtomicStagingPath(p) == InState(p, <<>>) /\ \E i \in 1..Len(p) : p[i] = "staging"
IsDshRuntimeTempPath(p) == InState(p, <<"sessions">>) /\ IsTransient(p)
IsDshLockSiblingProbe(p) == InState(p, <<>>) /\ IsLockSiblingPath(p)
IsSessionLogFile(p) == InState(p, <<"sessions">>) /\ BaseName(p) \in Journals
IsUnderTempRoot(p) == p[1] \in TempRoots
IsIntegrityPath(p) == p \in Core
IsHoneypotPath(p) == \E r \in Lures : Len(r) <= Len(p) /\ SubSeq(p, 1, Len(r)) = r
IsPersistenceWriteTarget(p) == BaseName(p) = ".bashrc" \/ Below(p, "cron.d")
IsInstallWriteTarget(p) == Below(p, "node_modules") \/ BaseName(p) = "cordis.yml"

\* Code below ~/.dsh/.../node_modules is no state of the host.
IsVendored(p) ==
    \E i, j \in 1..(Len(p) - 1) : i < j /\ p[i] = ".dsh" /\ p[j] = "node_modules"

\* The names that count: those before the first node_modules.
Named(p) == {i \in 1..Len(p) : \A j \in 1..i : p[j] # "node_modules"}

\* isSensitivePath.
IsSensitivePath(p, mode) ==
    /\ p # NoPath
    /\ ~IsVendored(p)
    /\ mode = "read" \/ ~IsUnderTempRoot(p)
    /\ \/ \E i \in Named(p) : p[i] \in EnvNames
       \/ \E i \in Named(p) : p[i] \in SensitiveNames /\ ~(i = Len(p) /\ IsTransient(p))
       \/ mode = "mutate" /\ p[1] \in SensitiveRoots

-----------------------------------------------------------------------------
(* Operations and their alarms.                                            *)

\* The arguments the code looks at.  An fs operation has paths; a command its
\* words, those of its argument list, the paths and bare names among them and
\* where it redirects to; a request what its target is taken from.  "lure" and
\* "key": a lure's content or a private key is among the arguments.
Plainly(mod, name, paths) ==
    [mod |-> mod, name |-> name, paths |-> paths, cmd |-> {}, argv |-> {}, redirect |-> NoPath,
     names |-> {}, form |-> "", host |-> "", hostname |-> "", port |-> 0, portText |-> FALSE,
     lure |-> FALSE, key |-> FALSE]
Fs(name, paths) == Plainly("fs", name, paths)
Proc(cmd, argv, paths) == [Plainly("proc", "exec", paths) EXCEPT !.cmd = cmd, !.argv = argv]
Net(form, host, hostname, port) ==
    [Plainly("net", "request", <<>>) EXCEPT
        !.form = form, !.host = host, !.hostname = hostname, !.port = port]

\* What an alarm is about: a path, a command, a host.
About(p)   == [path |-> p, words |-> {}, host |-> "", port |-> 0]
Running(w) == [path |-> NoPath, words |-> w, host |-> "", port |-> 0]
Reaching(h, n) == [path |-> NoPath, words |-> {}, host |-> h, port |-> n]

Alarm(sev, kind, target) == [severity |-> sev, kind |-> kind, target |-> target, sessionLog |-> FALSE]
NoAlarm == Alarm("none", "none", About(NoPath))

\* firstString: only the first path of an operation.
Target(op) == IF op.paths = <<>> THEN NoPath ELSE op.paths[1]
Paths(op)  == {op.paths[i] : i \in DOMAIN op.paths}
Dests(op)  == {op.paths[i] : i \in DOMAIN op.paths \ {1}}

\* candTargets: both paths of a copy or a rename, else the first.
Candidates(op) == IF op.name \in PairOps THEN Paths(op) ELSE {Target(op)}

\* The words of a command line and of its argument list; the shell is looked
\* for in the command line only.
Hits(words, tokens) == words \cap tokens # {}
Destroys(op) == Hits(op.cmd \cup op.argv, DestructiveTokens)
RedirectSensitive(op) == IsSensitivePath(op.redirect, "mutate")
RelativeSensitiveHit(op) ==
    /\ Hits(op.cmd \cup op.argv, RelDestroyTokens)
    /\ \E n \in op.names : IsSensitivePath(<<n>>, "mutate")

ClassifyProcess(op) ==
    IF \/ Hits(op.cmd, ShellTokens)
       \/ /\ Destroys(op) \/ RedirectSensitive(op)
          /\ \/ \E p \in Paths(op) \cup {op.redirect} : IsSensitivePath(p, "mutate")
             \/ RelativeSensitiveHit(op)
    THEN Alarm("yellow", "spawn", Running(op.cmd)) ELSE NoAlarm

\* The kinds of alarm an fs operation meets, in the order they are tried: each
\* with the paths that are hit.
FsHits(op) ==
    LET t == {Target(op)}
        destroy == op.name \in DestroyOps
        write   == op.name \in WriteOps
    IN  << [kind |-> "honeypot", sev |-> IF destroy THEN "red" ELSE "yellow",
            hit |-> {p \in Candidates(op) : IsHoneypotPath(p)}],
           [kind |-> "integrity", sev |-> "red",
            hit |-> {p \in (IF op.name \in PairOps THEN Dests(op) ELSE t) :
                        (destroy \/ write) /\ ~IsLockSiblingPath(p) /\ IsIntegrityPath(p)}],
           [kind |-> "persistence-write", sev |-> "yellow",
            hit |-> {p \in Candidates(op) : write /\ IsPersistenceWriteTarget(p)}],
           [kind |-> "install-write", sev |-> "yellow",
            hit |-> {p \in Candidates(op) : write /\ IsInstallWriteTarget(p)}],
           [kind |-> "fs-destroy", sev |-> "red",
            hit |-> {p \in t : destroy /\ IsSensitivePath(p, "mutate") /\ ~IsLockSiblingPath(p)}],
           [kind |-> "fs-write", sev |-> "yellow",
            hit |-> {p \in Paths(op) : op.name \in PairOps /\ IsSensitivePath(p, "mutate")}],
           [kind |-> "fs-write", sev |-> "yellow",
            hit |-> {p \in t : op.name = "openWrite" /\ IsSensitivePath(p, "mutate")}],
           [kind |-> "fs-write", sev |-> "yellow",
            hit |-> {p \in t : write /\ IsSensitivePath(p, "mutate") /\ ~IsLockSiblingPath(p)}],
           [kind |-> "fs-read", sev |-> "yellow",
            hit |-> {p \in t : op.name \in ReadOps /\ IsSensitivePath(p, "read")}],
           [kind |-> "fs-probe", sev |-> "yellow",
            hit |-> {p \in t : op.name \in ProbeOps /\ IsSensitivePath(p, "read")}] >>

\* The first path of the operation that is hit.
FirstOf(op, hit) == op.paths[CHOOSE i \in DOMAIN op.paths :
                                 op.paths[i] \in hit /\ \A j \in 1..(i - 1) : op.paths[j] \notin hit]

ClassifyFs(op) ==
    LET hits == FsHits(op)
        met  == {i \in DOMAIN hits : hits[i].hit # {}}
    IN  IF op.paths = <<>> \/ met = {} THEN NoAlarm
        ELSE LET h == hits[CHOOSE i \in met : \A j \in met : i <= j]
                 p == FirstOf(op, h.hit)
             IN  [Alarm(h.sev, h.kind, About(p)) EXCEPT
                     !.sessionLog = h.kind = "fs-destroy" /\ IsSessionLogFile(p)]

-----------------------------------------------------------------------------
(* The network.                                                            *)

LoopbackHosts  == {"localhost"}
Allowlist      == {"registry"}
SensitiveHosts == {"paste"}
SensitivePorts == {4444}
UnixSocket == "unix-socket"

\* extractNetworkTarget.  The arguments are a URL, an options object, or a
\* port with a host; an option that is missing is "" or 0.
NoTarget == Reaching("", 0)

FirstGiven(a, b) == IF a # "" THEN a ELSE b

NetTarget(op) ==
    CASE op.form = "url"  -> Reaching(op.hostname, op.port)
      [] op.form = "port" -> Reaching(FirstGiven(op.host, "localhost"), op.port)
      [] op.form = "options" /\ op.port # 0 /\ ~op.portText ->
             Reaching(FirstGiven(FirstGiven(op.host, op.hostname), "localhost"), op.port)
      [] op.form = "options" /\ (op.port = 0 \/ op.portText) /\ FirstGiven(op.hostname, op.host) # "" ->
             Reaching(FirstGiven(op.hostname, op.host), op.port)
      [] op.form = "options" /\ (op.port = 0 \/ op.portText) /\ FirstGiven(op.hostname, op.host) = "" ->
             Reaching(UnixSocket, 0)
      [] OTHER -> NoTarget

\* isTrackedNetHost, without the option that watches loopback.
IsTrackedNetHost(h) == h \notin LoopbackHosts \cup Allowlist \cup {UnixSocket}

ClassifyNet(op) ==
    LET t == NetTarget(op) IN
    IF t = NoTarget \/ ~IsTrackedNetHost(t.host) THEN NoAlarm
    ELSE IF t.port \in SensitivePorts THEN Alarm("red", "net-egress", t)
    ELSE IF t.host \in SensitiveHosts THEN Alarm("yellow", "net-egress", Reaching(t.host, 0))
    ELSE NoAlarm

Classify(op) ==
    CASE op.mod = "fs"   -> ClassifyFs(op)
      [] op.mod = "proc" -> ClassifyProcess(op)
      [] op.mod = "net"  -> ClassifyNet(op)

-----------------------------------------------------------------------------
(* The host's own housekeeping.                                            *)

\* An alarm nobody is blamed for that the host's atomic writes explain.  The
\* test looks at the first path of the operation, whatever path is hit.
HostHousekeeping(op, alarm) ==
    LET p == Target(op) IN
    /\ alarm.kind \notin {"none", "honeypot", "integrity"} /\ p # NoPath
    /\ \/ IsDshWebTempArtifact(p) \/ IsDshAtomicStagingPath(p)
       \/ /\ alarm.kind = "fs-probe"
          /\ IsDshRuntimeTempPath(p) \/ IsDshLockSiblingProbe(p) \/ IsSessionLogFile(p)

\* A probe by a package with an official name that the lock protocol or the
\* rotation of session logs explains.
OfficialHousekeeping(op, alarm) ==
    /\ alarm.kind = "fs-probe"
    /\ IsDshLockSiblingProbe(Target(op)) \/ IsSessionLogFile(Target(op))
=============================================================================
