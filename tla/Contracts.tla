------------------------------ MODULE Contracts ------------------------------
(***************************************************************************)
(* Contracts: what a plugin is declared to do, and how an alarm is held    *)
(* against it; and the manifest of what its code can do.                   *)
(* (guard/contract.ts, guard/capability-diff.ts)                           *)
(*                                                                         *)
(* A path pattern is a record: "lax" stands for the patterns that are      *)
(* refused (a bare *, **, the root, a relative or a home path), "under"    *)
(* for dir/**, "plain" for segments one by one, where "*" is any name.     *)
(* A contract with every list a set; no file and one that is no JSON are   *)
(* told apart by "state"; a host or a command pattern is a name, or "*".   *)
(***************************************************************************)
EXTENDS Naturals, Sequences, FiniteSets

Absent    == [state |-> "none", schema |-> 0, name |-> "", read |-> {}, write |-> {}, destroy |-> {},
              connect |-> {}, ports |-> {}, commands |-> {}]
Garbage   == [Absent EXCEPT !.state = "garbage"]
Contract(r, w, d, hosts, ports, cmds) ==
    [state |-> "json", schema |-> 1, name |-> "p", read |-> r, write |-> w, destroy |-> d,
     connect |-> hosts, ports |-> ports, commands |-> cmds]

Lax       == [form |-> "lax", dir |-> <<>>]
Under(d)  == [form |-> "under", dir |-> d]
Plain(p)  == [form |-> "plain", dir |-> p]

-----------------------------------------------------------------------------
(* Patterns.                                                               *)

\* isValidPathPattern, and the corresponding tests of checkPatterns.
IsValidPattern(pat) == pat.form # "lax"

\* patternMatchPath: a lax pattern matches nothing.
PatternMatchPath(pat, p) ==
    CASE pat.form = "lax"   -> FALSE
      [] pat.form = "under" -> Len(pat.dir) <= Len(p) /\ SubSeq(p, 1, Len(pat.dir)) = pat.dir
      [] pat.form = "plain" -> /\ Len(pat.dir) = Len(p)
                               /\ \A i \in 1..Len(p) : pat.dir[i] \in {"*", p[i]}

\* patternMatchCommand: one word of the command, by its name or its base name.
PatternMatchCommand(pat, words) == pat # "*" /\ pat \in words

\* patternMatchHost.
PatternMatchHost(pat, h) == pat # "*" /\ pat = h

-----------------------------------------------------------------------------
(* Validation and loading.                                                 *)

FsLists(c) == c.read \cup c.write \cup c.destroy

\* checkFs, checkNetwork, checkSpawn.
ScopeAccepted(c) ==
    /\ \A pat \in FsLists(c) : IsValidPattern(pat)
    /\ "*" \notin c.connect /\ "*" \notin c.commands
    /\ \A n \in c.ports : n \in 1..65535

\* validateContract.
ValidateContract(c) ==
    /\ c.state = "json" /\ c.schema = 1 /\ c.name # ""
    /\ ScopeAccepted(c)

\* loadContract: the first of the file names a plugin may have that exists
\* decides, also when it is refused.
LoadContract(candidates, files) ==
    LET there == {i \in DOMAIN candidates : files[candidates[i]].state # "none"}
    IN  IF there = {} THEN [kind |-> "no-contract", contract |-> Absent]
        ELSE LET c == files[candidates[CHOOSE i \in there : \A j \in there : i <= j]]
             IN  [kind |-> IF ValidateContract(c) THEN "loaded" ELSE "rejected", contract |-> c]

-----------------------------------------------------------------------------
(* Holding an alarm against a contract.                                    *)

\* contractFieldOf; no field for an alarm a contract says nothing about.
FieldOf(kind) ==
    CASE kind \in {"fs-read", "fs-probe"} -> "fs-read"
      [] kind \in {"fs-write", "persistence-write", "install-write"} -> "fs-write"
      [] kind \in {"fs-destroy", "integrity"} -> "fs-destroy"
      [] kind = "net-egress" -> "network"
      [] kind = "spawn" -> "spawn"
      [] OTHER -> "none"

\* fsWithinScope, netWithinScope, spawnWithinScope.
WithinScope(field, target, c) ==
    CASE field = "fs-read"    -> \E pat \in c.read : PatternMatchPath(pat, target.path)
      [] field = "fs-write"   -> \E pat \in c.write : PatternMatchPath(pat, target.path)
      [] field = "fs-destroy" -> \E pat \in c.destroy : PatternMatchPath(pat, target.path)
      [] field = "network"    -> /\ \E pat \in c.connect : PatternMatchHost(pat, target.host)
                                 /\ target.port = 0 \/ c.ports = {} \/ target.port \in c.ports
      [] field = "spawn"      -> \E pat \in c.commands : PatternMatchCommand(pat, target.words)

\* checkAlarmInContract: the alarm is of a kind contracts speak about and not
\* within this one.
Violates(kind, target, c) ==
    FieldOf(kind) # "none" /\ ~WithinScope(FieldOf(kind), target, c)

-----------------------------------------------------------------------------
(* What the code of a plugin can do, and what was seen.                    *)

\* diffKindOf.
ObservedKind(kind) ==
    CASE kind = "net-egress" -> "net"
      [] kind = "spawn" -> "spawn"
      [] kind \in {"fs-read", "fs-probe"} -> "fsRead"
      [] kind \in {"fs-write", "fs-destroy"} -> "fsMutate"
      [] OTHER -> "none"

\* covered: a plugin that imports anything may do anything on its behalf.
Declares(can, kind) ==
    \/ "import" \in can
    \/ kind = "net" /\ can \cap {"net", "host"} # {}
    \/ kind = "spawn" /\ can \cap {"exec", "spawn"} # {}
    \/ kind \in {"fsRead", "fsMutate"} /\ "path" \in can
==============================================================================
