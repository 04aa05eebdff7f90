-------------------------------- MODULE OpSink --------------------------------
(***************************************************************************)
(* From an operation to the rows the user reads: the wrapper classifies    *)
(* it, names who did it, drops the host's own housekeeping, refuses it or  *)
(* reports it, and the sink sets the report against the plugin's contract  *)
(* and the manifest of its code.                                           *)
(* (guard/runtime-patch.ts, guard/runtime-sink.ts, the decisions of        *)
(* guard/confirm-block.ts)                                                 *)
(*                                                                         *)
(* Modules OpClassify, Contracts and Projection (which colours the rows on *)
(* their way to the board) hold the pure part.  Between calls the          *)
(* user edits contracts, scans file manifests, packages are verified and a *)
(* plugin replaces the stack hooks; a call is one action, as one thread    *)
(* runs it.  The layers of several copies are module RuntimeHooks; what    *)
(* the ledger adds is module ExfilLedger.                                  *)
(***************************************************************************)
EXTENDS OpClassify, Contracts, Projection

CONSTANTS
    Plugins,
    Nobody,         \* no attribution
    OfficialNames,  \* isOfficial: names of the official scope
    Files,          \* names of contract files
    FilesOf,        \* [Plugins -> the names its contract may have, in order]
    Drafts,         \* contracts the user may write
    Manifests,      \* what a scan may find the code to be able to do
    Credentials,    \* credential bodies that exist
    Operations,     \* calls that may come
    Mode,           \* confirmBlock: "alarm", "block", "strict"
    OutputMode,     \* domainProjection: "active" unless the user turns back
    MaxSteps        \* bounds the model

ASSUME SinkAssumption ==
    /\ Nobody \notin Plugins /\ OfficialNames \subseteq Plugins
    /\ FilesOf \in [Plugins -> Seq(Files)]
    /\ \A op \in Operations : op.mod \in {"fs", "proc", "net"}
    /\ Mode \in {"alarm", "block", "strict"} /\ OutputMode \in Modes /\ MaxSteps \in Nat

VARIABLES
    contracts,      \* [Files -> contract]
    manifest,       \* [Plugins -> <<>> or <<what it can do>>]: staticByPlugin
    trusted,        \* officialTrusted
    tampered,       \* isStackTraceTampered
    marked,         \* f1Blocked
    rejectedNoted, distrustedNoted,
    last,           \* history: the harm of a plugin's last call, and what was told
    owed, told,     \* history: plugins found hidden while a contract was loaded,
                    \* and those whose contract was called distrusted
    steps

notes == <<rejectedNoted, distrustedNoted>>
world == <<contracts, manifest, trusted, tampered>>
past  == <<owed, told>>
sinkVars  == <<world, marked, notes, last, past, steps>>

Row(kind, sev, by) == [kind |-> kind, severity |-> sev, by |-> by]

NoCall == [harm |-> "none", told |-> {}]

\* What is classified does not depend on the state.
AlarmOf == [op \in Operations |-> Classify(op)]

\* What a plugin has no business with: the state of the host and secrets, but
\* not code below node_modules and not lock files.
Precious(p) ==
    /\ p[1] # "tmp" /\ ~IsVendored(p) /\ BaseName(p) # "lock"
    /\ \E i \in Named(p) : p[i] = "secret" \/ (p[i] = ".dsh" /\ i < Len(p))

\* The harm of an operation, whoever does it and whatever is made of it: it
\* deletes something precious, or writes, moves or lets a command remove it.
Harm(op) ==
    CASE op.mod = "fs" /\ op.name \in DestroyOps /\ Precious(Target(op)) -> "deletes"
      [] op.mod = "fs" /\ op.name \in PairOps /\ \E p \in Paths(op) : Precious(p) -> "writes"
      [] op.mod = "fs" /\ op.name \in {"write", "openWrite"} /\ Precious(Target(op)) -> "writes"
      [] op.mod = "proc" /\ "rm" \in op.cmd \cup op.argv /\ \E p \in Paths(op) : Precious(p) -> "writes"
      [] OTHER -> "none"

HarmOf == [op \in Operations |-> Harm(op)]

-----------------------------------------------------------------------------
(* The wrapper.                                                            *)

\* pluginFromStack; nobody while the stack hooks are replaced.
Hint(p) == IF tampered THEN Nobody ELSE p
ThirdParty(h) == h # Nobody /\ h \notin trusted

\* BLOCK_FS_OPS and the opens that write.
Blockable == DestroyOps \cup WriteOps \cup {"openWrite"}
BlockRelevant(op) == op.mod = "fs" /\ op.name \in Blockable \cup {"openRead"} /\ Mode # "alarm"

\* decideBlock: a credential body that is deleted, moved or overwritten, a
\* plugin that was found destructive, and with strict families start-up files
\* and installed code.
Refused(op, h, alarm) ==
    /\ BlockRelevant(op) /\ (tampered \/ ThirdParty(h))
    /\ \/ op.name \in DestroyOps \cup PairOps /\ Paths(op) \cap Credentials # {}
       \/ op.name \in {"write", "openWrite"} /\ Target(op) \in Credentials
       \/ h \in marked /\ op.name \in Blockable
       \/ Mode = "strict" /\ alarm.kind \in {"persistence-write", "install-write"}

\* Mutated: what explains the host's operations explains those of a plugin.
ExplainedForAll(op, h, alarm) == op.mod = "fs" /\ ~tampered /\ HostHousekeeping(op, alarm)

\* Housekeeping is the host's when nobody is blamed and the stack is honest.
Explained(op, h, alarm) ==
    op.mod = "fs" /\ h = Nobody /\ ~tampered /\ HostHousekeeping(op, alarm)

Demoted(op, h, alarm) ==
    op.mod = "fs" /\ h \in OfficialNames /\ ~tampered /\ OfficialHousekeeping(op, alarm)

\* An alarm, or a call that might be refused, under replaced stack hooks.
TamperRows(op, alarm) ==
    IF tampered /\ (alarm # NoAlarm \/ BlockRelevant(op))
    THEN {Row("attribution-tampered", "red", Nobody)} ELSE {}

-----------------------------------------------------------------------------
(* The sink.                                                               *)

\* Start-up files and installed code are the host's and the user's business,
\* and so are session logs that go.
Silenced(alarm, h) ==
    \/ h \in trusted
    \/ h = Nobody /\ alarm.kind \in {"persistence-write", "install-write"}
    \/ h = Nobody /\ alarm.sessionLog

\* m1Contract: loaded anew for each alarm.
ContractOf(h) == LoadContract(FilesOf[h], contracts)

ContractRows(alarm, h) ==
    LET r == ContractOf(h) IN
    CASE r.kind = "rejected" /\ h \notin rejectedNoted -> {Row("m1-contract-rejected", "yellow", h)}
      [] r.kind = "loaded" /\ Violates(alarm.kind, alarm.target, r.contract) ->
             {Row("m1-contract-violation", "info", h)}
      [] OTHER -> {}

\* observeAndCheck: only what a scan has a manifest of.
Hidden(alarm, h) ==
    LET kind == ObservedKind(alarm.kind) IN
    kind # "none" /\ manifest[h] # <<>> /\ ~Declares(manifest[h][1], kind)

\* Mutated: the plugin is taken for told before its contract was looked for.
DistrustEarly(hidden, h) ==
    IF hidden THEN [rows |-> IF h \notin distrustedNoted /\ ContractOf(h).kind = "loaded"
                             THEN {Row("m1-contract-distrusted", "yellow", h)} ELSE {},
                    noted |-> {h}]
    ELSE [rows |-> {}, noted |-> {}]

\* A plugin that does what its code does not show: its contract is not worth
\* much either, which is said once.
Distrust(hidden, h) ==
    IF hidden /\ h \notin distrustedNoted /\ ContractOf(h).kind = "loaded"
    THEN [rows |-> {Row("m1-contract-distrusted", "yellow", h)}, noted |-> {h}]
    ELSE [rows |-> {}, noted |-> {}]

\* What the sink makes of one alarm: the rows, and what it remembers.
Quiet == [rows |-> {}, rejected |-> {}, distrusted |-> {}, marks |-> {}, owed |-> {}]

Sink(alarm, h, demoted) ==
    IF alarm = NoAlarm \/ Silenced(alarm, h) THEN Quiet
    ELSE IF demoted
    THEN [Quiet EXCEPT !.rows = {Row("official-housekeeping-probe", "info", h)}]
    ELSE IF h = Nobody
    THEN [Quiet EXCEPT !.rows = {Row(alarm.kind, alarm.severity, h)}]
    ELSE LET hidden == Hidden(alarm, h)
             d == Distrust(hidden, h)
         IN  [rows       |-> {Row(alarm.kind, alarm.severity, h)} \cup ContractRows(alarm, h)
                             \cup (IF hidden THEN {Row("n1-hidden", "red", h)} ELSE {}) \cup d.rows,
              rejected   |-> IF ContractOf(h).kind = "rejected" THEN {h} ELSE {},
              distrusted |-> d.noted,
              marks      |-> IF alarm.kind = "integrity" THEN {h} ELSE {},
              owed       |-> IF hidden /\ ContractOf(h).kind = "loaded" THEN {h} ELSE {}]

-----------------------------------------------------------------------------
(* Leaks.                                                                  *)

\* recordCanary, recordKeyLeak: a lure's content or a key in a command or on
\* its way out.  A key nobody is blamed for is not told.
LeakRows(op, h) ==
    IF h \in trusted THEN {}
    ELSE (IF op.lure THEN {Row("canary-leak", "red", h)} ELSE {})
         \cup (IF op.key /\ op.mod = "net" /\ h # Nobody THEN {Row("n3-key-leak", "red", h)} ELSE {})

Leaker(op, h) == IF op.lure /\ ThirdParty(h) THEN {h} ELSE {}

-----------------------------------------------------------------------------
(* Actions.                                                                *)

Step == steps < MaxSteps /\ steps' = steps + 1

\* p, or nobody, calls a patched function.
Call(op, p) ==
    LET h       == Hint(p)
        alarm   == AlarmOf[op]
        refused == Refused(op, h, alarm)
        s       == IF refused THEN [Quiet EXCEPT !.rows = {Row("n7-block", "red", h)}]
                   ELSE IF Explained(op, h, alarm) THEN Quiet
                   ELSE Sink(alarm, h, Demoted(op, h, alarm))
        found   == TamperRows(op, alarm) \cup s.rows \cup (IF refused THEN {} ELSE LeakRows(op, h))
        rows    == {Emitted(OutputMode, row, FALSE) : row \in found}
    IN  /\ Step
        /\ last' = IF p = Nobody \/ p \in trusted THEN NoCall
                   ELSE [harm |-> HarmOf[op], told |-> {r.severity : r \in rows}]
        /\ marked' = marked \cup s.marks \cup (IF refused THEN {} ELSE Leaker(op, h))
        /\ rejectedNoted' = rejectedNoted \cup s.rejected
        /\ distrustedNoted' = distrustedNoted \cup s.distrusted
        /\ owed' = owed \cup s.owed
        /\ told' = told \cup {r.by : r \in {x \in s.rows : x.kind = "m1-contract-distrusted"}}
        /\ UNCHANGED world

\* The user writes, breaks or removes a contract.
EditContract(f, c) ==
    /\ Step /\ contracts[f] # c
    /\ contracts' = [contracts EXCEPT ![f] = c]
    /\ last' = NoCall
    /\ UNCHANGED <<manifest, trusted, tampered, marked, notes, past>>

\* registerStatic: a scan of p's code ends.
ScanFiles(p, m) ==
    /\ Step /\ manifest[p] # m
    /\ manifest' = [manifest EXCEPT ![p] = m]
    /\ last' = NoCall
    /\ UNCHANGED <<contracts, trusted, tampered, marked, notes, past>>

\* markOfficialTrusted (module OfficialTrust).
Verify(p) ==
    /\ Step /\ p \in OfficialNames \ trusted
    /\ trusted' = trusted \cup {p}
    /\ last' = NoCall
    /\ UNCHANGED <<contracts, manifest, tampered, marked, notes, past>>

\* A plugin replaces Error.prepareStackTrace, or puts it back.
Tamper ==
    /\ Step /\ tampered' = ~tampered
    /\ last' = NoCall
    /\ UNCHANGED <<contracts, manifest, trusted, marked, notes, past>>

SinkInit ==
    /\ contracts = [f \in Files |-> Absent] /\ manifest = [p \in Plugins |-> <<>>]
    /\ trusted = {} /\ tampered = FALSE
    /\ marked = {} /\ rejectedNoted = {} /\ distrustedNoted = {}
    /\ last = NoCall /\ owed = {} /\ told = {} /\ steps = 0

SinkNext ==
    \/ \E op \in Operations, p \in Plugins \cup {Nobody} : Call(op, p)
    \/ \E f \in Files, c \in Drafts : EditContract(f, c)
    \/ \E p \in Plugins, m \in Manifests : ScanFiles(p, m)
    \/ \E p \in Plugins : Verify(p)
    \/ Tamper

SinkSpec == SinkInit /\ [][SinkNext]_sinkVars

-----------------------------------------------------------------------------
(* Properties                                                              *)

\* Type invariant.
SinkTypeOK ==
    /\ trusted \subseteq OfficialNames /\ marked \subseteq Plugins
    /\ rejectedNoted \subseteq Plugins /\ distrustedNoted \subseteq Plugins
    /\ owed \subseteq Plugins /\ told \subseteq Plugins
    /\ steps \in 0..MaxSteps

\* Nothing explains away what an unverified plugin does to the state of the
\* host (the exemptions of runtime-patch.ts and runtime-sink.ts are for the
\* host): whatever the file looks like, whatever a contract says, whatever the
\* plugin's name, and also when it hides that name, a row that counts follows,
\* and a red one when something is deleted.
PluginNotHidden ==
    /\ last.harm = "deletes" => "red" \in last.told
    /\ last.harm = "writes" => last.told \cap {"red", "yellow"} # {}

\* A plugin caught doing what its code does not show, while it has a contract
\* that was accepted, has had that contract called distrusted: also when the
\* contract came after the first such finding, was broken and mended, or
\* belongs to two plugins at once.
DistrustTold == owed \subseteq told
===============================================================================
