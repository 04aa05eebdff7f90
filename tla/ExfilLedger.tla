----------------------------- MODULE ExfilLedger -----------------------------
(***************************************************************************)
(* The ledger vet keeps of what a plugin reads, writes, deletes, spawns    *)
(* and sends, and the alarms derived from it. (guard/exfil-ledger.ts)      *)
(*                                                                         *)
(* Plugins do not influence one another but for the sweep of idle rows, so *)
(* the module follows one of them.  An array of the code is a set of       *)
(* entries numbered in the order of arrival; the clock does not go back,   *)
(* so dropping old entries from the front drops all old entries.  The log  *)
(* is a history variable: what the plugin did since the process started.   *)
(***************************************************************************)
EXTENDS Naturals, Sequences, FiniteSets, FiniteSetsExt

CONSTANTS
    NoRow,        \* the ledger has no row of the plugin
    Events,       \* what the plugin may do
    Small,        \* bytes of a small file
    Window, SeqWindow, Assoc, SpawnWindow, Ttl,
    Cap,          \* WINDOW_CAP
    Limit,        \* [Signatures -> threshold]
    Least,        \* [Signatures -> smallest threshold of a suspect]
    Factor,       \* suspectedFactor
    MinBytes,     \* exfilMinBytes
    MaxEvents,    \* bounds of the model: events of a process,
    MaxTime       \*   and its time

\* The counters a threshold belongs to.
Signatures == {"deletes", "renames", "inPlace", "bytes", "small", "writeDeletes"}

\* Reads with and without data; writes of content, copies, renames and renames
\* that look like encryption; deletions; a network tool started; data sent; and
\* anything else that is observed.  `on` is the path, or the host; noise is a
\* path in a build directory, a lock or a temporary file.
ReadOps  == {"read", "open"}
WriteOps == {"write", "copy", "rename", "encrypt"}
FsOps    == ReadOps \cup WriteOps \cup {"delete", "other"}
AllOps   == FsOps \cup {"spawn", "net"}

Event == [op : AllOps, on : STRING, bytes : Nat, secret : BOOLEAN, noise : BOOLEAN]

ASSUME LedgerAssumption ==
    /\ Events \subseteq Event
    /\ {Window, SeqWindow, Assoc, SpawnWindow, Ttl, Small, Cap, MinBytes, MaxEvents, MaxTime} \subseteq Nat
    /\ Factor \in Nat \ {0} /\ Cap > 0 /\ MaxTime > 0
    /\ Limit \in [Signatures -> Nat] /\ Least \in [Signatures -> Nat]
    /\ \A k \in Signatures \ {"bytes"} : Limit[k] <= Cap /\ Least[k] <= Cap
    /\ SeqWindow < Assoc
    /\ \A w \in {Window, SeqWindow, Assoc, SpawnWindow} : w < Ttl

VARIABLES
    now,     \* Date.now()
    row,     \* the plugin's row, or NoRow
    raised,  \* the kinds of the alarms the last step gave
    log      \* history: the events of the process, with their times

vars == <<now, row, raised, log>>

Entry == [id : Nat, at : Nat, on : STRING, bytes : Nat]

Row ==
    [secretBytes : Nat, netBytes : Nat,           \* of the whole life of the row
     lastSecret : Nat, lastSpawn : Nat, lastNet : Nat,   \* times, 0 = never
     deletes : SUBSET Entry, renames : SUBSET Entry, writes : SUBSET Entry,
     inPlace : SUBSET Entry, small : SUBSET Entry, writeDeletes : SUBSET Entry,
     spawns : SUBSET Entry, nets : SUBSET Entry,
     reads : SUBSET Entry,                        \* readTimes: the last per path
     suspected : BOOLEAN, lastSeen : Nat]

ASSUME NoRowAssumption == NoRow \notin Row

NewRow ==
    [secretBytes |-> 0, netBytes |-> 0, lastSecret |-> 0, lastSpawn |-> 0, lastNet |-> 0,
     deletes |-> {}, renames |-> {}, writes |-> {}, inPlace |-> {}, small |-> {},
     writeDeletes |-> {}, spawns |-> {}, nets |-> {}, reads |-> {},
     suspected |-> FALSE, lastSeen |-> now]

-----------------------------------------------------------------------------
(* Windows.                                                                *)

\* Not older than w (trimWindow).
Recent(S, w) == {e \in S : e.at + w >= now}

\* Mutated: an array that is full takes no more.
PushUntilFull(S, e) == IF Cardinality(S) < Cap THEN S \cup {e} ELSE S

\* pushCap: the oldest go when there are too many.
Push(S, e) ==
    LET all == S \cup {e}
    IN  {x \in all : Cardinality({y \in all : y.id > x.id}) < Cap}

On(S, f) == {e \in S : e.on = f}

BytesOf(S) == MapThenSumSet(LAMBDA e : e.bytes, S)

-----------------------------------------------------------------------------
(* What an event does to the row; n numbers the event.                     *)

AsEntry(e, n) == [id |-> n, at |-> now, on |-> e.on, bytes |-> e.bytes]

\* Sensitive data read; a network tool started, with or without a URL.
Tokens(r, e, n) ==
    LET data == e.op = "read" /\ e.secret /\ e.bytes > 0
        tool == e.op = "spawn"
    IN  [r EXCEPT
           !.secretBytes = IF data THEN @ + e.bytes ELSE @,
           !.lastSecret  = IF data THEN now ELSE @,
           !.lastSpawn   = IF tool THEN now ELSE @,
           !.spawns      = IF tool /\ e.on # "" THEN Recent(Push(@, AsEntry(e, n)), SpawnWindow) ELSE @]

\* A path read within the window is written, and that was not counted yet.
Overwrites(r, e) ==
    /\ On(Recent(r.reads, Window), e.on) # {}
    /\ On(Recent(r.inPlace, Window), e.on) = {}

Deletion(r, e, n) ==
    [r EXCEPT
       !.deletes = Recent(Push(@, AsEntry(e, n)), Window),
       !.writeDeletes = IF On(Recent(r.writes, Window), e.on) # {}
                        THEN Recent(Push(@, AsEntry(e, n)), Window) ELSE @]

Writing(r, e, n) ==
    [r EXCEPT
       !.writes  = IF e.op = "write" /\ e.bytes > 0
                   THEN Recent(Push(@, AsEntry(e, n)), Window) ELSE @,
       !.inPlace = IF Overwrites(r, e) THEN Push(@, AsEntry(e, n)) ELSE @,
       !.renames = IF e.op = "encrypt" THEN Recent(Push(@, AsEntry(e, n)), Window) ELSE @]

\* readTimes keeps the last read of a path; when it has grown, reads before the
\* window may be dropped (kept is what remains).
Reading(r, e, n, kept) ==
    LET new == e.bytes > 0 /\ e.bytes < Small /\ On(Recent(r.small, Window), e.on) = {}
    IN  [r EXCEPT
           !.reads = (kept \ On(kept, e.on)) \cup {AsEntry(e, n)},
           !.small = IF new THEN Recent(Push(@, AsEntry(e, n)), Window) ELSE @]

Noted(r, e, n, kept) ==
    IF e.noise THEN r
    ELSE CASE e.op = "delete"    -> Deletion(r, e, n)
           [] e.op \in WriteOps  -> Writing(r, e, n)
           [] e.op \in ReadOps   -> Reading(r, e, n, kept)
           [] OTHER              -> r

Sent(r, e, n) ==
    [r EXCEPT
       !.netBytes = @ + e.bytes, !.lastNet = now,
       !.nets   = Recent(IF e.on # "" THEN Push(@, AsEntry(e, n)) ELSE @, SpawnWindow),
       !.spawns = Recent(@, SpawnWindow)]

\* Mutated: the windows of deletions and renames are swept by their own events
\* only.
SweptInPart(r) ==
    [r EXCEPT !.inPlace = Recent(@, Window),
              !.small = Recent(@, Window), !.writeDeletes = Recent(@, Window)]

\* The windows are swept before they are counted.
Swept(r) ==
    [r EXCEPT !.deletes = Recent(@, Window), !.renames = Recent(@, Window),
              !.writes = Recent(@, Window), !.inPlace = Recent(@, Window),
              !.small = Recent(@, Window), !.writeDeletes = Recent(@, Window)]

-----------------------------------------------------------------------------
(* The alarms of a row.                                                    *)

Threshold(suspected, k) ==
    IF suspected
    THEN IF Limit[k] \div Factor > Least[k] THEN Limit[k] \div Factor ELSE Least[k]
    ELSE Limit[k]

\* Mutated: the order of the two is not looked at.
FollowsAnyway(first, then, w) == first # 0 /\ then # 0 /\ then <= first + w

\* Something happened at `then`, at most w after `first`.
Follows(first, then, w) == first # 0 /\ then # 0 /\ first <= then /\ then - first <= w

\* As much was sent as was read, roughly: from 0.4 to 3 times.
Matches(r) ==
    /\ r.secretBytes >= MinBytes /\ r.netBytes >= MinBytes
    /\ Follows(r.lastSecret, r.lastNet, Assoc)
    /\ 5 * r.netBytes >= 2 * r.secretBytes /\ r.netBytes <= 3 * r.secretBytes

ExfilChecks(r) ==
    LET red == (IF Follows(r.lastSecret, r.lastSpawn, SeqWindow) THEN {"n3-seq-read-spawn"} ELSE {})
               \cup (IF Follows(r.lastSecret, r.lastNet, SeqWindow) THEN {"n3-seq-read-net"} ELSE {})
               \cup (IF Matches(r) THEN {"n3-exfil-match"} ELSE {})
        soft == /\ r.secretBytes > 0 /\ r.netBytes > 0
                /\ Follows(r.lastSecret, r.lastNet, Assoc)
                /\ ~Follows(r.lastSecret, r.lastNet, SeqWindow)
    IN  IF red = {} /\ soft THEN {"n3-exfil"} ELSE red

\* The counter of a destruction signature, and the alarm it gives.
Count(r, k) == IF k = "bytes" THEN BytesOf(r.writes) ELSE Cardinality(r[k])

Kind == [deletes |-> "n3-mass-delete", renames |-> "n3-mass-rename", inPlace |-> "n3-in-place",
         bytes |-> "n3-write-amplify", small |-> "n3-high-freq-read",
         writeDeletes |-> "n3-write-then-delete"]

Destruction == {"deletes", "renames", "inPlace", "bytes"}

\* A red alarm of this check swallows its yellow ones.
DestroyChecks(r) ==
    LET met == {k \in Signatures : Count(r, k) >= Threshold(r.suspected, k)}
        red == (IF Cardinality(met \cap Destruction) >= 2 THEN {"n3-ransom"} ELSE {})
               \cup {Kind[k] : k \in met \cap {"writeDeletes"}}
    IN  IF red = {} THEN {Kind[k] : k \in met} ELSE red

SpawnNetChecks(r) ==
    IF \E s \in r.spawns, d \in r.nets : s.on = d.on /\ Follows(s.at, d.at, SpawnWindow)
    THEN {"n3-spawn-net-match"} ELSE {}

-----------------------------------------------------------------------------
(* The operations.                                                         *)

\* Mutated: the row is swept after the time of the shortest window.
IdleSoon == row # NoRow /\ row.lastSeen + Window < now

\* prune: a row that was idle goes when anyone is observed.
Idle == row # NoRow /\ row.lastSeen + Ttl < now

\* The row an event meets.
Current == IF row = NoRow \/ Idle THEN NewRow ELSE row

\* observeFs and observeNet; the sweep of the other plugins' idle rows is theirs.
Observe(e) ==
    /\ Len(log) < MaxEvents
    /\ LET n == Len(log) + 1
           r == [Current EXCEPT !.lastSeen = now]
       IN  IF e.op = "net"
           THEN /\ row' = Sent(r, e, n)
                /\ raised' = ExfilChecks(row') \cup SpawnNetChecks(row')
           ELSE \E kept \in {r.reads, Recent(r.reads, Window)} :
                /\ row' = Swept(Noted(Tokens(r, e, n), e, n, kept))
                /\ raised' = ExfilChecks(row') \cup DestroyChecks(row')
    /\ log' = Append(log, [ev |-> e, at |-> now])
    /\ UNCHANGED now

\* markSuspected: a lure or a canary confirmed the plugin.
MarkSuspected ==
    /\ row' = [(IF row = NoRow THEN NewRow ELSE row) EXCEPT !.suspected = TRUE]
    /\ raised' = {}
    /\ UNCHANGED <<now, log>>

\* Another plugin is observed.
Sweep ==
    /\ Idle
    /\ row' = NoRow /\ raised' = {}
    /\ UNCHANGED <<now, log>>

Tick ==
    /\ row # NoRow /\ now < MaxTime
    /\ now' = now + 1 /\ raised' = {}
    /\ UNCHANGED <<row, log>>

\* The ledger lives in memory; time is counted from the start of the process.
Restart == now' = 1 /\ row' = NoRow /\ raised' = {} /\ log' = <<>>

Init == now = 1 /\ row = NoRow /\ raised = {} /\ log = <<>>

Next ==
    \/ \E e \in Events : Observe(e)
    \/ MarkSuspected \/ Sweep \/ Tick \/ Restart

Spec == Init /\ [][Next]_vars

-----------------------------------------------------------------------------
(* Properties, stated over the log.                                        *)

Counted == {"deletes", "renames", "writes", "inPlace", "small", "writeDeletes", "spawns", "nets"}

\* Type invariant; no array of a row outgrows the cap (pushCap).
TypeOK ==
    /\ now \in 1..MaxTime
    /\ row = NoRow \/ (row \in Row /\ \A k \in Counted : Cardinality(row[k]) <= Cap)
    /\ raised \subseteq {Kind[k] : k \in Signatures}
                 \cup {"n3-ransom", "n3-exfil", "n3-exfil-match", "n3-seq-read-spawn",
                       "n3-seq-read-net", "n3-spawn-net-match"}
    /\ log \in Seq([ev : Events, at : 1..now])

\* The events of the log with one of these operations, outside the noise.
Logged(ops) == {i \in DOMAIN log : log[i].ev.op \in ops /\ ~log[i].ev.noise}

\* Those of them in the destruction window.
Lately(ops) == {i \in Logged(ops) : log[i].at + Window >= now}

\* Events i of `first` that event j on the same path or host follows, at most
\* w later.
Before(j, first, w) ==
    {i \in first : i < j /\ log[i].ev.on = log[j].ev.on /\ log[i].at + w >= log[j].at}

Paths(I) == {log[i].ev.on : i \in I}

LoggedBytes(I) == MapThenSumSet(LAMBDA i : log[i].ev.bytes, I)

\* What the plugin really did in the window, for each signature.
Evidence ==
    [deletes      |-> Cardinality(Lately({"delete"})),
     renames      |-> Cardinality(Lately({"encrypt"})),
     inPlace      |-> Cardinality(Paths({j \in Lately(WriteOps) :
                                            Before(j, Logged(ReadOps), Window) # {}})),
     bytes        |-> LoggedBytes(Lately({"write"})),
     small        |-> Cardinality(Paths({j \in Lately(ReadOps) : log[j].ev.bytes \in 1..(Small - 1)})),
     writeDeletes |-> Cardinality({j \in Lately({"delete"}) :
                                      Before(j, Logged({"write"}), Window) # {}})]

Shown == {k \in Signatures : Evidence[k] >= Threshold(row.suspected, k)}

\* A destruction alarm is backed by what the plugin did in the window before
\* it: old counts do not give it again, one path is not counted twice as an
\* overwriting or a small read, and ransom needs two signatures.
DestructionIsReal ==
    /\ \A k \in Signatures : Kind[k] \in raised => k \in Shown
    /\ "n3-ransom" \in raised => Cardinality(Shown \cap Destruction) >= 2

SecretReads == {i \in DOMAIN log : log[i].ev.op = "read" /\ log[i].ev.secret /\ log[i].ev.bytes > 0}
Started == {i \in DOMAIN log : log[i].ev.op = "spawn"}
Sends   == {i \in DOMAIN log : log[i].ev.op = "net"}

\* Something of `then` came at most w after something of `first`.
Sequence(first, then, w) ==
    \E i \in first, j \in then : log[i].at <= log[j].at /\ log[j].at <= log[i].at + w

\* An exfiltration alarm is backed by a read of secrets and a send, or the
\* start of a tool, in this order and within its window; the match of hosts by
\* the start of a tool and a send to its host that came no earlier.
SequenceIsReal ==
    /\ "n3-seq-read-spawn" \in raised => Sequence(SecretReads, Started, SeqWindow)
    /\ "n3-seq-read-net" \in raised => Sequence(SecretReads, Sends, SeqWindow)
    /\ raised \cap {"n3-exfil", "n3-exfil-match"} # {} => Sequence(SecretReads, Sends, Assoc)
    /\ "n3-spawn-net-match" \in raised =>
         \E i \in Started, j \in Sends :
             /\ log[i].ev.on = log[j].ev.on
             /\ log[i].at <= log[j].at /\ now <= log[i].at + SpawnWindow

\* The latest Cap of some events: what an array can hold.
Held(I) == {i \in I : Cardinality({j \in I : j > i}) < Cap}

Red == {"n3-ransom", "n3-write-then-delete"}

\* What the ledger owes for the event it just took, when deletions, encrypting
\* renames or written bytes are enough: their alarm, or a red one that stands for
\* it; two of the three raise ransom.
DestructionSeen ==
    LET sum   == LoggedBytes(Held(Logged({"write"})) \cap Lately({"write"}))
        shown == {k \in {"deletes", "renames"} : Evidence[k] >= Threshold(row.suspected, k)}
                 \cup {k \in {"bytes"} : sum >= Threshold(row.suspected, k)}
    IN  /\ \A k \in shown : Kind[k] \in raised \/ raised \cap Red # {}
        /\ Cardinality(shown) >= 2 => "n3-ransom" \in raised

\* A send or the start of a tool soon after secrets were read: the sequence at
\* once, later on a send that of the wider window; a send to the host of a tool
\* started just before: the match.
SequenceSeen ==
    LET last    == log[Len(log)]
        read(w) == \E i \in SecretReads : log[i].at + w >= now
        tools   == {i \in Held({k \in Started : log[k].ev.on # ""}) : log[i].at + SpawnWindow >= now}
        exfil   == {"n3-exfil", "n3-exfil-match", "n3-seq-read-net", "n3-seq-read-spawn"}
    IN  /\ last.ev.op = "spawn" /\ read(SeqWindow) => "n3-seq-read-spawn" \in raised
        /\ last.ev.op = "net" /\ read(SeqWindow) => "n3-seq-read-net" \in raised
        /\ last.ev.op = "net" /\ last.ev.bytes > 0 /\ read(Assoc) => raised \cap exfil # {}
        /\ last.ev.op = "net" /\ last.ev.on \in Paths(tools) => "n3-spawn-net-match" \in raised

\* Neither destruction (at a file event) nor a sequence of read, tool and send is
\* missed: not for the cap, the sweeps, a row that was idle or an alarm before.
AttacksSeen ==
    [][ Len(log') > Len(log) =>
          /\ log'[Len(log')].ev.op # "net" => DestructionSeen'
          /\ SequenceSeen' ]_vars

=============================================================================
