----------------------------- MODULE ScanPromise -----------------------------
(***************************************************************************)
(* What a caller of the scanner is promised, without processes, slots,     *)
(* time-outs or caches: every request is answered once, by a failure or by *)
(* a report, and a report speaks about bytes the package had since the     *)
(* request was made.  Nothing in it is invented, and what it leaves out it *)
(* marks as skipped.  ScannerClient implements this.                       *)
(***************************************************************************)
CONSTANTS
    Calls,               \* scan requests
    Disks,               \* what the files of the package may hold
    Failed,              \* the answer of a scan that failed
    Explains(_, _, _)    \* call, disk, report: the report is true of the disk

VARIABLES
    disk,                \* the files now
    asked,               \* calls made
    since,               \* waiting call -> the disks there were since it was made
    answer               \* answered calls -> answer

promise == <<disk, asked, since, answer>>

PromiseInit ==
    /\ disk \in Disks
    /\ asked = {}
    /\ since = [c \in Calls |-> {}]
    /\ answer = [c \in {} |-> Failed]

\* The package is changed: whoever waits may be told about either state.
Change ==
    /\ disk' \in Disks
    /\ since' = [c \in Calls |-> IF c \in asked \ DOMAIN answer THEN since[c] \cup {disk'} ELSE {}]
    /\ UNCHANGED <<asked, answer>>

Ask(c) ==
    /\ c \notin asked
    /\ asked' = asked \cup {c}
    /\ since' = [since EXCEPT ![c] = {disk}]
    /\ UNCHANGED <<disk, answer>>

\* Each call is answered once, and the answer stays what it is.
Answer(c) ==
    /\ c \in asked \ DOMAIN answer
    /\ DOMAIN answer' = DOMAIN answer \cup {c}
    /\ \A x \in DOMAIN answer : answer'[x] = answer[x]
    /\ answer'[c] = Failed \/ \E d \in since[c] : Explains(c, d, answer'[c])
    /\ since' = [since EXCEPT ![c] = {}]
    /\ UNCHANGED <<disk, asked>>

PromiseNext == Change \/ \E c \in Calls : Ask(c) \/ Answer(c)

PromiseSpec == PromiseInit /\ [][PromiseNext]_promise

=============================================================================
