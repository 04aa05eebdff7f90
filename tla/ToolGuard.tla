------------------------------ MODULE ToolGuard ------------------------------
(***************************************************************************)
(* The guard on tools that run code (guards/tool-execute.ts): the payloads *)
(* of a call are scanned one after the other, each behind an await, and    *)
(* the call is handed on or refused with a receipt.  Calls run side by     *)
(* side; the configuration is the one the guard was installed with when    *)
(* the call came.                                                          *)
(***************************************************************************)
EXTENDS PluginGate

CONSTANTS
    Execs,         \* tool calls
    Payload,       \* call -> the codes it carries, by the verdicts they deserve
    Worlds         \* bound: which packages load beside which calls

ASSUME ToolAssumption ==
    /\ IsFiniteSet(Execs)
    /\ Payload \in [Execs -> Seq(Verdicts \ {"odd"})]

VARIABLES
    exec,          \* call -> where it is
    attempts,      \* receipt-oracle.ts: attempts at this boundary so far
    receipt,       \* the last receipt: its result and the call it is about
    ran            \* calls the tool has been run for

toolVars == <<exec, attempts, receipt, ran>>

ToolInit(calls) ==
    /\ exec = [x \in Execs |-> [phase |-> IF x \in calls THEN "none" ELSE "absent"]]
    /\ attempts = 0 /\ ran = {}
    /\ receipt = [result |-> "none", operation |-> 0]

\* codePayloads: a call without code is handed on as it is.
Arrive(x) ==
    /\ ~HostStopped /\ exec[x].phase = "none"
    /\ attempts' = attempts + 1
    /\ IF Payload[x] = <<>>
       THEN /\ ran' = ran \cup {x}
            /\ exec' = [exec EXCEPT ![x] = [phase |-> "done", claim |-> "none"]]
       ELSE /\ exec' = [exec EXCEPT ![x] = [phase |-> "scanning", next |-> 1, worst |-> "clean", failed |-> FALSE,
                                            id |-> attempts + 1, mode |-> config.mode, denyOn |-> config.denyOn]]
            /\ UNCHANGED ran
    /\ UNCHANGED receipt

WorseVerdict(a, b) == IF VerdictRank(b) > VerdictRank(a) THEN b ELSE a

\* A scan is back: it failed, or its verdict counts; one the host does not
\* know counts as a failure.
Scanned(x) ==
    /\ ~HostStopped /\ exec[x].phase = "scanning" /\ exec[x].next <= Len(Payload[x])
    /\ \E v \in {Payload[x][exec[x].next], "odd", "failed"} :
        exec' = [exec EXCEPT ![x].next = @ + 1,
                             ![x].failed = @ \/ v \in {"odd", "failed"},
                             ![x].worst = IF v \in {"odd", "failed"} THEN @ ELSE WorseVerdict(@, v)]
    /\ UNCHANGED <<attempts, receipt, ran>>

Denied(e) == e.mode = "deny" /\ (e.failed \/ ReachesThreshold(e.worst, e.denyOn))

\* noteForwarded, and the tool runs.
Forward(x) ==
    /\ ~HostStopped /\ exec[x].phase = "scanning" /\ exec[x].next > Len(Payload[x])
    /\ ~Denied(exec[x])
    /\ ran' = ran \cup {x}
    /\ exec' = [exec EXCEPT ![x] = [phase |-> "done", claim |-> "none"]]
    /\ UNCHANGED <<attempts, receipt>>

\* Mutant: the operation is numbered when it is refused, not when it came.
BlockNumberedLate(x) ==
    /\ ~HostStopped /\ exec[x].phase = "scanning" /\ exec[x].next > Len(Payload[x])
    /\ Denied(exec[x])
    /\ receipt' = [result |-> "applied", operation |-> attempts]
    /\ exec' = [exec EXCEPT ![x] = [phase |-> "done", claim |-> "blocked", id |-> attempts]]
    /\ UNCHANGED <<attempts, ran>>

\* blockedResult: the receipt decides what the answer may claim.
Block(x) ==
    /\ ~HostStopped /\ exec[x].phase = "scanning" /\ exec[x].next > Len(Payload[x])
    /\ Denied(exec[x])
    /\ LET result == BuildReceipt("deny", TRUE, 0, IF x \in ran THEN 1 ELSE 0, exec[x].id)
       IN  /\ receipt' = [result |-> result, operation |-> exec[x].id]
           /\ exec' = [exec EXCEPT ![x] =
                  [phase |-> "done", claim |-> IF SupportsBlockedClaim(result) THEN "blocked" ELSE "unsure",
                   id |-> exec[x].id]]
    /\ UNCHANGED <<attempts, ran>>

ToolStep ==
    \E x \in Execs : \/ Arrive(x) /\ UNCHANGED gateVars
                     \/ Scanned(x) /\ UNCHANGED gateVars
                     \/ Forward(x) /\ UNCHANGED gateVars
                     \/ /\ Block(x) /\ blocked' = blocked + 1
                        /\ UNCHANGED <<config, code, edits, archive, summary, load, cover, alarms, gateRun>>

\* ---- both guards in one host ----

vars == <<gateVars, toolVars>>

Init == \E w \in Worlds : GateInit(w.loads) /\ ToolInit(w.calls)
Next == (GateNext /\ UNCHANGED toolVars) \/ ToolStep
Spec == Init /\ [][Next]_vars

\* ---- properties ----

TypeOK ==
    /\ GateTypeOK
    /\ \A x \in Execs : exec[x].phase \in {"absent", "none", "scanning", "done"}
    /\ attempts \in 0..Cardinality(Execs) /\ ran \subseteq Execs

(***************************************************************************)
(* The mode a load or a call came under decides about it, also when the    *)
(* settings change while it is scanned: what came in report mode is never  *)
(* refused, and a call that came in deny mode reaches its tool only when   *)
(* each of its payloads stays below the threshold, though scans fail.      *)
(***************************************************************************)
ModeDecides ==
    [][ /\ RefusedWithAuthority
        /\ \A x \in Execs : exec[x].phase = "scanning" /\ exec'[x].phase = "done" =>
              IF x \in ran'
              THEN exec[x].mode = "deny" =>
                   \A n \in DOMAIN Payload[x] : ~ReachesThreshold(Payload[x][n], exec[x].denyOn)
              ELSE exec[x].mode = "deny" ]_vars

(***************************************************************************)
(* "VET BLOCKED" is said only of calls whose tool has not run, each under  *)
(* an operation number of its own although calls overlap, and the receipt  *)
(* on record is that of one of them.                                       *)
(***************************************************************************)
ReceiptsTrue ==
    LET claimed == {x \in Execs : exec[x].phase = "done" /\ exec[x].claim = "blocked"}
    IN  /\ claimed \cap ran = {}
        /\ \A x, y \in claimed : exec[x].id = exec[y].id => x = y
        /\ receipt.result = "applied" => \E x \in claimed : exec[x].id = receipt.operation

=============================================================================
