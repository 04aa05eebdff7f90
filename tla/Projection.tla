----------------------------- MODULE Projection -----------------------------
(***************************************************************************)
(* From what a detector saw to the colour of its row: the registry of      *)
(* alarm codes (domain/kinds.ts), the projection (domain/project.ts) and   *)
(* where the detectors hand their rows over (guard/alarm-emit.ts).         *)
(*                                                                         *)
(* A detector says what it saw and how bad it thinks it is.  The registry  *)
(* has a colour of its own for most codes, and by default that colour is   *)
(* what the user sees; of some codes an official package has another one,  *)
(* and of the codes that depend on the operation the detector decides.     *)
(***************************************************************************)

Modes == {"active", "shadow", "legacy"}

\* KIND_SPECS: the severities, by code.
OfficialInfo   == {"esm-guard-coverage", "scan-fail"}
OfficialYellow == {"baseline-mismatch"}
Reds ==
    {"baseline-mismatch", "snapshot-drift", "attribution-tampered", "canary-leak", "n1-hidden",
     "n3-exfil-match", "n3-key-leak", "n3-ransom", "n3-seq-read-net", "n3-seq-read-spawn",
     "n3-spawn-net-match", "n3-write-then-delete", "vet-self-broken", "n7-block"}
Yellows ==
    {"baseline-refreshed", "baseline-save-fail", "esm-guard-coverage", "official-match-suspected",
     "official-not-in-catalog", "official-verify-mismatch", "scan-fail", "telemetry-config-change",
     "audit-required", "r17-observation", "r18-observation", "r19-observation", "vet-store-tamper",
     "m1-contract-distrusted", "m1-contract-rejected", "n3-exfil", "n3-high-freq-read", "n3-in-place",
     "n3-mass-delete", "n3-mass-rename", "n3-write-amplify", "hook-heartbeat", "loopback-control", "sentinel"}
Infos ==
    {"baseline-patch-ack", "local-entry", "official-catalog-merged", "official-verified", "upgrade-cold",
     "vet-store-foreign-write", "m1-contract-violation", "official-housekeeping-probe"}
FromSite ==
    {"upgrade-diff", "scan-verdict", "fs-destroy", "fs-probe", "fs-read", "fs-write", "honeypot",
     "install-write", "integrity", "net-egress", "persistence-write", "spawn", "fd", "fork", "growth", "mem"}

\* specFor: the rows for official packages come first.
SpecFor(code, official) ==
    IF official /\ code \in OfficialInfo THEN "info"
    ELSE IF official /\ code \in OfficialYellow THEN "yellow"
    ELSE CASE code \in Reds     -> "red"
           [] code \in Yellows  -> "yellow"
           [] code \in Infos    -> "info"
           [] code \in FromSite -> "from-site"
           [] OTHER -> "unregistered"

\* projectAlarm, resolveSeverity: what the detector thinks counts for the codes
\* that leave it to the detector and for those the registry does not have.
Severity(code, official, site) ==
    LET spec == SpecFor(code, official)
    IN  IF spec \in {"from-site", "unregistered"} THEN site ELSE spec

\* emitAlarm: the row that reaches the board.
Emitted(mode, row, official) ==
    IF mode = "active" THEN [row EXCEPT !.severity = Severity(row.kind, official, row.severity)] ELSE row
=============================================================================
