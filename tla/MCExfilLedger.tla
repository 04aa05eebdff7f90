--------------------------- MODULE MCExfilLedger ---------------------------
(* One plugin with two files, one of them secret, a file in a build        *)
(* directory and two hosts; small windows and thresholds.                  *)
EXTENDS ExfilLedger

Ev(op, on, bytes, secret, noise) ==
    [op |-> op, on |-> on, bytes |-> bytes, secret |-> secret, noise |-> noise]

MCEvents ==
    {Ev("read", "a", 1, TRUE, FALSE), Ev("read", "b", 1, FALSE, FALSE),
     Ev("write", "a", 1, FALSE, FALSE), Ev("encrypt", "b", 0, FALSE, FALSE),
     Ev("delete", "a", 0, FALSE, FALSE), Ev("delete", "n", 0, FALSE, TRUE),
     Ev("spawn", "h", 0, FALSE, FALSE),
     Ev("net", "h", 2, FALSE, FALSE), Ev("net", "g", 0, FALSE, FALSE)}

MCLimit == [k \in Signatures |-> 2]
MCLeast == [k \in Signatures |-> 1]
=============================================================================
