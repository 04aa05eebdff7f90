------------------------------ MODULE MCSentinel ------------------------------
(* Two worlds.  In one the sentinels of two copies of the module come and go *)
(* as they like and nothing is measured; in the other a sentinel measures,   *)
(* and one thing happens to it.  Copies and pids are model values; no        *)
(* symmetry is declared, the configuration checks liveness.                  *)
EXTENDS Sampling

\* Memory at rest, high with children nobody can count, and higher with a burst
\* of children and descriptors.
MCReadings == {[rss |-> 1, children |-> 0, fds |-> 0], [rss |-> 4, children |-> -1, fds |-> -1],
               [rss |-> 6, children |-> 3, fds |-> 9]}

MCWorlds == {[moves |-> -1, ticks |-> 0], [moves |-> 1, ticks |-> 5]}
=============================================================================
