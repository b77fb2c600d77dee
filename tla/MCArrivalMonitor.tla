-------------------------- MODULE MCArrivalMonitor --------------------------
(* An instance of ArrivalMonitor for TLC: short trails of samples. *)
EXTENDS ArrivalMonitor

CONSTANT MaxSamples, MaxTime   \* bounds of the search, not of the monitor

Short == Len(trail) <= MaxSamples /\ now <= MaxTime

\* Headings in eighths of a turn, positions in tolerances: two headings within
\* the tolerance, on either side of the goal's, one that looks away, and a
\* position that is too far.
Poses ==
  [xy : {0}, yaw : {1, 4, 7}] \cup [xy : {2}, yaw : {1}]

=============================================================================
