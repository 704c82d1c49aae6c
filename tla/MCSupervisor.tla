--------------------------- MODULE MCSupervisor ---------------------------
(* Model values for the runs of Supervisor.                                *)
EXTENDS Supervisor, TLC

CONSTANTS m1, m2, w1, w2, w3, w4, k1, k2, k3

Symmetry ==
  Permutations(Masters) \cup Permutations(Workers) \cup Permutations(Commands)
===========================================================================
