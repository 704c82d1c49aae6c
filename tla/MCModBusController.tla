------------------------ MODULE MCModBusController ------------------------
(* Model values for the runs of ModBusController.                          *)
EXTENDS ModBusController, TLC

CONSTANTS c1, c2

Symmetry == Permutations(Conns)
===========================================================================
