---------------------------- MODULE MCMpscQueue ----------------------------
(* Model values for the run of MpscQueue.                                  *)
EXTENDS MpscQueue

CONSTANTS n1, n2, n3, n4, data_thread, io_thread
============================================================================
