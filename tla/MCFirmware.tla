----------------------------- MODULE MCFirmware ----------------------------
(* Values for the runs of Firmware: a clock that wraps within the run.     *)
EXTENDS Firmware

SomeTemps == {-5, 20}
============================================================================
