------------------------ MODULE MCModbusRTUMaster -------------------------
(* The runs of ModbusRTUMaster share this module.                          *)
EXTENDS ModbusRTUMaster
===========================================================================
