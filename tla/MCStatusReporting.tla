-------------------------- MODULE MCStatusReporting --------------------------
(***************************************************************************)
(* Values for model checking StatusReporting.                              *)
(***************************************************************************)
EXTENDS StatusReporting

Nothing == {{}}

(* StatusReporting.cfg: a queue of two, a command and a device error, the  *)
(* event status group and the OPERation group with one condition bit.  The *)
(* QUEStionable group has the same three rows in the register tables.      *)
MCErrorCodes == {-113, -350}
MCEventMasks == {{}, {ESR_OPC, ESR_CER}}
MCServiceMasks == {{}, {STB_QMA, STB_SRQ}, {STB_ESR, STB_OPS, STB_MAV}}
MCOneBit == {{}, {0}}

(* DeviceErrors.cfg: device designed errors, the registers left alone.     *)
MCQueueCodes == {-113, 4, 32767}
=============================================================================
