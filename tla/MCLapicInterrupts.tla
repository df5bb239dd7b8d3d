------------------------- MODULE MCLapicInterrupts --------------------------
(* Three processors in the MADT; the one that runs is the second, so that  *)
(* entries are passed on the way to it and others lie behind it.           *)
EXTENDS LapicInterrupts

MCLocalApics == <<10, 20, 30>>
=============================================================================
