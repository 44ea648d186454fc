--------------------------- MODULE MCThreadedRun ---------------------------
(***************************************************************************)
(* ThreadedRun for TLC: core 0 drives the pins and divides, core 1 drives  *)
(* the PIO.                                                                *)
(***************************************************************************)
EXTENDS ThreadedRun

MCFirmware == [Core0 |-> {"GPIO_OUT", "GPIO_OE", "DIV"}, Core1 |-> {"PIO_CTRL"}]
=============================================================================
