------------------------- MODULE MCThreadedQuantum -------------------------
(***************************************************************************)
(* Firmware for TLC: both cores sleep on events; core 0 sends them, as     *)
(* words and by SEV, and serves the TIMER, core 1 takes the words.         *)
(***************************************************************************)
EXTENDS ThreadedQuantum, TLC

MCFirmware == (0 :> {"FIFO_WR", "SEV", "WFE", "INTR"}) @@
              (1 :> {"FIFO_RD", "WFE", "WFI", "other"})

\* Core 0 waits for the events core 1 may send.
MCWaiter == (0 :> {"WFE"}) @@ (1 :> {"SEV", "other"})
============================================================================
