---------------------------- MODULE MCExceptions ----------------------------
(***************************************************************************)
(* Exceptions for TLC: two interrupts, one more and one less urgent than   *)
(* PendSV and SysTick, and vector tables that are sound, lack an interrupt *)
(* handler, or lack the SVC or the HardFault handler.                      *)
(***************************************************************************)
EXTENDS Exceptions

MCPriority == [e \in Async |-> IF e = 16 THEN 3 ELSE IF e = 17 THEN 0 ELSE 1]
MCVectors  == {{}, {16}, {SVCall}, {HardFault, 17}}
=============================================================================
