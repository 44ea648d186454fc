------------------------------- MODULE MCDma -------------------------------
(***************************************************************************)
(* The DMA for TLC: channel 1 is paced by the FIFO it writes to, channel 0 *)
(* moves words as fast as it can, and each may chain to the other.         *)
(***************************************************************************)
EXTENDS Dma

MCCtrls ==
    {[en |-> en, quiet |-> FALSE, paced |-> paced, chain_to |-> to] :
        en \in {TRUE}, paced \in BOOLEAN, to \in Channel}
    \cup {[en |-> FALSE, quiet |-> TRUE, paced |-> FALSE, chain_to |-> 0]}
=============================================================================
