---------------------------- MODULE ThreadedPads ----------------------------
(***************************************************************************)
(* The pins and the PIO as the threads of rp2040-emu's threaded runtime    *)
(* share them (threaded/bus.rs, threaded/pio.rs, the coordinator's half of *)
(* threaded/emulator.rs).  A core writes GPIO_OUT and GPIO_OE with one     *)
(* atomic access; it writes the PIO's CTRL register by queueing a command, *)
(* and reads it as the mask the coordinator last published.  The           *)
(* coordinator applies the queue once per quantum, steps the block, and    *)
(* publishes the merged pins over the cores' own registers with two loads  *)
(* and two stores.                                                         *)
(*                                                                         *)
(* The module has one action per shared access and says nothing of who     *)
(* runs when: ThreadedRun adds the threads, the quanta and the barrier.    *)
(* One PIO block and one state machine program stand for both blocks; a    *)
(* stepped block may drive the pins of PioPin as it likes.                 *)
(***************************************************************************)
EXTENDS Integers, Sequences, FiniteSets

CONSTANTS
    Pin,      \* the pins
    PioPin,   \* those the PIO program drives
    Sm        \* the state machines of the block

ASSUME PioPinAssumption == PioPin \subseteq Pin

VARIABLES
    out, oe,         \* SharedState's gpio_out and gpio_oe, as sets of pins
    commands,        \* queued WriteCtrl commands, with the quantum of each
    smEnabled,       \* the mask the cores read
    mask,            \* the block's own sm_enabled_mask
    padOut, padOe,   \* what the block drives
    sio,             \* the coordinator's loads: sio_out and sio_oe
    held,            \* ghost: what each pin of the registers should be: a
                     \* core's last write or, where the merge may replace
                     \* that, what it stored
    merging,         \* ghost: the registers between their load and store
    since,           \* ghost: pins written meanwhile
    starved          \* ghost: quanta an enabled block was not stepped

padVars == <<out, oe, commands, smEnabled, mask, padOut, padOe, sio, held,
             merging, since, starved>>

gpioVars == <<out, oe, held, merging, since>>
blockVars == <<commands, smEnabled, mask, padOut, padOe, starved>>

PadTypeOK ==
    /\ out \subseteq Pin /\ oe \subseteq Pin
    /\ \A i \in DOMAIN commands :
          commands[i] \in [val : SUBSET Sm, quantum : Nat]
    /\ smEnabled \subseteq Sm /\ mask \subseteq Sm
    /\ padOut \subseteq PioPin /\ padOe \subseteq PioPin
    /\ sio \in [out : SUBSET Pin, oe : SUBSET Pin]
    /\ held \in [out : SUBSET Pin, oe : SUBSET Pin]
    /\ merging \subseteq {"out", "oe"}
    /\ since \in [out : SUBSET Pin, oe : SUBSET Pin]
    /\ starved \in Nat

\* A block with no enabled state machine drives nothing (merge_pin_outputs).
Driven(m, pads) == IF m = {} THEN {} ELSE pads

PadInit ==
    /\ out = {} /\ oe = {}
    /\ commands = <<>>
    /\ smEnabled = {} /\ mask \in SUBSET Sm
    /\ padOut = {} /\ padOe = {}
    /\ sio = [out |-> {}, oe |-> {}]
    /\ held = [out |-> {}, oe |-> {}]
    /\ merging = {}
    /\ since = [out |-> {}, oe |-> {}]
    /\ starved = IF mask = {} THEN 0 ELSE 1

\* from_emulator: a block that was enabled before the promotion is stepped
\* from the first quantum on.
PublishSeed ==
    /\ smEnabled' = mask
    /\ UNCHANGED <<gpioVars, commands, mask, padOut, padOe, sio, starved>>

(***************************************************************************)
(* The cores.                                                              *)
(***************************************************************************)
SetTo(S, p, on) == IF on THEN S \cup {p} ELSE S \ {p}

\* GPIO_OUT_SET and GPIO_OUT_CLR, and the same for GPIO_OE.
WriteOut(p, on) ==
    /\ out' = SetTo(out, p, on)
    /\ held' = [held EXCEPT !.out = SetTo(@, p, on)]
    /\ since' = [since EXCEPT !.out = IF "out" \in merging THEN @ \cup {p} ELSE @]
    /\ UNCHANGED <<oe, merging, blockVars, sio>>

WriteOe(p, on) ==
    /\ oe' = SetTo(oe, p, on)
    /\ held' = [held EXCEPT !.oe = SetTo(@, p, on)]
    /\ since' = [since EXCEPT !.oe = IF "oe" \in merging THEN @ \cup {p} ELSE @]
    /\ UNCHANGED <<out, merging, blockVars, sio>>

\* A CTRL write in quantum q.
SendCtrl(val, q) ==
    /\ commands' = Append(commands, [val |-> val, quantum |-> q])
    /\ UNCHANGED <<gpioVars, smEnabled, mask, padOut, padOe, starved, sio>>

(***************************************************************************)
(* The coordinator.                                                        *)
(***************************************************************************)

\* drain_commands and apply_pio_command: the last CTRL value stands.
Drain ==
    LET m == IF commands = <<>> THEN mask ELSE commands[Len(commands)].val
    IN  /\ mask' = m
        /\ commands' = <<>>
        /\ padOut' = Driven(m, padOut)
        /\ padOe' = Driven(m, padOe)
        /\ UNCHANGED <<gpioVars, smEnabled, starved, sio>>

\* Fault: the mask is not published.
StepBlock_Unpublished ==
    LET runs == smEnabled # {} /\ mask # {}
    IN  /\ IF runs
           THEN \E driven \in SUBSET PioPin : /\ padOe' = driven
                                             /\ padOut' \in SUBSET driven
           ELSE UNCHANGED <<padOut, padOe>>
        /\ starved' = IF mask = {} \/ runs THEN 0 ELSE starved + 1
        /\ UNCHANGED <<gpioVars, commands, smEnabled, mask, sio>>

\* step_n, behind the mask as it was published a quantum ago; then publish.
StepBlock ==
    LET runs == smEnabled # {} /\ mask # {}
    IN  /\ IF runs
           THEN \E driven \in SUBSET PioPin : /\ padOe' = driven
                                             /\ padOut' \in SUBSET driven
           ELSE UNCHANGED <<padOut, padOe>>
        /\ starved' = IF mask = {} \/ runs THEN 0 ELSE starved + 1
        /\ smEnabled' = mask
        /\ UNCHANGED <<gpioVars, commands, mask, sio>>

LoadOut ==
    /\ sio' = [sio EXCEPT !.out = out]
    /\ merging' = merging \cup {"out"}
    /\ UNCHANGED <<out, oe, held, since, blockVars>>

LoadOe ==
    /\ sio' = [sio EXCEPT !.oe = oe]
    /\ merging' = merging \cup {"oe"}
    /\ UNCHANGED <<out, oe, held, since, blockVars>>

\* Fault: the pins the PIO does not drive are cleared.
MergedOut_PioOnly == padOut \cap padOe

MergedOut == ((sio.out \cap sio.oe) \ padOe) \cup (padOut \cap padOe)
MergedOe == sio.oe \cup padOe

\* What should be held once the pins of S are as they were stored.
Replaced(due, S, stored) == (due \ S) \cup (stored \cap S)

\* The merge may replace a pin written since its load, a pin the PIO drives
\* and the value of a pin whose output was off (merged_out is sio_out &
\* sio_oe).
StoreOut ==
    /\ out' = MergedOut
    /\ held' = [held EXCEPT !.out = Replaced(@, since.out \cup padOe
                                               \cup (sio.out \ sio.oe), out')]
    /\ merging' = merging \ {"out"}
    /\ since' = [since EXCEPT !.out = {}]
    /\ UNCHANGED <<oe, blockVars, sio>>

StoreOe ==
    /\ oe' = MergedOe
    /\ held' = [held EXCEPT !.oe = Replaced(@, since.oe \cup padOe, oe')]
    /\ merging' = merging \ {"oe"}
    /\ since' = [since EXCEPT !.oe = {}]
    /\ sio' = [out |-> {}, oe |-> {}]
    /\ UNCHANGED <<out, blockVars>>
=============================================================================
