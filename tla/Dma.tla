-------------------------------- MODULE Dma --------------------------------
(***************************************************************************)
(* The RP2040's DMA controller (rp2040-emu/src/dma.rs), the tail of        *)
(* Emulator::step that drives it once per quantum (lib.rs, bus/mod.rs) and *)
(* the PIO transmit FIFO that paces it (picoem-common/src/pio/fifo.rs).    *)
(*                                                                         *)
(* The cores access the registers in any order between two ticks.  What a  *)
(* transfer carries and where addresses go to is left out: a channel moves *)
(* words to memory or to the FIFO.  So is a destination among the DMA's    *)
(* own registers, which acts like memory nobody reads: tick_dma takes the  *)
(* controller out of the bus, and such a write goes to a placeholder.      *)
(* The two interrupt lines are alike; one stands for both.                 *)
(***************************************************************************)
EXTENDS Integers, FiniteSetsExt

CONSTANTS
    N,          \* number of channels
    ToFifo,     \* the channels that write to the transmit FIFO
    Depth,      \* of that FIFO when neither direction is joined
    Counts,     \* the counts firmware programs
    Ctrls,      \* the values firmware writes to CTRL
    MaxOps      \* bound: register accesses

Channel == 0 .. N - 1
Ctrl == [en : BOOLEAN, quiet : BOOLEAN, paced : BOOLEAN, chain_to : Channel]

ASSUME DmaAssumption ==
    /\ N \in Nat \ {0} /\ ToFifo \subseteq Channel
    /\ Depth \in Nat \ {0} /\ Counts \subseteq Nat
    /\ Ctrls \subseteq Ctrl /\ MaxOps \in Nat

VARIABLES
    channels,   \* DmaChannel: CTRL, the count left, the reload count, BUSY
    intr,       \* the channels whose raw interrupt is latched
    inte,       \* those that are enabled on the line
    intf,       \* those that are forced
    nvic,       \* whether the line is pending in the NVICs
    depth,      \* of the transmit FIFO
    level,      \* words in it
    pio,        \* whether a state machine is enabled
    ops,
    written,    \* ghost: the count firmware wrote to each channel last
    moved,      \* ghost: transfers since the channel last went busy
    whole       \* ghost: a busy channel was left alone since that write

irqVars == <<intr, inte, intf>>
runVars == <<channels, written, moved, whole>>
fifo    == <<depth, level>>
vars    == <<runVars, irqVars, nvic, fifo, pio, ops>>

\* FJOIN_TX doubles the FIFO; FJOIN_RX gives all of it to the other direction.
Depths == {Depth, 2 * Depth, 0}

TypeOK ==
    /\ channels \in [Channel -> [ctrl : Ctrl, trans_count : Nat,
                                 trans_count_reload : Nat, busy : BOOLEAN]]
    /\ intr \in SUBSET Channel /\ inte \in SUBSET Channel /\ intf \in SUBSET Channel
    /\ nvic \in BOOLEAN /\ pio \in BOOLEAN
    /\ depth \in Depths /\ level \in 0 .. depth
    /\ ops \in 0 .. MaxOps
    /\ written \in [Channel -> Nat] /\ moved \in [Channel -> Nat]
    /\ whole \in [Channel -> BOOLEAN]

Idle(val, k) ==
    [ctrl |-> val, trans_count |-> k, trans_count_reload |-> k, busy |-> FALSE]

\* Firmware has set CTRL and the count of each channel up through the
\* registers that do not trigger.
Init ==
    /\ written \in [Channel -> Counts]
    /\ \E val \in [Channel -> Ctrls] :
          channels = [c \in Channel |-> Idle(val[c], written[c])]
    /\ intr = {} /\ inte = {} /\ intf = {} /\ nvic = FALSE
    /\ depth = Depth /\ level = 0 /\ pio = FALSE /\ ops = 0
    /\ moved = [c \in Channel |-> 0]
    /\ whole = [c \in Channel |-> TRUE]

-----------------------------------------------------------------------------
(* What becomes of one channel.                                            *)

\* trigger_channel: an enabled channel with something to do goes busy, and
\* what it has to do is what a later chain reloads.
Triggered(ch) ==
    IF ch.ctrl.en /\ ch.trans_count # 0
    THEN [ch EXCEPT !.trans_count_reload = ch.trans_count, !.busy = TRUE]
    ELSE ch

\* The target of a chain is refilled, if it has a reload count, and triggered.
Chained(ch) ==
    Triggered(IF ch.trans_count_reload > 0
              THEN [ch EXCEPT !.trans_count = ch.trans_count_reload] ELSE ch)

\* Fault: the count of a register that does not trigger is not kept for
\* chains.
Counted_NotKept(ch, k) == [ch EXCEPT !.trans_count = k]

Counted(ch, k) == [ch EXCEPT !.trans_count = k, !.trans_count_reload = k]

\* One transfer: the count saturates at zero, where the channel is done.
Spent(ch) ==
    [ch EXCEPT !.trans_count = IF @ = 0 THEN 0 ELSE @ - 1,
               !.busy = ch.trans_count > 1]

-----------------------------------------------------------------------------
(* Register accesses.                                                      *)

\* Firmware makes the channels of S what they are in `new'.
Access(S, new) ==
    /\ ops < MaxOps /\ ops' = ops + 1
    /\ channels' = [c \in Channel |-> IF c \in S THEN new[c] ELSE channels[c]]
    /\ moved' = [c \in Channel |-> IF channels'[c].busy /\ ~channels[c].busy
                                   THEN 0 ELSE moved[c]]

\* Firmware interferes with those of S that are busy.
Disturb(S) == whole' = [c \in Channel |-> whole[c] /\ ~(c \in S /\ channels[c].busy)]

\* MULTI_CHAN_TRIGGER and the address registers that trigger.
WriteTrigger(S) ==
    /\ Access(S, [c \in S |-> Triggered(channels[c])])
    /\ Disturb(S)
    /\ UNCHANGED <<written, irqVars, nvic, fifo, pio>>

\* CTRL_TRIG, and the aliases of CTRL that do not trigger.
WriteCtrl(c, val, triggers) ==
    /\ LET ch == [channels[c] EXCEPT !.ctrl = val]
       IN  Access({c}, [d \in {c} |-> IF triggers THEN Triggered(ch) ELSE ch])
    /\ Disturb(IF triggers THEN {c} ELSE {})
    /\ UNCHANGED <<written, irqVars, nvic, fifo, pio>>

\* TRANS_COUNT and its aliases.
WriteCount(c, k, triggers) ==
    /\ LET ch == Counted(channels[c], k)
       IN  Access({c}, [d \in {c} |-> IF triggers THEN Triggered(ch) ELSE ch])
    /\ written' = [written EXCEPT ![c] = k]
    /\ whole' = [whole EXCEPT ![c] = ~channels[c].busy]
    /\ UNCHANGED <<irqVars, nvic, fifo, pio>>

\* CHAN_ABORT: what was left to do stays in the count.
Abort(S) ==
    /\ Access(S, [c \in S |-> [channels[c] EXCEPT !.busy = FALSE]])
    /\ Disturb(S)
    /\ UNCHANGED <<written, irqVars, nvic, fifo, pio>>

Elsewhere == /\ Access({}, <<>>)
             /\ UNCHANGED <<written, whole, nvic>>

\* INTR and INTS are write-one-to-clear.
ClearIntr(S) ==
    /\ Elsewhere
    /\ intr' = intr \ S
    /\ UNCHANGED <<inte, intf, fifo, pio>>

WriteInte(S) ==
    /\ Elsewhere
    /\ inte' = S
    /\ UNCHANGED <<intr, intf, fifo, pio>>

WriteIntf(S) ==
    /\ Elsewhere
    /\ intf' = S
    /\ UNCHANGED <<intr, inte, fifo, pio>>

SetPio(on) ==
    /\ Elsewhere
    /\ pio' = on
    /\ UNCHANGED <<irqVars, fifo>>

\* SHIFTCTRL with new FJOIN bits: the FIFO is emptied.
JoinFifo(d) ==
    /\ d # depth
    /\ Elsewhere
    /\ depth' = d /\ level' = 0
    /\ UNCHANGED <<irqVars, pio>>

\* Fault: the FIFO takes words past its depth.
Pushed_Overflows == level + 1

\* A full FIFO drops the word.
Pushed == IF level < depth THEN level + 1 ELSE level

\* A core stores to TXF itself.
WriteFifo ==
    /\ Elsewhere
    /\ level' = Pushed
    /\ UNCHANGED <<irqVars, depth, pio>>

\* A core enters the handler.
TakeIrq ==
    /\ nvic
    /\ nvic' = FALSE
    /\ UNCHANGED <<runVars, irqVars, fifo, pio, ops>>

-----------------------------------------------------------------------------
(* The tail of a quantum.                                                  *)

\* Fault: a latched interrupt does not keep the controller from being idle.
IsIdle_BusyOnly == \A c \in Channel : ~channels[c].busy

\* Fault: only a latched interrupt does.
IsIdle_IntrOnly == intr = {}

IsIdle == intr = {} /\ \A c \in Channel : ~channels[c].busy

\* Unless the FIFO is full.  One that is joined away never is: it asks for data
\* and drops it.
TxDreq == ~(depth > 0 /\ level >= depth)

Ready == {c \in Channel : channels[c].busy /\ (channels[c].ctrl.paced => TxDreq)}

\* issue_transfer: the word, and the end of the run with its interrupt and
\* its chain.
Transfer(c) ==
    LET ch   == channels[c]
        to   == ch.ctrl.chain_to
        done == ~Spent(ch).busy
        next == [channels EXCEPT ![c] = Spent(ch)]
        rings == done /\ to # c
    IN  /\ level' = IF c \in ToFifo THEN Pushed ELSE level
        /\ channels' = IF rings THEN [next EXCEPT ![to] = Chained(@)] ELSE next
        /\ intr' = IF done /\ ~ch.ctrl.quiet THEN intr \cup {c} ELSE intr
        /\ moved' = [d \in Channel |->
                        IF d = c THEN moved[d] + 1
                        ELSE IF channels'[d].busy /\ ~channels[d].busy THEN 0
                        ELSE moved[d]]
        /\ Disturb(IF rings THEN {to} ELSE {})

\* One tick: the lowest busy channel whose request is up makes a transfer.
Tick ==
    IF Ready = {}
    THEN UNCHANGED <<channels, moved, whole, intr, level>>
    ELSE Transfer(Min(Ready))

\* With the PIO and the DMA idle the step takes the fast path, which ticks
\* neither; otherwise the DMA ticks once and its line goes to the NVICs.
EndOfQuantum ==
    /\ pio \/ ~IsIdle
    /\ Tick
    /\ nvic' = (nvic \/ (intr' \cup intf) \cap inte # {})
    /\ UNCHANGED <<written, inte, intf, depth, pio, ops>>

\* The state machine pulls a word.
Pull ==
    /\ pio /\ level > 0
    /\ level' = level - 1
    /\ UNCHANGED <<runVars, irqVars, nvic, depth, pio, ops>>

-----------------------------------------------------------------------------
Firmware ==
    \/ \E S \in SUBSET Channel :
          \/ WriteTrigger(S) \/ Abort(S)
          \/ ClearIntr(S) \/ WriteInte(S) \/ WriteIntf(S)
    \/ \E c \in Channel, triggers \in BOOLEAN :
          \/ \E val \in Ctrls : WriteCtrl(c, val, triggers)
          \/ \E k \in Counts : WriteCount(c, k, triggers)
    \/ \E on \in BOOLEAN : SetPio(on)
    \/ \E d \in Depths : JoinFifo(d)
    \/ WriteFifo

Next == Firmware \/ TakeIrq \/ EndOfQuantum \/ Pull

Spec == Init /\ [][Next]_vars

\* The emulator goes on stepping.  Nothing is asked of the firmware or of
\* the state machine, which may never pull.
FairSpec == Spec /\ WF_vars(EndOfQuantum)

-----------------------------------------------------------------------------
(* Properties.                                                             *)

\* A channel that runs to its end without interference, started by a trigger
\* or by any chain of other channels, makes exactly the transfers firmware
\* wrote to it last, however often it has run before (trigger_channel and
\* issue_transfer, which keep two counts for that).
RunIsWhole ==
    [][\A c \in Channel :
          channels[c].busy /\ ~channels'[c].busy /\ whole'[c]
             => moved'[c] = written[c]]_vars

\* A channel does not stay busy for ever, although idle steps do not tick the
\* DMA: its run ends unless again and again a channel of higher priority is
\* busy or the FIFO it waits for is full (the fast path's gate, tick).
RunEnds ==
    \A c \in Channel :
      channels[c].busy
      ~> \/ ~channels[c].busy
         \/ \E d \in Channel : d < c /\ channels[d].busy
         \/ channels[c].ctrl.paced /\ ~TxDreq

\* A completion whose interrupt is enabled, before or after the fact, becomes
\* pending, although an idle step does not look at the DMA: is_idle must keep
\* the slow path going until the line has been routed.
CompletionPends == intr \cap inte # {} ~> nvic \/ intr \cap inte = {}
=============================================================================
