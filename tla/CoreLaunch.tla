----------------------------- MODULE CoreLaunch -----------------------------
(***************************************************************************)
(* The serial Emulator of rp2040-emu/src/lib.rs as the two cores see it:   *)
(* the per-instruction interleaving of a step, the inter-core FIFOs and    *)
(* the multicore-launch handshake of bus/sio.rs, WFE, SEV and WFI, and the *)
(* wake checks at the tail of a step.                                      *)
(*                                                                         *)
(* Core 0 runs the SDK's launch loop over them (external) and, before and  *)
(* after it, firmware of any kind.  Core 1 runs any firmware once it was   *)
(* launched.  One interrupt line stands for all; registers, memory and     *)
(* FIFO_ST's sticky flags are left out.  The host may halt core 1 or reset *)
(* the emulator between two steps.                                         *)
(***************************************************************************)
EXTENDS Integers, Sequences, SequencesExt

CONSTANTS
    FifoDepth,   \* capacity of a FIFO: 8 in the code
    StepQuantum, \* step_quantum: cycles in a step, 64 by default
    Stray,       \* words core 0 may write outside the launch loop
    Reply,       \* words core 1 may write
    MaxStray,    \* bound: stray words in a behaviour
    MaxHost,     \* bound: halts and resets in a behaviour
    IrqUsers     \* cores whose firmware enables the interrupt line

Core == {0, 1}
Other(c) == 1 - c

\* The vector table, stack pointer and entry point that core 1 is to start
\* with, as the caller of multicore_launch_core1_raw passes them.
Args == <<2, 3, 4>>
Word == 0 .. 4

ASSUME LaunchAssumption ==
    /\ FifoDepth \in Nat \ {0} /\ StepQuantum \in Nat \ {0}
    /\ MaxStray \in Nat /\ MaxHost \in Nat
    /\ Stray \subseteq Word /\ Reply \subseteq Word
    /\ IrqUsers \subseteq Core

VARIABLES
    pc,          \* where step_serial_with_external is
    left,        \* cycles left in the quantum; 0 when it is over or passed
    ran,         \* core 0 took a step in this iteration
    halted, wfe_waiting, event_flag,
    irq,         \* a pending and enabled line in each core's NVIC
    fifo,        \* fifo_to_core0 and fifo_to_core1, by receiver
    armed, seq, vtor, sp,  \* MulticoreHandshake
    code,        \* what each core's firmware is doing
    cmd,         \* index into the launch loop's command sequence
    launched,    \* VTOR, MSP and PC core 1 was last launched with
    fresh,       \* history: it was since the launch loop was last entered
    attempt,     \* history: core 0's last six words in this arming
    strays, host_calls  \* how much of the two bounds is used up

handshake == <<armed, seq, vtor, sp>>
launch    == <<launched, fresh, attempt>>
bounds    == <<strays, host_calls>>
vars == <<pc, left, ran, halted, wfe_waiting, event_flag, irq, fifo, armed,
          seq, vtor, sp, code, cmd, launched, fresh, attempt, strays,
          host_calls>>

\* "start" is the entry point, "app" anything after it; "pop" and "pop_wfe" are
\* the test and the sleep of multicore_fifo_pop_blocking; the others belong to
\* the launch loop.
Code == {"start", "app", "pop", "pop_wfe", "drain", "push", "sev"}
NotLaunching == 6

Commands == <<0, 0, 1>> \o Args

-----------------------------------------------------------------------------
(* Initial states and Emulator::reset: core 1 is halted, the FSM armed.    *)

Init ==
    /\ pc = "core0" /\ left = StepQuantum /\ ran = FALSE
    /\ halted = [c \in Core |-> c = 1]
    /\ wfe_waiting = [c \in Core |-> FALSE]
    /\ event_flag = [c \in Core |-> FALSE]
    /\ irq = [c \in Core |-> FALSE]
    /\ fifo = [c \in Core |-> <<>>]
    /\ armed = TRUE /\ seq = 0 /\ vtor = 0 /\ sp = 0
    /\ code = [c \in Core |-> "app"]
    /\ cmd = NotLaunching
    /\ launched = <<>> /\ fresh = FALSE /\ attempt = <<>>
    /\ strays = 0 /\ host_calls = 0

\* Between two steps the host may call.
BetweenSteps == pc = "core0" /\ left = StepQuantum

Reset ==
    /\ BetweenSteps /\ host_calls < MaxHost
    /\ host_calls' = host_calls + 1
    /\ halted' = [c \in Core |-> c = 1]
    /\ wfe_waiting' = [c \in Core |-> FALSE]
    /\ event_flag' = [c \in Core |-> FALSE]
    /\ irq' = [c \in Core |-> FALSE]
    /\ fifo' = [c \in Core |-> <<>>]
    /\ armed' = TRUE /\ seq' = 0 /\ vtor' = 0 /\ sp' = 0
    /\ code' = [c \in Core |-> "app"]
    /\ cmd' = NotLaunching
    /\ launched' = <<>> /\ fresh' = FALSE /\ attempt' = <<>>
    /\ UNCHANGED <<pc, left, ran, strays>>

\* halt_core1: arming an armed FSM keeps its progress.
HaltCore1 ==
    /\ BetweenSteps /\ host_calls < MaxHost
    /\ host_calls' = host_calls + 1
    /\ halted' = [halted EXCEPT ![1] = TRUE]
    /\ armed' = TRUE
    /\ attempt' = IF armed THEN attempt ELSE <<>>
    /\ UNCHANGED <<pc, left, ran, wfe_waiting, event_flag, irq, fifo, seq,
                   vtor, sp, code, cmd, launched, fresh, strays>>

-----------------------------------------------------------------------------
(* One iteration of the step loop: core 0, then core 1.  It takes as many  *)
(* cycles as the longer of their two instructions.                         *)

\* Fault: core 1 is only scheduled when core 0 has nothing to run.
CanRun_ElseIf(c) == ~halted[c] /\ ~wfe_waiting[c] /\ (c = 1 => ~ran)

CanRun(c) == ~halted[c] /\ ~wfe_waiting[c]

\* The scheduler's part of a core's turn, whether it stepped or not.
Turn(c, stepped) ==
    IF c = 0
    THEN /\ pc = "core0" /\ pc' = "core1"
         /\ ran' = stepped
         /\ UNCHANGED left
    ELSE /\ pc = "core1"
         /\ ran' = FALSE
         /\ IF ran \/ stepped
            THEN /\ left' \in 0 .. left - 1
                 /\ pc' = IF left' = 0 THEN "tail" ELSE "core0"
            ELSE /\ left' = 0
                 /\ pc' = "tail"

Steps(c) == CanRun(c) /\ Turn(c, TRUE)

Skip(c) ==
    /\ ~CanRun(c) /\ Turn(c, FALSE)
    /\ UNCHANGED <<halted, wfe_waiting, event_flag, irq, fifo, handshake,
                   code, cmd, launch, bounds>>

\* The exception entry of a pending interrupt.
TakeIrq(c) ==
    /\ irq[c] /\ Steps(c)
    /\ irq' = [irq EXCEPT ![c] = FALSE]
    /\ UNCHANGED <<halted, wfe_waiting, event_flag, fifo, handshake, code, cmd,
                   launch, bounds>>

\* Each step of the firmware below goes on at `next'.
Becomes(c, next) == code' = [code EXCEPT ![c] = next]

-----------------------------------------------------------------------------
(* Sio::fifo_wr and fifo_rd, handshake_step, maybe_wake_core1.             *)

Accepts(w) ==
    CASE seq \in {0, 1} -> w = 0
      [] seq = 2        -> w = 1
      [] OTHER          -> w # 0

Room(c) == Len(fifo[c]) < FifoDepth

\* Fault: a push does not set the receiver's event flag.
PushTo_NoEvent(c, w) ==
    /\ fifo' = [fifo EXCEPT ![c] = IF Room(c) THEN Append(@, w) ELSE @]
    /\ UNCHANGED event_flag

\* A push sets the receiver's event flag; into a full FIFO it is dropped.
PushTo(c, w) ==
    /\ fifo' = [fifo EXCEPT ![c] = IF Room(c) THEN Append(@, w) ELSE @]
    /\ event_flag' = [event_flag EXCEPT ![c] = @ \/ Room(c)]

\* The last word of a launch starts core 1, at once and with a clean event
\* flag, and disarms the FSM.
Launch(w) ==
    /\ launched' = <<vtor, sp, w>>
    /\ fresh' = TRUE
    /\ halted' = [halted EXCEPT ![1] = FALSE]
    /\ event_flag' = [event_flag EXCEPT ![0] = @ \/ Room(0), ![1] = FALSE]
    /\ fifo' = [fifo EXCEPT ![0] = IF Room(0) THEN Append(@, w) ELSE @]
    /\ armed' = FALSE /\ seq' = 0 /\ vtor' = 0 /\ sp' = 0

\* Fault: a wrong word does not take the FSM back to its first state.
NextSeq_KeepsProgress(w) == IF Accepts(w) THEN seq + 1 ELSE seq

NextSeq(w) == IF Accepts(w) THEN seq + 1 ELSE 0

\* Fault: a wrong word is echoed like a right one.
Echo_Anything(w) == PushTo(0, w)

\* Fault: a wrong word is not answered.
Echo_OnlyRight(w) ==
    IF Accepts(w) THEN PushTo(0, w) ELSE UNCHANGED <<fifo, event_flag>>

\* The echo; a wrong word is answered by a 0.
Echo(w) == PushTo(0, IF Accepts(w) THEN w ELSE 0)

HandshakeStep(w) ==
    /\ attempt' = LET all == Append(attempt, w)
                  IN  IF Len(all) > 6 THEN Tail(all) ELSE all
    /\ IF seq = 5 /\ Accepts(w)
       THEN Launch(w)
       ELSE /\ Echo(w)
            /\ seq' = NextSeq(w)
            /\ vtor' = IF seq = 3 /\ Accepts(w) THEN w ELSE vtor
            /\ sp' = IF seq = 4 /\ Accepts(w) THEN w ELSE sp
            /\ UNCHANGED <<armed, halted, launched, fresh>>

\* A FIFO_WR after which the writer goes on at `next'; a core that it starts
\* begins at its entry point.
FifoWr(c, w, next) ==
    IF c = 0 /\ armed
    THEN /\ HandshakeStep(w)
         /\ code' = [code EXCEPT ![0] = next,
                                 ![1] = IF armed' THEN @ ELSE "start"]
    ELSE /\ PushTo(Other(c), w)
         /\ Becomes(c, next)
         /\ UNCHANGED <<handshake, halted, launch>>

\* WFE consumes a latched event or parks the core.
WaitForEvent(c) ==
    /\ event_flag' = [event_flag EXCEPT ![c] = FALSE]
    /\ wfe_waiting' = [wfe_waiting EXCEPT ![c] = ~event_flag[c]]

-----------------------------------------------------------------------------
(* Firmware of any kind.                                                   *)

Start(c) ==
    /\ code[c] = "start" /\ Steps(c)
    /\ Becomes(c, "app")
    /\ UNCHANGED <<halted, wfe_waiting, event_flag, irq, fifo, handshake, cmd,
                   launch, bounds>>

App(c) == code[c] = "app" /\ Steps(c)

AppWr(c) ==
    /\ IF c = 0 THEN strays < MaxStray ELSE TRUE
    /\ \E w \in IF c = 0 THEN Stray ELSE Reply : FifoWr(c, w, "app")
    /\ strays' = IF c = 0 THEN strays + 1 ELSE strays
    /\ App(c)
    /\ UNCHANGED <<wfe_waiting, irq, cmd, host_calls>>

AppRd(c) ==
    /\ App(c)
    /\ fifo' = [fifo EXCEPT ![c] = IF @ = <<>> THEN @ ELSE Tail(@)]
    /\ UNCHANGED <<halted, wfe_waiting, event_flag, irq, handshake, code, cmd,
                   launch, bounds>>

AppWfe(c) ==
    /\ App(c)
    /\ WaitForEvent(c)
    /\ UNCHANGED <<halted, irq, fifo, handshake, code, cmd, launch,
                   bounds>>

AppWfi(c) ==
    /\ halted' = [halted EXCEPT ![c] = ~irq[c]]
    /\ App(c)
    /\ UNCHANGED <<wfe_waiting, event_flag, irq, fifo, handshake, code, cmd,
                   launch, bounds>>

AppOther(c) ==
    /\ App(c)
    /\ UNCHANGED <<halted, wfe_waiting, event_flag, irq, fifo, handshake, code,
                   cmd, launch, bounds>>

-----------------------------------------------------------------------------
(* The SDK: multicore_fifo_pop_blocking and multicore_launch_core1_raw.    *)

\* A core starts to wait for a word.
PopCall(c) ==
    /\ App(c)
    /\ Becomes(c, "pop")
    /\ UNCHANGED <<halted, wfe_waiting, event_flag, irq, fifo, handshake, cmd,
                   launch, bounds>>

\* Reads VLD; while there is no word, WFE and again.
PopNoWord(c) ==
    /\ code[c] = "pop" /\ fifo[c] = <<>> /\ Steps(c)
    /\ Becomes(c, "pop_wfe")
    /\ UNCHANGED <<halted, wfe_waiting, event_flag, irq, fifo, handshake, cmd,
                   launch, bounds>>

PopWfe(c) ==
    /\ code[c] = "pop_wfe" /\ Steps(c)
    /\ WaitForEvent(c)
    /\ Becomes(c, "pop")
    /\ UNCHANGED <<halted, irq, fifo, handshake, cmd, launch, bounds>>

\* The word is read.  In the launch loop it is compared with the command.
Launching(c) == c = 0 /\ cmd # NotLaunching

PopWord(c) ==
    /\ code[c] = "pop" /\ fifo[c] # <<>> /\ Steps(c)
    /\ fifo' = [fifo EXCEPT ![c] = Tail(@)]
    /\ cmd' = IF ~Launching(c) THEN cmd
              ELSE IF Head(fifo[c]) = Commands[cmd + 1] THEN cmd + 1 ELSE 0
    /\ Becomes(c, IF ~Launching(c) \/ cmd' = NotLaunching THEN "app"
                  ELSE IF Commands[cmd' + 1] = 0 THEN "drain" ELSE "push")
    /\ UNCHANGED <<halted, wfe_waiting, event_flag, irq, handshake, launch,
                   bounds>>

\* Core 1 is where a reset or halt_core1 left it: the SDK's precondition.
LaunchCall ==
    /\ App(0)
    /\ halted[1] /\ armed
    /\ cmd' = 0
    /\ fresh' = FALSE
    /\ Becomes(0, "drain")
    /\ UNCHANGED <<halted, wfe_waiting, event_flag, irq, fifo, handshake,
                   launched, attempt, bounds>>

\* Before a 0 the receive FIFO is drained, word by word, ...
DrainWord ==
    /\ code[0] = "drain" /\ fifo[0] # <<>> /\ Steps(0)
    /\ fifo' = [fifo EXCEPT ![0] = Tail(@)]
    /\ UNCHANGED <<halted, wfe_waiting, event_flag, irq, handshake, code, cmd,
                   launch, bounds>>

\* ... and core 1 sent an event.
DrainDone ==
    /\ code[0] = "drain" /\ fifo[0] = <<>> /\ Steps(0)
    /\ event_flag' = [c \in Core |-> TRUE]
    /\ Becomes(0, "push")
    /\ UNCHANGED <<halted, wfe_waiting, irq, fifo, handshake, cmd, launch,
                   bounds>>

\* multicore_fifo_push_blocking waits for RDY, writes the word, ...
PushWait ==
    /\ code[0] = "push" /\ ~Room(1) /\ Steps(0)
    /\ UNCHANGED <<halted, wfe_waiting, event_flag, irq, fifo, handshake, code,
                   cmd, launch, bounds>>

PushWord ==
    /\ code[0] = "push" /\ Room(1)
    /\ Steps(0)
    /\ FifoWr(0, Commands[cmd + 1], "sev")
    /\ UNCHANGED <<wfe_waiting, irq, cmd, bounds>>

\* ... and sends an event.
PushSev ==
    /\ code[0] = "sev" /\ Steps(0)
    /\ event_flag' = [c \in Core |-> TRUE]
    /\ Becomes(0, "pop")
    /\ UNCHANGED <<halted, wfe_waiting, irq, fifo, handshake, cmd, launch,
                   bounds>>

-----------------------------------------------------------------------------
(* The tail of a step: interrupts reach the NVICs, then wake_checks.       *)

WakeChecks(raised) ==
    LET pending == [c \in Core |-> irq[c] \/ (raised /\ c \in IrqUsers
                                              /\ (c = 0 \/ launched # <<>>))]
        event   == [c \in Core |-> wfe_waiting[c] /\ event_flag[c]]
    IN  /\ irq' = pending
        /\ event_flag' = [c \in Core |-> event_flag[c] /\ ~event[c]]
        /\ wfe_waiting' = [c \in Core |-> wfe_waiting[c] /\ ~event[c]
                                          /\ ~pending[c]]
        /\ halted' = [c \in Core |-> halted[c] /\ ~pending[c]]

TailOfStep ==
    /\ pc = "tail"
    /\ \E raised \in BOOLEAN : WakeChecks(raised)
    /\ pc' = "core0" /\ left' = StepQuantum
    /\ UNCHANGED <<ran, fifo, handshake, code, cmd, launch, bounds>>

Firmware(c) ==
    \/ Start(c) \/ AppWr(c) \/ AppRd(c) \/ AppWfe(c) \/ AppWfi(c) \/ AppOther(c)
    \/ PopCall(c) \/ PopNoWord(c) \/ PopWfe(c) \/ PopWord(c)

LaunchLoop == DrainWord \/ DrainDone \/ PushWait \/ PushWord \/ PushSev

Emulate ==
    \/ \E c \in Core : Skip(c) \/ TakeIrq(c) \/ Firmware(c)
    \/ LaunchCall \/ LaunchLoop \/ TailOfStep

Next == Emulate \/ Reset \/ HaltCore1

Spec == Init /\ [][Next]_vars

\* The emulator is one thread that goes on, and interrupts do not keep core 0
\* from its next instruction for ever.
FairSpec == Spec /\ WF_vars(Emulate) /\ SF_vars(Firmware(0) \/ LaunchLoop)

-----------------------------------------------------------------------------
(* Properties.                                                             *)

\* The emulator's state has its types, and the FIFOs their capacity.
TypeOK ==
    /\ pc \in {"core0", "core1", "tail"}
    /\ left \in 0 .. StepQuantum
    /\ ran \in BOOLEAN
    /\ halted \in [Core -> BOOLEAN]
    /\ wfe_waiting \in [Core -> BOOLEAN]
    /\ event_flag \in [Core -> BOOLEAN]
    /\ irq \in [Core -> BOOLEAN]
    /\ DOMAIN fifo = Core
    /\ \A c \in Core : Len(fifo[c]) <= FifoDepth /\ ToSet(fifo[c]) \subseteq Word
    /\ armed \in BOOLEAN /\ seq \in 0 .. 5 /\ vtor \in Word /\ sp \in Word
    /\ code \in [Core -> Code]
    /\ cmd \in 0 .. NotLaunching
    /\ fresh \in BOOLEAN

\* Only a launch disarms the FSM.
Launches == armed /\ ~armed'

\* Core 1 is only ever launched by the protocol's six words, written one after
\* the other while the FSM stayed armed, and with the values they carried: no
\* word of an attempt that was cut short is left in the FSM.
LaunchIsOneAttempt ==
    [][Launches => attempt' = <<0, 0, 1>> \o launched']_vars

\* When multicore_launch_core1_raw returns, core 1 was launched during this
\* call and with this call's arguments.
LaunchAgreement ==
    [][cmd # NotLaunching /\ cmd' = NotLaunching /\ host_calls' = host_calls
       => fresh /\ launched = Args]_vars

\* A core parked in multicore_fifo_pop_blocking with a word in its FIFO has an
\* event waiting for it: the word did not slip in between test and WFE.
WordWakes ==
    \A c \in Core :
      code[c] = "pop" /\ wfe_waiting[c] /\ fifo[c] # <<>> => event_flag[c]

\* The launch loop returns, wherever an earlier attempt left the FSM, if the
\* FIFO to core 1 is not full: what was in it when core 1 was halted stays
\* there, and FIFO_ST then never reads RDY although the FSM would take a word.
LaunchReturns == Launching(0) /\ Room(1) ~> ~Launching(0)

\* A launched core gets to its first instruction, even one that had been
\* halted while it slept in a WFE, unless it is halted again.
LaunchedCoreRuns ==
    code[1] = "start" /\ ~halted[1] ~> code[1] # "start" \/ halted[1]

-----------------------------------------------------------------------------
(* What an assertion of lib.rs says and wake_checks undoes.                *)

\* maybe_wake_core1: a launch finds core 1 halted.
LaunchFindsCoreHalted == [][Launches => halted[1]]_vars
=============================================================================
