-------------------------- MODULE ThreadedQuantum --------------------------
(***************************************************************************)
(* One run_quanta_checked call of the RP2040 ThreadedEmulator              *)
(* (rp2040-emu/src/threaded): two core workers and the coordinator run     *)
(* Quanta quanta side by side and meet at one barrier at the tail of each. *)
(* Between barriers they share CoreAtomics (pending interrupt masks, event *)
(* flags), the two inter-core FIFOs and the TIMER.                         *)
(*                                                                         *)
(* The barrier is used as what Rendezvous says of it, which SpinBarrier    *)
(* implements: nobody is released before all have arrived.  The FIFOs are  *)
(* SpscQueues, of which only the number of words matters here.  What is    *)
(* private to a worker (registers, memory, SysTick, PIO blocks) is left    *)
(* out, and with it PRIMASK and handler mode: a core with a pending line   *)
(* takes it or, masked, does not.  Both lines are enabled in the NVIC.     *)
(***************************************************************************)
EXTENDS Integers, FiniteSets

CONSTANTS
    Quanta,     \* n of run_quanta_checked
    StepQuantum,\* cycles per quantum (step_quantum)
    MaxCost,    \* most cycles an instruction or exception entry takes
    FifoDepth,  \* capacity of fifo_fifo_*: 8 in the code
    HaltedCores,\* cores whose halted flag was set when they were promoted
    Firmware,   \* the kinds of instruction the firmware on each core uses
    Leftover    \* the kinds of state an earlier call may have left behind

Core   == {0, 1}
Coord  == 2       \* its index in the thread mask
Worker == Core \cup {Coord}
Other(c) == 1 - c

Timer == "TIMER_IRQ"    \* NVIC lines 0..3
Fifo  == "SIO_PROC_IRQ" \* NVIC line 15 on core 0, 16 on core 1
Line  == {Timer, Fifo}

Instruction == {"FIFO_WR", "FIFO_RD", "SEV", "WFE", "WFI", "INTR", "other"}

State == {"halted", "wfe_waiting", "event_flag", "irq_pending", "fifo",
          "timer_level"}

ASSUME QuantumAssumption ==
    /\ Firmware \in [Core -> SUBSET Instruction]
    /\ Quanta \in Nat
    /\ StepQuantum \in Nat \ {0}
    /\ MaxCost \in Nat \ {0}
    /\ FifoDepth \in Nat \ {0}
    /\ HaltedCores \subseteq Core
    /\ Leftover \subseteq State

VARIABLES
    pc,          \* where each worker is
    quantum,     \* quanta each worker has completed
    master_cycle,\* cycles the coordinator has counted in this call
    cycles,      \* a core's cycle counter, from the start of the call
    target,      \* where the core's counter is to be at the quantum's end
    halted,      \* the core's own halted bit (WFI)
    wfe_waiting, \* CoreAtomics.wfe_waiting, written by the core alone
    event_flag,  \* CoreAtomics.event_flag
    irq_pending, \* CoreAtomics.irq_pending, as sets of lines
    nvic,        \* pending lines in the worker's own NVIC
    fifo,        \* words on their way to each core
    timer_level  \* an alarm is latched in INTR and enabled in INTE

clocks == <<master_cycle, cycles, target>>
sleep  == <<halted, wfe_waiting>>
vars   == <<pc, quantum, clocks, sleep, event_flag, irq_pending, nvic, fifo,
            timer_level>>

CorePoints  == {"top", "top_drain", "loop", "push_event", "push_irq",
                "sev_second", "after", "barrier", "done"}
CoordPoints == {"poll", "store0", "store1", "barrier", "done"}

\* Where a worker's quantum begins.
First(w) == IF w = Coord THEN "poll" ELSE "top"

\* What the serial emulator, promoted, or the calls before this one have left of
\* a core: anything, as far as Leftover goes.
LeftBehind(c) ==
    /\ c \in HaltedCores => halted[c]
    /\ halted[c] => c \in HaltedCores \/ "halted" \in Leftover
    /\ wfe_waiting[c] => "wfe_waiting" \in Leftover
    /\ event_flag[c] => "event_flag" \in Leftover
    /\ irq_pending[c] # {} => "irq_pending" \in Leftover
    /\ fifo[c] > 0 => "fifo" \in Leftover

\* Each core's bus and its NVIC are new, and target starts at its counter.
Init ==
    /\ pc = [w \in Worker |-> IF Quanta = 0 THEN "done" ELSE First(w)]
    /\ quantum = [w \in Worker |-> 0]
    /\ master_cycle = 0
    /\ cycles = [c \in Core |-> 0]
    /\ target = [c \in Core |-> 0]
    /\ halted \in [Core -> BOOLEAN]
    /\ wfe_waiting \in [Core -> BOOLEAN]
    /\ event_flag \in [Core -> BOOLEAN]
    /\ irq_pending \in [Core -> SUBSET Line]
    /\ nvic = [c \in Core |-> {}]
    /\ fifo \in [Core -> 0 .. FifoDepth]
    /\ timer_level \in BOOLEAN /\ (timer_level => "timer_level" \in Leftover)
    /\ \A c \in Core : LeftBehind(c)

Goto(w, point) == pc' = [pc EXCEPT ![w] = point]

-----------------------------------------------------------------------------
(* core_worker_body: the top of a quantum.                                 *)

\* Fault: the event flag is not looked at.
Top_FlagIgnored(c) ==
    /\ pc[c] = "top"
    /\ Goto(c, "top_drain")
    /\ UNCHANGED <<quantum, clocks, sleep, event_flag, irq_pending, nvic, fifo,
                   timer_level>>

\* A parked core whose event flag is set consumes it and is unparked.
Top(c) ==
    /\ pc[c] = "top"
    /\ LET woken == wfe_waiting[c] /\ event_flag[c]
       IN  /\ wfe_waiting' = [wfe_waiting EXCEPT ![c] = @ /\ ~woken]
           /\ event_flag' = [event_flag EXCEPT ![c] = @ /\ ~woken]
    /\ Goto(c, "top_drain")
    /\ UNCHANGED <<quantum, clocks, halted, irq_pending, nvic, fifo, timer_level>>

\* drain_cross_core_irqs: the mask is swapped for zero into the NVIC.
Drain(c) ==
    /\ nvic' = [nvic EXCEPT ![c] = @ \cup irq_pending[c]]
    /\ irq_pending' = [irq_pending EXCEPT ![c] = {}]

\* Fault: the mask is left for the drain after the first step.
TopDrain_Skipped(c) ==
    /\ pc[c] = "top_drain"
    /\ target' = [target EXCEPT ![c] = @ + StepQuantum]
    /\ Goto(c, "loop")
    /\ UNCHANGED <<quantum, master_cycle, cycles, sleep, event_flag, irq_pending,
                   nvic, fifo, timer_level>>

\* Fault: the target is set from where the core is, not from the last target.
TopDrain_FromNow(c) ==
    /\ pc[c] = "top_drain"
    /\ Drain(c)
    /\ target' = [target EXCEPT ![c] = cycles[c] + StepQuantum]
    /\ Goto(c, "loop")
    /\ UNCHANGED <<quantum, master_cycle, cycles, sleep, event_flag, fifo,
                   timer_level>>

\* The target moves on by a quantum whether or not the core will run.
TopDrain(c) ==
    /\ pc[c] = "top_drain"
    /\ Drain(c)
    /\ target' = [target EXCEPT ![c] = @ + StepQuantum]
    /\ Goto(c, "loop")
    /\ UNCHANGED <<quantum, master_cycle, cycles, sleep, event_flag, fifo,
                   timer_level>>

-----------------------------------------------------------------------------
(* core_worker_body: one core.step per iteration.                          *)

CanStep(c) == c \notin HaltedCores /\ cycles[c] < target[c] /\ ~halted[c]

\* The step that a worker at the head of its loop takes: its cycles are
\* charged and it goes on at `point'.
CoreSteps(c, point) ==
    /\ pc[c] = "loop" /\ CanStep(c)
    /\ \E cost \in 1 .. MaxCost : cycles' = [cycles EXCEPT ![c] = @ + cost]
    /\ Goto(c, point)
    /\ UNCHANGED <<quantum, master_cycle, target>>

Execute(c, instruction, point) ==
    instruction \in Firmware[c] /\ CoreSteps(c, point)

\* Pre-fetch poll: exception entry for a pending line.
TakeIrq(c) ==
    /\ CoreSteps(c, "after")
    /\ \E line \in nvic[c] : nvic' = [nvic EXCEPT ![c] = @ \ {line}]
    /\ UNCHANGED <<sleep, event_flag, irq_pending, fifo, timer_level>>

\* FIFO_WR: the word first, ...
Push(c) ==
    /\ fifo[Other(c)] < FifoDepth
    /\ Execute(c, "FIFO_WR", "push_event")
    /\ fifo' = [fifo EXCEPT ![Other(c)] = @ + 1]
    /\ UNCHANGED <<sleep, event_flag, irq_pending, nvic, timer_level>>

\* into a full FIFO it is dropped (WOF is left out), ...
PushFull(c) ==
    /\ fifo[Other(c)] = FifoDepth
    /\ Execute(c, "FIFO_WR", "after")
    /\ UNCHANGED <<sleep, event_flag, irq_pending, nvic, fifo, timer_level>>

\* ... then the receiver's event flag, ...
PushEvent(c) ==
    /\ pc[c] = "push_event"
    /\ event_flag' = [event_flag EXCEPT ![Other(c)] = TRUE]
    /\ Goto(c, "push_irq")
    /\ UNCHANGED <<quantum, clocks, sleep, irq_pending, nvic, fifo, timer_level>>

\* ... then its interrupt line (assert_irq).
PushIrq(c) ==
    /\ pc[c] = "push_irq"
    /\ irq_pending' = [irq_pending EXCEPT ![Other(c)] = @ \cup {Fifo}]
    /\ Goto(c, "after")
    /\ UNCHANGED <<quantum, clocks, sleep, event_flag, nvic, fifo, timer_level>>

\* FIFO_RD: an empty FIFO answers zero (ROE is left out).
Pop(c) ==
    /\ fifo[c] > 0
    /\ Execute(c, "FIFO_RD", "after")
    /\ fifo' = [fifo EXCEPT ![c] = @ - 1]
    /\ UNCHANGED <<sleep, event_flag, irq_pending, nvic, timer_level>>

PopEmpty(c) ==
    /\ fifo[c] = 0
    /\ Execute(c, "FIFO_RD", "after")
    /\ UNCHANGED <<sleep, event_flag, irq_pending, nvic, fifo, timer_level>>

\* SEV: sev_both stores core 0's flag, then core 1's.
Sev(c) ==
    /\ Execute(c, "SEV", "sev_second")
    /\ event_flag' = [event_flag EXCEPT ![0] = TRUE]
    /\ UNCHANGED <<sleep, irq_pending, nvic, fifo, timer_level>>

SevSecond(c) ==
    /\ pc[c] = "sev_second"
    /\ event_flag' = [event_flag EXCEPT ![1] = TRUE]
    /\ Goto(c, "after")
    /\ UNCHANGED <<quantum, clocks, sleep, irq_pending, nvic, fifo, timer_level>>

\* WFE: a latched event is consumed, else the core is parked.
Wfe(c) ==
    /\ Execute(c, "WFE", "after")
    /\ event_flag' = [event_flag EXCEPT ![c] = FALSE]
    /\ wfe_waiting' = [wfe_waiting EXCEPT ![c] = @ \/ ~event_flag[c]]
    /\ UNCHANGED <<halted, irq_pending, nvic, fifo, timer_level>>

\* WFI: halts unless a line is pending in the core's NVIC.
Wfi(c) ==
    /\ Execute(c, "WFI", "after")
    /\ halted' = [halted EXCEPT ![c] = nvic[c] = {}]
    /\ UNCHANGED <<wfe_waiting, event_flag, irq_pending, nvic, fifo, timer_level>>

\* The handler's write to TIMER INTR clears the alarm.
AckTimer(c) ==
    /\ timer_level
    /\ Execute(c, "INTR", "after")
    /\ timer_level' = FALSE
    /\ UNCHANGED <<sleep, event_flag, irq_pending, nvic, fifo>>

\* Any instruction that touches none of this.
Plain(c) ==
    /\ Execute(c, "other", "after")
    /\ UNCHANGED <<sleep, event_flag, irq_pending, nvic, fifo, timer_level>>

\* After the step: drain again, and leave the loop if the core is parked.
After(c) ==
    /\ pc[c] = "after"
    /\ Drain(c)
    /\ Goto(c, IF wfe_waiting[c] THEN "barrier" ELSE "loop")
    /\ UNCHANGED <<quantum, clocks, sleep, event_flag, fifo, timer_level>>

\* Fault: a core with nothing to run does not go to the barrier.
LoopEnd_Waits(c) ==
    /\ pc[c] = "loop" /\ ~CanStep(c)
    /\ UNCHANGED vars

LoopEnd(c) ==
    /\ pc[c] = "loop" /\ ~CanStep(c)
    /\ Goto(c, "barrier")
    /\ UNCHANGED <<quantum, clocks, sleep, event_flag, irq_pending, nvic, fifo,
                   timer_level>>

-----------------------------------------------------------------------------
(* coordinator_worker_body: the master clock and the alarms.               *)

\* Steps 4 and 5: the master clock advances, then poll_alarms: an armed alarm
\* may match now; a latched one is raised again.
Poll ==
    /\ pc[Coord] = "poll"
    /\ master_cycle' = master_cycle + StepQuantum
    /\ timer_level' \in {timer_level, TRUE}
    /\ Goto(Coord, IF timer_level' THEN "store0" ELSE "barrier")
    /\ UNCHANGED <<quantum, cycles, target, sleep, event_flag, irq_pending, nvic,
                   fifo>>

\* set_irq_pending stores the whole mask.
Store0 ==
    /\ pc[Coord] = "store0"
    /\ irq_pending' = [irq_pending EXCEPT ![0] = {Timer}]
    /\ Goto(Coord, "store1")
    /\ UNCHANGED <<quantum, clocks, sleep, event_flag, nvic, fifo, timer_level>>

Store1 ==
    /\ pc[Coord] = "store1"
    /\ irq_pending' = [irq_pending EXCEPT ![1] = {Timer}]
    /\ Goto(Coord, "barrier")
    /\ UNCHANGED <<quantum, clocks, sleep, event_flag, nvic, fifo, timer_level>>

-----------------------------------------------------------------------------
(* barrier.wait() at the tail of the quantum.                              *)

Arrived(w) == quantum[w] + (IF pc[w] = "barrier" THEN 1 ELSE 0)

Released(w) ==
    /\ pc[w] = "barrier"
    /\ \A u \in Worker : Arrived(u) > quantum[w]
    /\ quantum' = [quantum EXCEPT ![w] = @ + 1]
    /\ Goto(w, IF quantum'[w] = Quanta THEN "done" ELSE First(w))
    /\ UNCHANGED <<clocks, sleep, event_flag, irq_pending, nvic, fifo, timer_level>>

CoreStep(c) ==
    \/ TakeIrq(c) \/ Push(c) \/ PushFull(c) \/ Pop(c) \/ PopEmpty(c)
    \/ Sev(c) \/ Wfe(c) \/ Wfi(c) \/ AckTimer(c) \/ Plain(c)

CoreWorker(c) ==
    \/ Top(c) \/ TopDrain(c) \/ CoreStep(c) \/ PushEvent(c) \/ PushIrq(c)
    \/ SevSecond(c) \/ After(c) \/ LoopEnd(c) \/ Released(c)

Coordinator == Poll \/ Store0 \/ Store1 \/ Released(Coord)

Done == (\A w \in Worker : pc[w] = "done") /\ UNCHANGED vars

Next == (\E c \in Core : CoreWorker(c)) \/ Coordinator \/ Done

Spec == Init /\ [][Next]_vars

\* The host runs some worker that can go on; it need not be fair between them.
FairSpec == Spec /\ WF_vars(Next)

-----------------------------------------------------------------------------
(* Properties.                                                             *)

\* The shared and private state has its types, and the FIFOs their capacity.
TypeOK ==
    /\ \A c \in Core : pc[c] \in CorePoints
    /\ pc[Coord] \in CoordPoints
    /\ quantum \in [Worker -> 0 .. Quanta]
    /\ master_cycle \in Nat /\ cycles \in [Core -> Nat] /\ target \in [Core -> Nat]
    /\ halted \in [Core -> BOOLEAN]
    /\ wfe_waiting \in [Core -> BOOLEAN]
    /\ event_flag \in [Core -> BOOLEAN]
    /\ irq_pending \in [Core -> SUBSET Line]
    /\ nvic \in [Core -> SUBSET Line]
    /\ fifo \in [Core -> 0 .. FifoDepth]
    /\ timer_level \in BOOLEAN

\* The core runs in its quantum: it neither sleeps nor is halted.
Awake(c) == c \notin HaltedCores /\ ~halted[c] /\ ~wfe_waiting[c]

\* The clocks agree to within a quantum: no core, one that runs a backlog
\* included, is ever a quantum and an instruction ahead of the master clock,
\* and one that is awake as it comes to the barrier is no quantum behind it.
ClocksAgree ==
    \A c \in Core :
      /\ cycles[c] < master_cycle + StepQuantum + MaxCost
      /\ pc[c] = "barrier" /\ Awake(c) => cycles[c] + StepQuantum >= master_cycle

\* A timer interrupt published in a quantum is in the core's NVIC when the
\* core executes the first instruction of the next: its latency is bounded by
\* the quantum although nothing orders the workers inside one.
TimerLatency ==
    \A c \in Core :
      /\ pc[c] = "loop"
      /\ pc[Coord] = "poll" /\ quantum[Coord] = quantum[c]
      => Timer \notin irq_pending[c]

\* An event does not wait on a parked core, if it has a quantum left: the core
\* is unparked at its top, unless the instruction the core still runs while it
\* is parked is a WFE, which takes the event.
EventServed ==
    \A c \in Core :
      wfe_waiting[c] /\ event_flag[c] /\ quantum[c] + 1 < Quanta
      ~> ~wfe_waiting[c] \/ (pc[c] = "after" /\ ~event_flag[c])

\* Every worker completes every quantum: nobody waits for ever at the barrier.
AllDone == <>(\A w \in Worker : pc[w] = "done")

-----------------------------------------------------------------------------
(* What the comments say of the threaded path and it does not do.          *)

\* atomics.rs and bus.rs: a pending bit is published with an or and leaves the
\* mask only by the swap that merges it into the core's NVIC.
PendingIsMerged ==
    [][\A c \in Core : irq_pending[c] \subseteq irq_pending'[c] \cup nvic'[c]]_vars

\* atomics.rs: a core asleep on WFE will resume when its event flag is set.
EventUnparks ==
    \A c \in Core :
      wfe_waiting[c] /\ event_flag[c] /\ quantum[c] + 1 < Quanta
      ~> ~wfe_waiting[c]
=============================================================================
