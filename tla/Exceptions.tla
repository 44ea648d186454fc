----------------------------- MODULE Exceptions -----------------------------
(***************************************************************************)
(* Exceptions on one core of the RP2040 emulator: the poll before each     *)
(* instruction, entry, return with its tail chain, and synchronous faults  *)
(* (rp2040-emu/src/core/mod.rs, core/exceptions.rs), over the pending      *)
(* latches of the NVIC and the PPB (core/nvic.rs, bus/ppb.rs), and the     *)
(* part of Emulator::step that feeds and wakes the core (lib.rs).          *)
(*                                                                         *)
(* Of a stack frame only the exception number in its xPSR is kept: it is   *)
(* what decides the mode a return goes back to.  Firmware runs any         *)
(* instructions, but its handlers are well behaved: one returns with the   *)
(* EXC_RETURN it was given when its frame is on top of the stack, and an   *)
(* interrupt handler first silences its source.  Priorities do not change. *)
(***************************************************************************)
EXTENDS Integers, Sequences, SequencesExt

CONSTANTS
    Irq,        \* exception numbers of the external interrupts
    Priority,   \* of each asynchronous exception; the lower goes first
    Vectors,    \* the sets of exceptions whose vector may lack the T bit
    SvcFrom,    \* the modes from which firmware uses SVC
    MaxOps,     \* bound: SVC, faults, pends, masks and sleeps of the firmware
    MaxRaise,   \* bound: interrupts of the peripherals
    MaxFrames   \* bound: frames on the stack; bad vectors leave theirs there

Thread    == 0
HardFault == 3
SVCall    == 11
System    == {14, 15}       \* PendSV and SysTick
Async     == System \cup Irq
Exception == {HardFault, SVCall} \cup Async
Mode      == {Thread} \cup Exception
Fault     == {"none", "Svc", "HardFault"}

ASSUME ExceptionsAssumption ==
    /\ Irq \subseteq {e \in Nat : e >= 16}
    /\ Priority \in [Async -> Nat]
    /\ Vectors \subseteq SUBSET Exception /\ SvcFrom \subseteq Mode
    /\ MaxOps \in Nat /\ MaxRaise \in Nat /\ MaxFrames \in Nat

\* The active bitmap holds no exception twice: neither handler may use SVC.
ASSUME SvcAssumption == SvcFrom \cap {HardFault, SVCall} = {}

VARIABLES
    cpu,        \* what entry and return change, see State
    bad,        \* exceptions whose vector lacks the T bit
    primask,
    enabled,    \* NVIC_ISER
    raised,     \* interrupts whose peripheral condition holds
    ops, raises

vars == <<cpu, bad, primask, enabled, raised, ops, raises>>

Frame == [from : Mode, to : Exception]
State == [ipsr    : Mode,
          frames  : Seq(Frame),             \* the stack, `to' is a ghost
          active  : SUBSET Exception,       \* Ppb.active
          pend    : SUBSET Async,           \* ICSR and NVIC_ISPR
          pending_fault : Fault,
          halted  : BOOLEAN]                \* by WFI or by a lockup

TypeOK ==
    /\ cpu \in State
    /\ bad \in Vectors
    /\ primask \in BOOLEAN
    /\ enabled \subseteq Irq /\ raised \subseteq Irq
    /\ ops \in 0 .. MaxOps /\ raises \in 0 .. MaxRaise

Init ==
    /\ cpu = [ipsr |-> Thread, frames |-> <<>>, active |-> {}, pend |-> {},
              pending_fault |-> "none", halted |-> FALSE]
    /\ bad \in Vectors
    /\ primask = FALSE /\ enabled = {} /\ raised = {}
    /\ ops = 0 /\ raises = 0

-----------------------------------------------------------------------------
(* Entry and return, as functions of the core's state.                     *)

\* enter_exception: the frame is pushed before the vector is looked at.  A
\* vector without the T bit stages a HardFault; for the HardFault itself, as
\* for a HardFault in its own handler, the core locks up.
Enter(s, e) ==
    LET pushed == [s EXCEPT !.frames = Append(@, [from |-> s.ipsr, to |-> e])]
    IN  IF e = HardFault /\ s.ipsr = HardFault THEN [s EXCEPT !.halted = TRUE]
        ELSE IF e \notin bad
             THEN [pushed EXCEPT !.ipsr = e, !.active = @ \cup {e}]
        ELSE IF e = HardFault THEN [pushed EXCEPT !.halted = TRUE]
        ELSE [pushed EXCEPT !.pending_fault = "HardFault"]

Candidates(s) == s.pend \cap (System \cup enabled)

Before(e, f) == \/ Priority[e] < Priority[f]
                \/ Priority[e] = Priority[f] /\ e < f

\* Fault: the line of an interrupt is taken for its exception number.
Highest_Line(s) ==
    LET e == CHOOSE e \in Candidates(s) :
                \A f \in Candidates(s) \ {e} : Before(e, f)
    IN  IF e \in Irq THEN e - 16 ELSE e

Highest(s) == CHOOSE e \in Candidates(s) :
                 \A f \in Candidates(s) \ {e} : Before(e, f)

\* Fault: a handler may be interrupted by any other exception.
CanTake_Preempts(s) == ~primask /\ Candidates(s) # {}

\* No exception is taken while any is active, whatever its priority.
CanTake(s) == ~primask /\ Candidates(s) # {} /\ s.active = {}

\* Fault: the pending latch stays set.
TakeAny_NotCleared(s) == IF CanTake(s) THEN Enter(s, Highest(s)) ELSE s

\* try_take_any_pending_exception.
TakeAny(s) ==
    IF CanTake(s)
    THEN Enter([s EXCEPT !.pend = @ \ {Highest(s)}], Highest(s))
    ELSE s

\* Fault: the exception that is returned to is no longer active.
Exit_ClearsRestored(s) ==
    TakeAny([s EXCEPT !.ipsr = Last(s.frames).from, !.frames = Front(@),
                      !.active = @ \ {Last(s.frames).from}])

\* exit_exception: the outgoing exception leaves the active set, and the next
\* one may be entered at once.
Exit(s) ==
    TakeAny([s EXCEPT !.ipsr = Last(s.frames).from, !.frames = Front(@),
                      !.active = @ \ {s.ipsr}])

\* deliver_fault: SVC is a HardFault where PRIMASK blocks it.
Deliver(s) ==
    IF s.pending_fault = "none" THEN s
    ELSE Enter([s EXCEPT !.pending_fault = "none"],
               IF s.pending_fault = "Svc" /\ ~primask THEN SVCall ELSE HardFault)

-----------------------------------------------------------------------------
(* CortexM0Plus::step: an exception is taken, or an instruction executed   *)
(* and then the fault delivered that it raised or that was staged.         *)

Take ==
    /\ ~cpu.halted /\ CanTake(cpu) /\ Len(cpu.frames) < MaxFrames
    /\ cpu' = TakeAny(cpu)
    /\ UNCHANGED <<bad, primask, enabled, raised, ops, raises>>

\* The core executes an instruction that makes its state s.
Execute(s) ==
    /\ ~cpu.halted /\ ~CanTake(cpu)
    /\ cpu' = Deliver(s)
    /\ UNCHANGED <<bad, raises>>

\* A load, a store, a branch: only a staged fault makes a difference.
Other ==
    /\ Execute(cpu)
    /\ UNCHANGED <<primask, enabled, raised, ops>>

\* BX or POP with the EXC_RETURN of the exception whose frame is on top.
Return ==
    /\ cpu.ipsr # Thread /\ Last(cpu.frames).to = cpu.ipsr
    /\ Len(cpu.frames) < MaxFrames
    /\ cpu.ipsr \notin raised
    /\ Execute(Exit(cpu))
    /\ UNCHANGED <<primask, enabled, raised, ops>>

\* An interrupt handler silences its source.
Acknowledge ==
    /\ cpu.ipsr \in raised
    /\ Execute(cpu)
    /\ raised' = raised \ {cpu.ipsr}
    /\ UNCHANGED <<primask, enabled, ops>>

Special == ops < MaxOps /\ ops' = ops + 1

\* SVC, or an instruction that faults; either takes the place of a fault that
\* was staged.
Raise(fault) ==
    /\ Special
    /\ fault = "Svc" => cpu.ipsr \in SvcFrom
    /\ Execute([cpu EXCEPT !.pending_fault = fault])
    /\ UNCHANGED <<primask, enabled, raised>>

\* A store to ICSR or NVIC_ISPR.
Pend(e) ==
    /\ Special
    /\ Execute([cpu EXCEPT !.pend = @ \cup {e}])
    /\ UNCHANGED <<primask, enabled, raised>>

\* NVIC_ISER and NVIC_ICER.
SetEnabled(e, on) ==
    /\ Special
    /\ Execute(cpu)
    /\ enabled' = IF on THEN enabled \cup {e} ELSE enabled \ {e}
    /\ UNCHANGED <<primask, raised>>

\* CPSID, outside of handlers.
Mask ==
    /\ Special /\ ~primask
    /\ cpu.ipsr = Thread
    /\ Execute(cpu)
    /\ primask' = TRUE
    /\ UNCHANGED <<enabled, raised>>

\* CPSIE.
Unmask ==
    /\ primask
    /\ Execute(cpu)
    /\ primask' = FALSE
    /\ UNCHANGED <<enabled, raised, ops>>

\* halt(): a fault that was staged is dropped.
Halt(s) == [s EXCEPT !.halted = TRUE, !.pending_fault = "none"]

\* WFI only sleeps with no interrupt pending; it does not look at ICSR.
Wfi ==
    /\ Special
    /\ Execute(IF cpu.pend \cap enabled = {} THEN Halt(cpu) ELSE cpu)
    /\ UNCHANGED <<primask, enabled, raised>>

-----------------------------------------------------------------------------
(* The emulator around the core.                                           *)

\* A peripheral raises its interrupt.
RaiseIrq(e) ==
    /\ raises < MaxRaise /\ raises' = raises + 1
    /\ raised' = raised \cup {e}
    /\ UNCHANGED <<cpu, bad, primask, enabled, ops>>

\* The core's SysTick reaches zero; it counts the cycles the core consumes.
TickSysTick ==
    /\ raises < MaxRaise /\ raises' = raises + 1
    /\ ~cpu.halted
    /\ cpu' = [cpu EXCEPT !.pend = @ \cup {15}]
    /\ UNCHANGED <<bad, primask, enabled, raised, ops>>

\* The tail of a quantum: conditions that hold are pending again.
Drain ==
    /\ cpu' = [cpu EXCEPT !.pend = @ \cup raised]
    /\ UNCHANGED <<bad, primask, enabled, raised, ops, raises>>

\* wake_checks does not tell WFI from a lockup.
Wake ==
    /\ cpu.halted /\ cpu.pend \cap enabled # {}
    /\ cpu' = [cpu EXCEPT !.halted = FALSE]
    /\ UNCHANGED <<bad, primask, enabled, raised, ops, raises>>

-----------------------------------------------------------------------------
Next ==
    \/ Take \/ Other \/ Return \/ Acknowledge
    \/ \E fault \in Fault \ {"none"} : Raise(fault)
    \/ \E e \in Async : Pend(e)
    \/ \E e \in Irq, on \in BOOLEAN : SetEnabled(e, on)
    \/ Mask \/ Unmask \/ Wfi
    \/ \E e \in Irq : RaiseIrq(e)
    \/ TickSysTick \/ Drain \/ Wake

Spec == Init /\ [][Next]_vars

\* The emulator steps the core and ends its quanta; firmware's handlers do
\* their work and return, and its critical sections end.
Fairness ==
    /\ WF_vars(Take) /\ WF_vars(Other) /\ WF_vars(Drain) /\ WF_vars(Wake)
    /\ WF_vars(Acknowledge) /\ WF_vars(Return) /\ WF_vars(Unmask)

FairSpec == Spec /\ Fairness

-----------------------------------------------------------------------------
(* Properties.                                                             *)

\* The active bitmap, which alone decides whether an exception may be taken,
\* is the set of exceptions that were entered and have not returned, through
\* faults in handlers, tail chains, bad vectors and lockups that an interrupt
\* ends (mark_active, clear_active).  Firmware must not use SVC in the SVC or
\* the HardFault handler: the bitmap holds no exception twice.
ActiveIsNest ==
    cpu.active = ({cpu.ipsr} \cup {cpu.frames[i].from : i \in DOMAIN cpu.frames})
                     \ {Thread}

\* PendSV, SysTick and interrupts are only entered from thread mode: on the
\* stack they are the outermost exception, so an interrupt handler never runs
\* inside another, although a return takes the next exception by itself.
HandlersDoNotNest ==
    \A i \in DOMAIN cpu.frames :
        cpu.frames[i].to \in Async => cpu.frames[i].from = Thread

\* With good vectors, a peripheral that raises an enabled interrupt gets its
\* handler, past sleep, lockup, critical sections and faults, although the
\* latch it pends is cleared on entry and set again by a condition that was
\* already served; PendSV and SysTick are taken unless the core sleeps.
PendedIsTaken ==
    bad = {} =>
        /\ \A e \in Irq : e \in raised \cap enabled ~> e \notin raised \cap enabled
        /\ \A e \in System : e \in cpu.pend ~> e \notin cpu.pend \/ cpu.halted
=============================================================================
