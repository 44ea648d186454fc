---------------------------- MODULE ThreadedRun ----------------------------
(***************************************************************************)
(* Runs of the RP2040 emulator in its threaded mode, one after another:    *)
(* Emulator::run and run_quantum (rp2040-emu/src/lib.rs), the promotion on *)
(* the first of them, and ThreadedEmulator::run_quanta_checked with its    *)
(* three workers (threaded/emulator.rs).  Each call hands the cores and    *)
(* the PIO blocks to new threads, joins them, and turns a panic or a       *)
(* barrier timeout into an error that every later call repeats.            *)
(*                                                                         *)
(* What the threads do to the pins and the PIO is ThreadedPads; what they  *)
(* do to the interrupt masks, event flags and FIFOs is ThreadedQuantum,    *)
(* which follows one call.  The barrier is its abstraction again: `arrived'*)
(* is emptied when the last worker arrives.  A worker may panic wherever   *)
(* its code can, and a waiter's deadline may pass whenever it waits, even  *)
(* when it has already been released (SpinBarrier).                        *)
(***************************************************************************)
EXTENDS ThreadedPads

CONSTANTS
    Quanta,     \* the numbers of quanta a call may ask for
    MaxCalls,   \* bound: calls of run
    MaxOps,     \* bound: register accesses of each core
    Firmware,   \* the accesses of each core's firmware
    Operand,    \* operands of the SIO divider
    Seed        \* the operand it holds at the promotion

Core   == {"Core0", "Core1"}
Coord  == "Coord"
Worker == Core \cup {Coord}

Access == {"GPIO_OUT", "GPIO_OE", "PIO_CTRL", "DIV"}
Reply  == [kind : {"none", "ok"}] \cup [kind : {"panic", "timeout"}, which : Worker]
Ok     == [kind |-> "ok"]
NoReply == [kind |-> "none"]

ASSUME RunAssumption ==
    /\ Quanta \subseteq Nat /\ MaxCalls \in Nat /\ MaxOps \in Nat
    /\ Firmware \in [Core -> SUBSET Access] /\ Seed \in Operand

VARIABLES
    promoted,   \* Emulator.threaded is Some
    error,      \* panic_info and timeout_info, in one
    reply,      \* what the last call returned
    elapsed,    \* quanta the callers were told of
    calls,
    home,       \* core0, core1, pio_blocks: those that are Some
    poisoned,   \* ThreadedEmulator.poisoned
    n,          \* quanta of the call in flight
    pc,         \* where each worker is
    quantum,    \* quanta each worker has completed in this call
    arrived,    \* the barrier's round
    broken,     \* SpinBarrier.poisoned
    timed_out,  \* SpinBarrier.timed_out
    clock,      \* master_cycle, in quanta
    ops,        \* accesses each core has made
    divider,    \* the divider of each core's WorkerBus
    dividers,   \* SharedState.dividers
    divided     \* ghost: the operand each core wrote last

hostVars  == <<promoted, error, reply, elapsed, calls, home, poisoned, n>>
meetVars  == <<arrived, broken, timed_out>>
coreVars  == <<ops, divider, dividers, divided>>
vars == <<padVars, hostVars, meetVars, coreVars, pc, quantum, clock>>

CorePoints  == {"none", "run", "arrive", "wait", "ended", "panicked"}
CoordPoints == {"none", "drain", "step", "loadOut", "loadOe", "storeOut",
                "storeOe", "end", "arrive", "wait", "ended",
                "panicked"}

TypeOK ==
    /\ PadTypeOK
    /\ promoted \in BOOLEAN /\ poisoned \in BOOLEAN
    /\ error \in Reply /\ reply \in Reply
    /\ elapsed \in Nat /\ clock \in Nat
    /\ calls \in 0 .. MaxCalls /\ n \in Quanta \cup {0}
    /\ home \subseteq Worker
    /\ \A c \in Core : pc[c] \in CorePoints
    /\ pc[Coord] \in CoordPoints
    /\ quantum \in [Worker -> 0 .. n]
    /\ arrived \subseteq Worker
    /\ broken \in BOOLEAN /\ timed_out \in BOOLEAN
    /\ ops \in [Core -> 0 .. MaxOps]
    /\ divider \in [Core -> Operand] /\ dividers \in [Core -> Operand]
    /\ divided \in [Core -> Operand]

Init ==
    /\ PadInit
    /\ promoted = FALSE /\ error = NoReply /\ reply = NoReply
    /\ elapsed = 0 /\ calls = 0 /\ n = 0
    /\ home = Worker
    /\ poisoned = FALSE
    /\ pc = [w \in Worker |-> "none"]
    /\ quantum = [w \in Worker |-> 0]
    /\ arrived = {} /\ broken = FALSE /\ timed_out = FALSE
    /\ clock = 0
    /\ ops = [c \in Core |-> 0]
    /\ divider = [c \in Core |-> Seed]
    /\ dividers = divider /\ divided = divider

-----------------------------------------------------------------------------
(* The caller.                                                             *)

Idle == \A w \in Worker : pc[w] = "none"
Running == {w \in Worker : pc[w] \notin {"none", "ended", "panicked"}}

First(w) == IF w = Coord THEN "drain" ELSE "run"

\* Emulator::run for k quanta: an earlier error is returned again at once;
\* otherwise the state is promoted if it was not, everything owned is handed
\* to three new threads with a new barrier, and each core's bus starts from
\* the saved divider.
Call(k) ==
    /\ Idle /\ calls < MaxCalls
    /\ calls' = calls + 1
    /\ IF error # NoReply
       THEN /\ reply' = error
            /\ UNCHANGED <<padVars, promoted, error, elapsed, home, poisoned,
                           n, meetVars, coreVars, pc, quantum, clock>>
       ELSE /\ promoted' = TRUE
            /\ IF promoted THEN UNCHANGED padVars ELSE PublishSeed
            /\ n' = k
            /\ home' = {}
            /\ pc' = [w \in Worker |-> IF k = 0 THEN "ended" ELSE First(w)]
            /\ quantum' = [w \in Worker |-> 0]
            /\ arrived' = {} /\ broken' = FALSE /\ timed_out' = FALSE
            /\ divider' = dividers
            /\ UNCHANGED <<error, reply, elapsed, poisoned, ops, dividers,
                           divided, clock>>

Index == [Core0 |-> 0, Core1 |-> 1, Coord |-> 2]
Panicked == {w \in Worker : pc[w] = "panicked"}

\* Fault: a timeout of the run is looked at before its panics.
Outcome_TimeoutFirst ==
    IF timed_out THEN [kind |-> "timeout", which |-> Coord]
    ELSE IF Panicked # {}
         THEN [kind |-> "panic",
               which |-> CHOOSE w \in Panicked :
                            \A v \in Panicked : Index[w] <= Index[v]]
         ELSE Ok

\* The first panic in worker order hides the others and any timeout; a
\* timeout is put down to the coordinator.
Outcome ==
    IF Panicked # {}
    THEN [kind |-> "panic",
          which |-> CHOOSE w \in Panicked :
                       \A v \in Panicked : Index[w] <= Index[v]]
    ELSE IF timed_out THEN [kind |-> "timeout", which |-> Coord] ELSE Ok

\* Fault: a timeout is returned but not kept in timeout_info.
Join_TimeoutNotKept ==
    /\ ~Idle /\ Running = {}
    /\ home' = home \cup {w \in Worker : pc[w] = "ended"}
    /\ reply' = Outcome
    /\ error' = IF Outcome.kind = "panic" THEN Outcome ELSE error
    /\ poisoned' = (Outcome # Ok)
    /\ elapsed' = IF Outcome = Ok THEN elapsed + n ELSE elapsed
    /\ pc' = [w \in Worker |-> "none"]
    /\ UNCHANGED <<padVars, promoted, calls, n, quantum, meetVars, coreVars,
                   clock>>

\* All three threads have ended: what came back is owned again.
Join ==
    /\ ~Idle /\ Running = {}
    /\ home' = home \cup {w \in Worker : pc[w] = "ended"}
    /\ reply' = Outcome
    /\ error' = IF Outcome = Ok THEN error ELSE Outcome
    /\ poisoned' = (Outcome # Ok)
    /\ elapsed' = IF Outcome = Ok THEN elapsed + n ELSE elapsed
    /\ pc' = [w \in Worker |-> "none"]
    /\ UNCHANGED <<padVars, promoted, calls, n, quantum, meetVars, coreVars,
                   clock>>

-----------------------------------------------------------------------------
(* The barrier at the tail of a quantum.                                   *)

\* Fault: the divider is not written back.
Return_Unsaved(w) ==
    /\ pc' = [pc EXCEPT ![w] = "ended"]
    /\ UNCHANGED dividers

\* The worker has run all its quanta: a core saves its divider.
Return(w) ==
    /\ pc' = [pc EXCEPT ![w] = "ended"]
    /\ IF w \in Core
       THEN dividers' = [dividers EXCEPT ![w] = divider[w]]
       ELSE UNCHANGED dividers

\* Fault: the quanta are counted down, from zero.
NextQuantum_Down(w) ==
    /\ quantum' = [quantum EXCEPT ![w] = @ - 1]
    /\ pc' = [pc EXCEPT ![w] = First(w)]
    /\ UNCHANGED dividers

\* A worker that is released goes on to its next quantum, if there is one.
NextQuantum(w) ==
    /\ quantum' = [quantum EXCEPT ![w] = @ + 1]
    /\ IF quantum[w] + 1 = n
       THEN Return(w)
       ELSE /\ pc' = [pc EXCEPT ![w] = First(w)]
            /\ UNCHANGED dividers

Last(w) == IF w = Coord THEN "end" ELSE "run"

Goto(w, point) == pc' = [pc EXCEPT ![w] = point]

\* Fault: a worker that finds the barrier poisoned waits for it again.
Enter_Again(w) ==
    /\ pc[w] = Last(w) /\ ~broken
    /\ Goto(w, "arrive")
    /\ UNCHANGED <<padVars, hostVars, meetVars, coreVars, quantum, clock>>

\* wait looks at the poison flag first: a worker that finds it set returns
\* what it owns, and nothing is saved.
Enter(w) ==
    /\ pc[w] = Last(w)
    /\ Goto(w, IF broken THEN "ended" ELSE "arrive")
    /\ UNCHANGED <<padVars, hostVars, meetVars, coreVars, quantum, clock>>

Arrive(w) ==
    /\ pc[w] = "arrive"
    /\ IF arrived \cup {w} = Worker
       THEN arrived' = {} /\ NextQuantum(w)
       ELSE /\ arrived' = arrived \cup {w}
            /\ Goto(w, "wait")
            /\ UNCHANGED <<quantum, dividers>>
    /\ UNCHANGED <<padVars, hostVars, broken, timed_out, ops, divider, divided,
                   clock>>

\* The round is over when w is no longer among those waited for.
Released(w) ==
    /\ pc[w] = "wait" /\ w \notin arrived
    /\ NextQuantum(w)
    /\ UNCHANGED <<padVars, hostVars, meetVars, ops, divider, divided, clock>>

SentAway(w) ==
    /\ pc[w] = "wait" /\ broken
    /\ Goto(w, "ended")
    /\ UNCHANGED <<padVars, hostVars, meetVars, coreVars, quantum, clock>>

\* trip_watchdog.
Timeout(w) ==
    /\ pc[w] = "wait"
    /\ timed_out' = TRUE /\ broken' = TRUE
    /\ Goto(w, "ended")
    /\ UNCHANGED <<padVars, hostVars, arrived, coreVars, quantum, clock>>

\* spawn_worker catches the panic, poisons the barrier and raises it again.  A
\* core may panic in any instruction, the coordinator while it applies the
\* commands, steps the block or ticks the peripherals, but not in the merge.
Panic(w) ==
    /\ pc[w] \in {"run", "drain", "step", "end"}
    /\ broken' = TRUE
    /\ Goto(w, "panicked")
    /\ UNCHANGED <<padVars, hostVars, arrived, timed_out, coreVars, quantum,
                   clock>>

-----------------------------------------------------------------------------
(* What the workers do in a quantum.                                       *)

\* The quantum w is in, counted from the promotion.
Now(w) == elapsed + quantum[w]

CoreAccess(c, kind) ==
    /\ pc[c] = "run" /\ ops[c] < MaxOps /\ kind \in Firmware[c]
    /\ ops' = [ops EXCEPT ![c] = @ + 1]
    /\ UNCHANGED <<hostVars, meetVars, dividers, pc, quantum, clock>>

WriteGpioOut(c) ==
    /\ CoreAccess(c, "GPIO_OUT")
    /\ \E p \in Pin, on \in BOOLEAN : WriteOut(p, on)
    /\ UNCHANGED <<divider, divided>>

WriteGpioOe(c) ==
    /\ CoreAccess(c, "GPIO_OE")
    /\ \E p \in Pin, on \in BOOLEAN : WriteOe(p, on)
    /\ UNCHANGED <<divider, divided>>

WritePioCtrl(c) ==
    /\ CoreAccess(c, "PIO_CTRL")
    /\ \E val \in SUBSET Sm : SendCtrl(val, Now(c))
    /\ UNCHANGED <<divider, divided>>

WriteDivider(c) ==
    /\ CoreAccess(c, "DIV")
    /\ \E d \in Operand \ {divider[c]} :
          /\ divider' = [divider EXCEPT ![c] = d]
          /\ divided' = [divided EXCEPT ![c] = d]
    /\ UNCHANGED padVars

CoordStep(from, to) ==
    /\ pc[Coord] = from
    /\ Goto(Coord, to)
    /\ UNCHANGED <<hostVars, meetVars, coreVars, quantum>>

\* coordinator_worker_body, in its order; the clock moves on with the last
\* store of the merge.
Coordinate ==
    \/ CoordStep("drain", "step") /\ Drain /\ UNCHANGED clock
    \/ CoordStep("step", "loadOut") /\ StepBlock /\ UNCHANGED clock
    \/ CoordStep("loadOut", "loadOe") /\ LoadOut /\ UNCHANGED clock
    \/ CoordStep("loadOe", "storeOut") /\ LoadOe /\ UNCHANGED clock
    \/ CoordStep("storeOut", "storeOe") /\ StoreOut /\ UNCHANGED clock
    \/ CoordStep("storeOe", "end") /\ StoreOe /\ clock' = clock + 1

-----------------------------------------------------------------------------
CoreRuns(c) == WriteGpioOut(c) \/ WriteGpioOe(c) \/ WritePioCtrl(c) \/ WriteDivider(c)

Meets(w) == Enter(w) \/ Arrive(w) \/ Released(w) \/ SentAway(w) \/ Timeout(w)

Calls == \E k \in Quanta : Call(k)

Next ==
    \/ Calls
    \/ Join
    \/ Coordinate
    \/ \E c \in Core : CoreRuns(c)
    \/ \E w \in Worker : Meets(w) \/ Panic(w)

Spec == Init /\ [][Next]_vars

\* Every worker thread is scheduled, and a waiter's deadline passes: each
\* worker goes on as long as it can.  The caller joins threads that have
\* ended; it need not call again.
Fairness ==
    /\ \A w \in Worker : WF_vars(Meets(w))
    /\ WF_vars(Coordinate)
    /\ WF_vars(Join)

FairSpec == Spec /\ Fairness

-----------------------------------------------------------------------------
(* Properties.                                                             *)

\* As long as no call has failed, a call finds everything as the last one
\* should have left it: neither the poisoned assertion nor an
\* expect("run_quanta reentry") of run_quanta_checked can fire, and the quanta
\* the caller was told of, the coordinator's clock and the quanta of all
\* workers agree, however the last round of the call ended.
OkIsComplete ==
    Idle /\ error = NoReply =>
        /\ ~poisoned /\ home = Worker
        /\ clock = elapsed
        /\ reply = Ok => \A w \in Worker : quantum[w] = n

\* A call in which a worker panicked returns that panic, of the first worker
\* in index order, and never Ok or a timeout, although the others then leave
\* the barrier in any of three ways (run_quanta_checked, first_panic).
PanicIsReported ==
    [][Panicked # {} /\ Idle' =>
          /\ error'.kind = "panic"
          /\ error'.which \in Panicked
          /\ \A w \in Panicked : Index[error'.which] <= Index[w]]_vars

\* The SIO divider is private to a worker's bus and outlives it: a core that
\* is in a call, or between calls that all succeeded, finds the operand it
\* wrote last (save_divider_state, WorkerBus::new).
DividerSurvives ==
    \A c \in Core :
        /\ Idle /\ error = NoReply => dividers[c] = divided[c]
        /\ pc[c] \in {"run", "arrive", "wait"} => divider[c] = divided[c]

\* A CTRL write waits for the coordinator at most one quantum: when it has
\* drained the queue in quantum q, what is left was written in q or later.
\* And an enabled block is stepped in every quantum but the one in which its
\* enable is drained; one enabled before the promotion in the first quantum
\* too, although step_n is gated by the mask published a quantum ago
\* (coordinator_worker_body, from_emulator).
CommandsTakeEffect ==
    /\ pc[Coord] \notin {"none", "ended", "panicked"} =>
          \A i \in DOMAIN commands :
              commands[i].quantum >= IF pc[Coord] = "drain"
                                     THEN Now(Coord) - 1 ELSE Now(Coord)
    /\ starved <= 1

\* GPIO_OUT and GPIO_OE hold what a core wrote last for every pin, but where
\* the coordinator's merge took the place of the write: a write between its
\* load and its store, a pin the PIO drove, or the level of a pin that was
\* not an output (sio_write32 against the merge of coordinator_worker_body).
GpioWriteSticks == out = held.out /\ oe = held.oe

\* Whatever a worker does, a call returns: a panic or a passed deadline sends
\* the others away from the barrier and the joins end (run_quanta_checked).
CallReturns == [](~Idle => <>Idle)
=============================================================================
