# A verification of picoem-picocalc in TLA+

picoem-picocalc is an RP2040 / RP2350 emulator in Rust with device models of the
PicoCalc board. This directory holds TLA+ models of its concurrent and
protocol-bearing parts, the TLC configurations that check them on small
instances, and proofs, checked by TLAPS, for every instance. Paths below are
relative to `src/crates/`.

## The system

| Component | State it keeps | Operations | Talks to |
|---|---|---|---|
| `SpinBarrier`, `spawn_worker` (`picoem-common/src/threaded/{barrier,worker}.rs`) | `generation`, `count`, `poisoned`, `timed_out`, `timeout_elapsed_ms`, the mutex and condition variable | `wait` (spin, then park, with a watchdog), `poison`; a worker's body runs under `catch_unwind` and poisons on a panic | all workers of a threaded emulator |
| `SpscQueue` (`.../spsc.rs`) | `head`, `tail`, the slots | `try_push`, `try_pop`, `is_full`, `is_empty`, `clear` | two core workers (inter-core FIFO); coordinator and cores (RP2350 PIO) |
| RP2040 threaded emulator (`rp2040-emu/src/threaded/`) | per worker: core, NVIC, target cycle; shared: `CoreAtomics`, two FIFOs, TIMER, GPIO words, PIO command queue, memory | `promote`, `run_quanta_checked` with two core workers and a coordinator | barrier once per quantum; shared atomics in between |
| RP2040 serial emulator (`rp2040-emu/src/lib.rs`, `bus/sio.rs`) | two cores, event flags, inter-core FIFOs, launch handshake, quantum state | `step`, `run`, `step_until`, `halt_core1`, `wake_core1`, `reset` | bus, peripherals, host |
| RP2040 core (`core/`) | registers, halted bit, exception state, NVIC | fetch, decode, execute, exception entry and return, WFE / WFI / SEV | bus trait |
| TIMER, SysTick, PPB, resets, clocks, pads | register files, armed alarms | register reads and writes, `tick`, `poll_alarms` | bus, NVIC |
| DMA and DREQ | twelve channels, triggers, pacing | trigger, chain, tick, interrupt flags | bus, peripherals' DREQ lines |
| UART, SPI, I2C, ADC, PWM, watchdog, PSRAM | register files and FIFOs | register reads and writes, tick | bus, board devices |
| PIO (`picoem-common/src/pio/`) | four state machines a block, FIFOs, IRQ flags | decode, step, autopush, autopull | GPIO pads, bus |
| PicoCalc devices (`picocalc-board/`) | keyboard FIFO, SD command state, LCD controller | I2C, SPI and pin transactions | GPIO, SPI, I2C |
| RP2350 emulator (`rp2350-emu/`) | as RP2040's, with two instruction sets and a FPU | as RP2040's, with its own threaded runner | the same barrier and queue |
| Harnesses, TUIs, oracles, tracing, divider, pacer, memory | | tests, terminal front ends, observers, arithmetic | |

`PROJECT.json` gives the same list with each part's source files, status and
reason. What makes each part correct:

* **Barrier.** Nobody leaves a round early, however the counters wrap; no wake-up
  is lost; a failure is reported as what it was; every `wait()` returns.
* **Queue.** It is a bounded FIFO although the payload store is relaxed; a status
  that was read is still true when it is used.
* **Threaded emulator.** The cores' clocks stay within a quantum of the master
  clock, though cores are parked and instructions overshoot; interrupts and events that one worker publishes reach the other; a register or
  a command that one of them writes takes effect although the coordinator merges
  and drains once per quantum; a call returns whatever a worker does, with the
  right outcome, and leaves what the next call relies on.
* **Serial emulator.** The SDK's launch loop gets core 1 running with the right
  arguments from any state earlier traffic left; nobody sleeps beside a word.
* **Exceptions.** The active bitmap, which alone decides what may be taken,
  mirrors the stack; what is pended is taken, past sleeps, masks and faults.
* **DMA.** A run that is left alone is whole, however it was started; it ends, and
  its completion reaches the NVIC, although an idle DMA is not ticked.
* **SD card and SPI.** Words meet the chip select they were written under; reads
  return what was written; the driver is served again after any exchange it
  abandoned, by a time-out or by a reset.
* **TIMER, PIO, the other peripherals and devices.** Sequential register and
  instruction semantics, tested as such by the repository.

Hard behaviours: interleavings of three host threads between barriers; weak
memory in the queue; panics and deadlines at any point of a `wait()`; state that
survives a cut-short launch, a `halt_core1`, a `reset`, a failed call or an
abandoned exchange; events racing with the test before a sleep; latches that are
cleared by one party and set again by another once per quantum. `PROJECT.json`
lists them as hazards, each at its line, with the properties that cover it or
the reason none does.

## Modules

    Rendezvous   <-- implemented by --  SpinBarrier  <-- SpinBarrierProofs
                                             ^
                                             +-- MCSpinBarrier (symmetry)

    ThreadedQuantum  <-- MCThreadedQuantum      ThreadedQuantum  <-- ThreadedQuantumProofs

    BoundedFifo  <-- implemented by --  SpscQueue    <-- SpscQueueProofs

    ThreadedPads <-- extended by -- ThreadedRun  <-- ThreadedRunProofs
                                         ^
                                         +-- MCThreadedRun

    CoreLaunch                      CoreLaunch   <-- CoreLaunchProofs
    Dma          <-- MCDma          Dma          <-- DmaProofs
    Exceptions   <-- MCExceptions   Exceptions   <-- ExceptionsProofs
    SdCard       <-- MCSdCard       SdCard       <-- SdCardProofs

Definitions whose name has a suffix after an underscore (`Arrive_OffByOne`) and
whose comment starts with "Fault" are plausible bugs in the code. No
specification uses them; each shows that a property notices such a bug.

### Rendezvous, SpinBarrier, SpinBarrierProofs

`SpinBarrier` has one action for each access to shared memory in `wait`,
`poison`, `trip_watchdog` and `poisoned_or_timed_out_result`; `pc` says which is
next. `LoadGen` and `Arrive` are the entry; `LockLast`, `Bump` and `Notify` the
last arriver's release; `SpinPoisoned`, `SpinReleased`, `SpinAgain` the spin
loop; `LockPark`, `Check...`, `Sleep`, `Wake...` the park loop; `Trip...`,
`Report...` and `Poison...` the failures. `Enter`, `Finish` and `Panic` are the
worker's body. A deadline may pass at any time inside a `wait()` (`Expire`), and a
sleeper may wake for no reason (`WakeSpurious`). Accesses under `park_mu` to
locations written only under `park_mu` are merged into one step. The history
variables `arrived`, `released` and `round` count rounds without wrapping.

`Rendezvous` says what the barrier is for: a round is left only when all have
reached it, and a worker leaves without being released only after a failure.

### SpscQueue, BoundedFifo, SpscQueueProofs

`try_push` is `PushBegin`, `PushStore`, `PushPublish`; `try_pop` is `PopBegin`,
`PopRead`, `PopPublish`. The relaxed payload store becomes visible in a step of
its own (`StoreVisible`), for which the release store of `head` waits. Indices
wrap at `IndexMod` and `Slot` is the mask. `ReadRdy` and `ReadVld` are `is_full`
and `is_empty` as `FIFO_ST` uses them. `BoundedFifo` is a queue with atomic
operations that refuses a push only when full and a pop only when empty.

### ThreadedQuantum

One `run_quanta_checked` call: `CoreWorker(c)` is `core_worker_body`,
`Coordinator` is `coordinator_worker_body`. `Top` and `TopDrain` are the top of a
quantum, `CoreStep` is one `core.step` (with a second step each for the later
stores of `FIFO_WR` and of `SEV`), `After` the drain behind it, `LoopEnd` the
`while` condition's exit. `Poll` is the master clock's advance and `poll_alarms`,
`Store0` and `Store1` publish the lines. `cycles`, `target` and `master_cycle` count
from the start of the call, as `target` does in the code, which each call sets to
where its core's counter is: an overshoot is carried from quantum to quantum and not
from call to call.

`Released` is a return from `wait()`. Its guard is the rule of the abstract
`Rendezvous`, that nobody leaves before all have arrived: it is an assumption about
the barrier here, and what `SpinBarrier` is checked and proved to provide. A panic or
a timeout is the subject of `SpinBarrier` and `ThreadedRun`, and does not occur here.

A call finds what `from_emulator` promoted and earlier calls left: `Leftover` names
the parts of that state which need not be clear (`LeftBehind`), and the proofs allow
all of them. `Firmware` gives the kinds of instruction of each core. The sticky bits
of `FIFO_ST`, which nothing here reads, are left out.

### CoreLaunch

The serial emulator's step loop runs core 0's instruction, then core 1's (`Turn`);
each iteration uses up any part of the quantum; `TailOfStep` is the interrupt
distribution and `wake_checks`. `FifoWr`, `HandshakeStep`, `Launch` and `PushTo` are
`Sio::fifo_wr`, `handshake_step`, `maybe_wake_core1` and the FIFO push with its
event. `Reset` and `HaltCore1` are host calls between two steps. Firmware is any
sequence of FIFO accesses, WFE, WFI and other instructions; from time to time
core 0 calls the SDK's `multicore_launch_core1_raw` and either core calls
`multicore_fifo_pop_blocking`. That SDK code is not in the repository: it is
modelled as the protocol the comments in `bus/sio.rs` describe, and marked
external in `PROJECT.json`.

Abstractions: one interrupt line stands for all; memory, registers and the sticky
bits of `FIFO_ST` are left out; an echo that finds no room is dropped, as in a
release build (a debug build asserts); `wake_core1` as a host call is left out.

### ThreadedRun, ThreadedPads

`ThreadedRun` is one `run` after another. `Call(k)` is `Emulator::run` with the
promotion on the first call: an earlier error is returned again, otherwise the
cores and PIO blocks leave `home` for three new threads (`pc`). `Join` is the end
of `run_quanta_checked`: what came back is owned again, and `Outcome` turns panics
and a timeout into the reply that `error` keeps. In between each worker runs the
barrier's entry (`Enter`), its rounds (`Arrive`, `Released`) and its three ways out
(`SentAway`, `Timeout`, `Panic`, the last at any point of a quantum). `NextQuantum`
and `Return` are the end of `core_worker_body`, which saves the divider. The
barrier is the abstract one, once more: `arrived` is emptied by the last arrival.

`ThreadedPads` has one action per shared access to the pins and the PIO: the
cores' atomic `WriteOut`, `WriteOe` and queued `SendCtrl`; the coordinator's `Drain`,
`StepBlock`, two loads and two stores. `ThreadedRun` says who runs when. One block
with one program stands for both; a stepped block drives its pins as it likes.
Other registers, commands and the FIFO snapshots are left out.

### Dma

A channel is its CTRL, two counts and BUSY, as in `DmaChannel`. `Triggered` is
`trigger_channel`, `Transfer` is `issue_transfer` with the end of a run, its interrupt
and its chain; `Tick` picks the channel. `EndOfQuantum` is the tail of
`step_serial_with_external`: nothing when PIO and DMA are idle, else one tick and
the routing of the line. `WriteTrigger`, `WriteCtrl`, `WriteCount`, `Abort`,
`ClearIntr`, `WriteInte` and `WriteIntf` are the registers, which firmware accesses
in any order between two ticks. The pacing DREQ is that of a PIO transmit FIFO
(`WriteFifo`, `Pull`), whose depth firmware changes by joining it (`JoinFifo`). With
FJOIN_RX the depth is zero: such a FIFO is never full, asks for data for ever and
drops every word, so a paced run to it ends as any other. Addresses, data, the sniffer and the pacing timers are left
out; so is a write to the DMA's own registers by a transfer, which `tick_dma` sends
to a placeholder. The two interrupt lines are alike, and one is modelled.

### Exceptions

`Enter`, `Exit`, `TakeAny` and `Deliver` are `enter_exception`, `exit_exception`,
`try_take_any_pending_exception` and `deliver_fault` as functions of the record `cpu`.
`Take` and `Execute` are the two halves of `CortexM0Plus::step`. Of a frame only the
exception number in its xPSR is kept. A vector without the Thumb bit stages a
HardFault (`bad`); `Halt` is `halt()`, by which a WFI drops one that was staged. `Drain`, `Wake` and `TickSysTick` are what `Emulator::step` does
around the core. Handlers are firmware, and well behaved: one silences its source
and returns with its own EXC_RETURN. Priorities are constants; two of them are
enough for either order against PendSV and SysTick.

### SdCard

`Taken` and `Miso` are `SdCard::transfer`: what a byte makes of the card and what it
answers. `BeginReply` is the command table, without CMD8, CMD16 and CMD58, which only
add longer replies. `EndOfQuantum` is `tick_peripherals` for one SPI controller: the
pins are sampled, then `n` words go out, for any `n` the quantum may have had time
for. `Push`, `Pop` and `Exchanged` are the data and status registers. The driver is
firmware, which is not in the repository: its exchanges follow the tests in
`sd_wire.rs`, its waits what `bus/mod.rs` says of the pico-sdk, and they are marked
external in `PROJECT.json`. `TimeOut` abandons a poll; `Reset` is
`Emulator::reset`, which keeps the board's card.

## Runs

| Run | Instance | Shows |
|---|---|---|
| `barrier_safety` | 3 workers, 2 quanta, counter of 2 values, spin budget 1, stride 2, two clock readings | `TypeOK`, `NoEarlyRelease`, `NoLostWakeup`, `PoisonedOnlyByPanic`, `TimeoutIsRecorded`, `FailureIsSticky`, `ImplementsRendezvous` |
| `barrier_liveness` | 2 workers, spin budget and stride 2 | `WaitReturns`, `AllExit` |
| `quantum` | 2 quanta, quantum of 1 cycle, instructions of 1 or 2 cycles, FIFOs of one word; core 0 sends words and events, sleeps on events and serves the TIMER, core 1 takes words and sleeps on events and interrupts | `TimerLatency`, `ClocksAgree`, `EventServed`, `AllDone` |
| `spsc` | 4 slots, index of 8 values, 2 words | `TypeOK`, `SlotsApart`, `StatusHolds`, `ImplementsFifo` |
| `core_launch` | FIFOs of 2 words, quanta of up to 2 cycles, 3 stray words, one host call, interrupts on core 0 | `WordWakes`, `LaunchIsOneAttempt`, `LaunchAgreement`, `LaunchReturns`, `LaunchedCoreRuns` |
| `threaded_run` | 2 calls of 2 quanta, one pin that the PIO drives too, one state machine, one access of each core | `TypeOK`, `OkIsComplete`, `DividerSurvives`, `CommandsTakeEffect`, `GpioWriteSticks`, `PanicIsReported`, `CallReturns` |
| `dma` | 2 channels, FIFO of one word, two or none, counts up to 2, 3 register accesses | `TypeOK`, `RunIsWhole`, `RunEnds`, `CompletionPends` |
| `exceptions` | 2 interrupts, 4 vector tables, 4 special instructions, 2 peripheral events, 5 frames | `TypeOK`, `ActiveIsNest`, `HandlersDoNotNest`, `PendedIsTaken` |
| `sd_card` | FIFOs of 2 words, blocks of 2 bytes, 2 blocks and an address past them, 3 operations, one time-out, one reset | `FramedByItsLines`, `ReadsWhatWasWritten`, `OperationsReturn` |
| `pending_is_merged` | as `quantum`, instructions of one cycle, with leftovers of an earlier call | `PendingIsMerged` fails |
| `event_unparks` | 3 quanta, core 0 does nothing but WFE, core 1 sends events | `EventUnparks` fails |
| `launch_finds_core_halted` | as `core_launch`, smaller | `LaunchFindsCoreHalted` fails |

The modules of `quantum`, `core_launch` and `sd_card` define a `TypeOK` that is
in no run of its own: it is proved.

Why the bounds are enough:

* *Barrier.* Three is the number of workers the emulators use. A generation
  counter of two values wraps in the second round: the worst width there is, for
  a waiter that misses one more bump would see its own generation again. One
  worker may be a round ahead of the others' return, which two rounds show. The
  safety run has the watchdog's stride above the spin budget, as the code has
  (1024 and 512), the liveness run within it, so that the test of the clock in the
  spin loop, dead code today, is checked as well.
* *Quantum.* Two quanta have a worker at each point of one while another is in the
  quantum before or after; a quantum of one cycle and instructions of two let a
  core cross its end and start the next with a debt. One word in a FIFO makes it
  full and empty in turn. A core parked in the first quantum, and an event sent to it
  there, have the second quantum to meet in. That the event may be taken by a WFE of
  the parked core needs one more, which `event_unparks` has.
* *Queue.* Four slots and eight indices make the ring and the index wrap, and put
  a full queue at every offset.
* *Launch.* The handshake has six words; three stray words bring the FSM to
  any point up to its fourth state before the launch loop starts; the loop itself, cut
  short by a reset or a halt, brings it to every other. FIFOs of two words overflow with
  three. `Commands` are the SDK's, with three distinct arguments.
* *Calls.* Two quanta put a worker in a later round than another; a second call
  shows what the first one left, failed or not. One pin that is an output of both
  a core and the PIO meets each case of the merge, which treats pins alike. One
  access of each core falls at any point of the coordinator's sequence.
* *DMA.* Two channels that chain to each other run for ever, and to themselves not
  at all; a count of two has a transfer that is not the last, of zero none. Three
  accesses reprogram a channel, trigger it and interfere with it.
* *Exceptions.* The deepest nest the code allows is interrupt, SVC, HardFault, then a
  lockup; two more frames hold what bad vectors leave behind. Each vector table of
  the four breaks another step of that nest.
* *SD card.* FIFOs of two words are shorter than a command frame, so that each is
  cut by a quantum anywhere. The bytes of a block look like a command and like the
  start token, the worst contents for a card that lost its place. Three operations
  are an abandoned one, one that meets its leftovers, and one more.

Symmetry over the workers is used in the safety run only, for the barrier treats
all alike.

### Fairness

* `SpinBarrier`: every thread that can take a step of `wait()` does, for
  `spawn_worker` pins each worker to a host core of its own; a thread that keeps
  finding `park_mu` free and taken gets it at last (strong fairness), because
  spurious wake-ups may take it in between. That the clock advances, or that each
  body comes to its end, does not go without saying: both are hypotheses inside
  the property that needs them. `WaitReturns` assumes the clock and not the
  bodies; `AllExit` the bodies and not the clock.
* `ThreadedQuantum`: weak fairness of the whole next-state relation. The host runs
  some worker that can go on, and need not be fair between them: a worker that is not
  run keeps the others waiting at the barrier, and then is the one that can go on.
* `ThreadedRun`: each thread is scheduled (weak), and a waiter's deadline passes;
  `CallReturns` assumes nothing of what the bodies do, and a caller need not call.
  That a core comes to the end of its quantum is part of this: its loop is bounded
  by the target cycle.
* `Dma`: the emulator's thread ends its quanta (weak). Firmware and the PIO program
  may stop for ever.
* `Exceptions`: the core is stepped and quanta end (weak, per action, for each is
  what the thread does next when enabled); handlers acknowledge and return, and
  critical sections end, which firmware owes.
* `SdCard`: the driver goes on, and a quantum's tail drains a controller that has
  words (weak), for such a controller is what makes the step take the slow path. Polls
  never time out by fairness: a time-out is a choice.
* `CoreLaunch`: the emulator's thread goes on (weak), and interrupts do not keep
  core 0 from its next instruction for ever (strong).
  `LaunchReturns` asks for room in the FIFO to core 1: without it `FIFO_ST` never
  reads RDY, and the launch loop hangs although the FSM would take the word.

## Proofs

Proved by TLAPS for every value of the constants that the named assumptions
allow.

`SpinBarrierProofs` (any finite set of at least two workers, any number of
quanta, any budget and stride, any counter of at least two values:
`ThreadAssumption`, `BoundAssumption`, `NobodyAssumption`): `TypeCorrect`,
`NoEarlyReleaseHolds`, `NoLostWakeupHolds`, `PoisonedOnlyByPanicHolds`,
`FailureStays`, `TimeoutIsRecordedHolds`, `BarrierImplementsRendezvous`.
`NoEarlyRelease` is not inductive:
that a spinner leaves only after the last has arrived follows from what
`generation`, `count` and the rounds have to do with each other. `BarrierInv` says
it: each worker has arrived in the current round or the one before (`RoundInv`);
the generation a waiter of this round holds is the current one (`GenInv`), so one
that differs means the round is over, whatever the width of the counter; `count`
is the number of workers in the round until the last one resets it (`CountInv`);
one worker at most is between "last to arrive" and the bump, and then all are in
the round (`LastInv`). `LockInv` makes the test of the park loop hold until the
sleep, which is `NoLostWakeup`, and `PoisonInv` orders the steps of a failure.
`TimeoutInv` adds that a reading is recorded before the flag goes up, and that a
worker is past its report with `TimedOut` only when the barrier is poisoned: that
is `TimeoutIsRecorded`.
The refinement follows: `Arrive` is the abstract arrival, each of the three
returns of `Released` the abstract release, `Panic`, `TripFlag` and `ReportPoisoned`
and `ReportMs` breaking and leaving, all else stutters.

`SpscQueueProofs` (any capacity that divides an index range larger than it:
`CapacityAssumption`, `NoWordAssumption`): `TypeCorrect`, `SlotsApartHolds`,
`StatusHoldsAlways`, `RingImplementsFifo`. The lemmas at its beginning are about
`%`: two indices less than a lap apart have different slots, and the slot after
a wrap of the index is the one after. `RingInv` adds to the types that the
wrapping difference of the indices is at most the capacity, that a payload in
flight is the one being pushed, that a slot between tail and head holds a word,
and that what a pop took is still in its slot. `PushPublish` is then the abstract
push and `PopPublish` the abstract pop.

`DmaProofs` (any number of channels, any depth and set of counts:
`DmaAssumption`): `TypeCorrect`, `RunsAreWhole`. That a run
makes as many transfers as firmware wrote needs `RunInv`, about a channel that was
left alone: its reload count is what was written; while it is busy the transfers
made and the count left add up to that; when it is idle the count is all of it, or
zero after a run, which a chain reloads and a trigger does not.

`ExceptionsProofs` (any interrupts, priorities, vector tables and bounds:
`ExceptionsAssumption`, `SvcAssumption`): `TypeCorrect`, `BitmapIsNest`,
`InterruptsDoNotNest`. A return clears one bit, so the bitmap is the nest only if no
exception is on the stack twice. `Nest` gets that from an order: Thread below
PendSV, SysTick and the interrupts, these below SVCall, and HardFault on top. Modes
on the stack never fall in rank (`Rising`), and rise strictly except at a frame that
a bad vector left, which repeats the mode below it; such a frame is never the one a
return uses. `Based` and `Outermost` say that the first mode is Thread and that the
asynchronous exceptions interrupt nothing else, which is `HandlersDoNotNest`.
`SvcAssumption` (no SVC in the SVCall and HardFault handlers) is what the order
needs; the emulator does not escalate such an SVC, and marks SVCall active a second
time.

`ThreadedRunProofs` (any pins, PIO pins, state machines and operands, any sets of
calls and quanta, any firmware: `RunAssumption`, `PioPinAssumption`): `TypeCorrect`,
`NothingMissingWhenOk`, `DividerOutlivesItsBus`, `CommandsWaitOneQuantum`,
`WritesStick`, `FirstPanicIsReturned`. All need the barrier as it is seen from a
call, which is `RoundInv`: until it breaks all three workers are in one round,
and after that those still running are; a worker that came to its end unbroken has
done all its quanta. `ClockInv` puts the coordinator's clock at its round (one ahead
past the drain), so that an unbroken call ends with the clock its caller was told
of. `DividerInv` has a finished worker's operand saved, `CommandInv` bounds the age of
every queued command by the coordinator's place in its round, and `MergeInv` says
that between the load and the store of a register what was loaded is what the
register holds, but for the pins written since. `CallInv` ties the outcome to who
panicked and who timed out.

`ThreadedQuantumProofs` (any number of quanta, any quantum, instruction lengths, FIFO
depth and firmware, any halted cores and leftovers: `QuantumAssumption`):
`TypeCorrect`, `TimerLatencyIsOneQuantum`, `ClocksStayTogether`. `RoundInv` says that nobody is a round
ahead of a worker that has not arrived. `LatencyInv` says of a core that has drained
its mask, in a quantum whose alarms are still to be polled, that no timer line is in
the mask: the coordinator stores before it arrives, the core drains after it is
released. `ClocksAgree` is not inductive, for it says nothing of the targets. `CycleInv`
puts each target at the quanta its core has begun (`Begun`), the master clock at
those its coordinator has ticked (`Ticked`), and a counter less than an instruction
past its target; an awake core reaches its target before it comes to the barrier, and
`RoundInv` keeps core and coordinator within a quantum. The proof of the types showed that the model was wrong for a call of no
quanta, where the workers must end at once, as `run_quanta_checked(0)` does; it is
corrected. That nobody is released early is a guard here, not a theorem: it is
`NoEarlyReleaseHolds` and `BarrierImplementsRendezvous` that provide it.

`CoreLaunchProofs` (any FIFO depth, quantum, stray words, replies and bounds, any
cores that use interrupts: `LaunchAssumption`): `TypeCorrect`, `NoWordSlipsIn`,
`OneAttemptLaunches`, `LaunchReturnsItsArgs`. `AttemptInv` says that the words the FSM
has taken are the last ones core 0 wrote and that vector table and stack pointer are
two of them. `WakeInv` is `WordWakes` together with the state between the test of
`FIFO_ST` and the WFE. `LoopInv` follows the launch loop: core 1 is halted and the FSM
is as far as the loop's last commands took it, wherever it was before (`Asking`,
`Answered`), or the launch is made and its last echo is at the head of the FIFO
(`Started`). It holds only if core 1's firmware leaves its interrupt line disabled,
and `LaunchReturnsItsArgs` has that as its hypothesis, `1 \notin IrqUsers`. Without
it the property is false: with FIFOs of two words, a quantum of one, one stray word
and one host call, `IrqUsers = {1}`, `Stray = {0}`, `Reply = {1, 2, 3, 4}`, TLC ends with
a launch loop that took core 1's own words for echoes, after `wake_checks` had woken
the core that `halt_core1` stopped.

`SdCardProofs` (any depth of the FIFOs, frame length, size and number of blocks,
addresses and contents: `SdAssumption`): `TypeCorrect`, `WordsMeetTheirChipSelect`,
`BlocksAreNeverMixed`. None of the properties is near to inductive, for a word is written long before it meets the
card. `SdInv` follows an exchange. `Sending` is the string of bytes the driver sends
in its stage; the queues hold the end of it, each word with its chip select
(`QueueInv`), and `Gone` counts what the card has taken. `StageInv` says where those
bytes have led the card: how far into a frame (`InFrame`), an answer (`InR1`,
`InToken`, `InData`) or a block (`InBlock`, `InResponse`), and that what came back is
the answer as far as it goes (`Told`, `Answer`). The card sees a raised line only when
it is idle, which is why leaving an exchange at any point keeps the words framed.
A quantum takes any number of words off the queue. `Drained` is a recursive function
of that number, and the step from one word to the next is carried through it by
`WordByWord`.

`WordByWord`, the choice of a ready DMA channel and that of the most urgent exception
rest on one lemma, `LeastNatural`: a set of naturals has a least element, from the
library's theorem that < is well founded on the naturals.

Only model-checked are the properties with liveness in them, for the prover handles
neither fairness nor ENABLED: `WaitReturns`, `AllExit`, `EventServed`, `AllDone`, `LaunchReturns`,
`LaunchedCoreRuns`, `CallReturns`, `RunEnds`, `CompletionPends`, `PendedIsTaken` and
`OperationsReturn`. All invariants and action properties of the runs are proved.
Induction over data is out of the prover's reach as well; no module declares a
RECURSIVE operator.

## Where the code and what it says of itself differ

Three are kept as runs that TLC ends with a counterexample, and as entries under
"findings":

* `pending_is_merged`: the coordinator publishes TIMER lines with a store of the
  whole mask and erases a FIFO interrupt raised in the same quantum.
* `event_unparks`: a core parked in WFE runs one instruction in each later quantum of
  the threaded path. If that is a WFE, it takes an event that came after the top of the
  quantum and the core stays parked. `EventServed` states what does hold: an event is
  not left beside a parked core, it unparks the core or such a WFE takes it.
* `launch_finds_core_halted`: an interrupt wakes a halted core 1 and leaves the
  launch handshake armed, which then launches a running core.

Others were seen while modelling. The models behave as the code does, and no
run is kept for them:

* Nothing on the threaded path un-halts a core halted by WFI
  (`rp2040-emu/src/threaded/emulator.rs:548`).
* A transmit FIFO that is joined away keeps its DREQ up and drops what the DMA
  writes (`pio/fifo.rs:36` and `:60`).
* Of two waiters that time out together the second returns its own reading
  (`picoem-common/src/threaded/barrier.rs:302`); a waiter may time out a round that
  all parties had reached, while the last one waits for `park_mu` (`:253`).
* Each call of the threaded emulator clones the PPB as it was at the promotion
  (`threaded/bus.rs:133`, `take_initial_ppb` in `threaded/shared.rs`), although a
  comment says the slot is consumed: a handler in progress is not active in the
  next call, and an exception that was pending at the promotion is so each time.
* A multi-channel trigger of a DMA channel whose count ran out does nothing
  (`dma.rs:552`), and a forced interrupt of an idle DMA is not routed on the fast
  path (`lib.rs:976`).
* A HardFault staged by a vector without the Thumb bit is overwritten by an SVC
  that is the next instruction (`core/exceptions.rs:144`), and dropped by a WFI that
  sleeps (`core/mod.rs:129`).
* A chip select that goes up and down within one quantum is not seen by the card
  (`sd_wire.rs:52`): the driver's trailing word after each release is what makes
  `OperationsReturn` hold. A write past the end of the card is accepted and not
  stored (`sdcard.rs:463`).

## Not modelled

* Instruction set, words of a stack frame, address decoding and register files:
  sequential, data-heavy and compared with QEMU and a hardware oracle by the
  repository's tests.
* PIO instructions, autopush and autopull, the divider's arithmetic, TIMER match
  arithmetic, clocks, UART, I2C, ADC, PWM, watchdog, PSRAM: as above.
* The keyboard and its I2C FIFO, and the LCD: no actor but the firmware; the
  keyboard is the next candidate among the devices.
* NVIC, PPB and SysTick across several threaded calls, and two cores' SysTicks with
  the fast path: they need `Exceptions` composed with `ThreadedRun`, whose product is
  too large for the bounds that show anything.
* `step_until` with its idle horizon, spinlocks and interpolators.
* RP2350: a sibling of the RP2040 emulator; the barrier and the queue it shares are
  modelled.
* Harnesses, front ends, tracing and bindings: not the system's logic.

## Plan

Every safety property of the runs is proved. Next is more of the system, and the
proofs about it:

1. The keyboard behind I2C: its FIFO at its limit, and what a reset leaves.
2. Several threaded calls with exceptions in progress (`bus.rs:133`).
3. PIO autopush and autopull, whose rounds with DMA `Dma` abstracts.
4. The idle horizon of `step_until`.
5. RP2350's threaded runner, whose PIO queues may have two producers
   (`rp2350-emu/src/threaded/pio.rs:204`).
