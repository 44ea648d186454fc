---------------------------- MODULE SpinBarrier ----------------------------
(***************************************************************************)
(* The spin-then-park barrier of picoem-common/src/threaded/barrier.rs and *)
(* the worker threads that use it: each of them runs Quanta rounds of      *)
(* "work, then wait()", and one that panics poisons the barrier before it  *)
(* unwinds (spawn_worker in worker.rs).                                    *)
(*                                                                         *)
(* One action is one access to shared memory.  Accesses made while park_mu *)
(* is held to locations that are only written under park_mu (generation,   *)
(* poisoned) are merged.  Atomics are interleaved: the code's acquire and  *)
(* release orderings give no weaker outcome for these locations.           *)
(***************************************************************************)
EXTENDS Integers, FiniteSets

CONSTANTS
    Thread,        \* the worker threads; `parties' is their number
    Quanta,        \* rounds each worker runs (run_quanta_checked's n)
    SpinBudget,    \* SPIN_BUDGET: 512 in the code
    WatchdogStride,\* WATCHDOG_STRIDE: 1024 in the code
    GenMod,        \* generation wraps at this value: 2^32 in the code
    ElapsedMs      \* wall-clock readings the watchdog may report

\* with_deadline asserts parties >= 2.  Readings are at least the deadline,
\* which is whole milliseconds (5000 by default), so never 0.
ASSUME ThreadAssumption ==
    /\ IsFiniteSet(Thread)
    /\ Cardinality(Thread) >= 2
ASSUME BoundAssumption ==
    /\ Quanta \in Nat
    /\ SpinBudget \in Nat \ {0}
    /\ WatchdogStride \in Nat \ {0}
    /\ GenMod \in Nat \ {0, 1}
    /\ ElapsedMs \subseteq Nat \ {0}

VARIABLES
    generation, count, poisoned, timed_out, timeout_elapsed_ms,
    park_mu,       \* the holder of the mutex, or Nobody
    pc,            \* where each worker is
    cur_gen,       \* wait()'s local cur_gen
    spins,         \* wait()'s local i
    deadline,      \* whether this call's deadline has passed, and how
    result,        \* what the worker's last wait() returned, or "Panicked"
    elapsed_ms,    \* the elapsed_ms of a TimedOut result
    arrived,       \* history: rounds the worker has entered (fetch_add)
    released,      \* history: rounds the worker was released from
    round          \* history: how often generation was bumped

locals  == <<pc, cur_gen, spins, deadline, result, elapsed_ms>>
flags   == <<poisoned, timed_out, timeout_elapsed_ms>>
history == <<arrived, released, round>>
vars == <<generation, count, poisoned, timed_out, timeout_elapsed_ms, park_mu,
          pc, cur_gen, spins, deadline, result, elapsed_ms,
          arrived, released, round>>

Parties == Cardinality(Thread)
Nobody  == "nobody"
ASSUME NobodyAssumption == Nobody \notin Thread

Results == {"None", "Released", "Poisoned", "TimedOut", "Panicked"}

\* "ahead": the deadline is not reached.  Otherwise it passed, with a party
\* still "missing" from the round or after they had all "met".
Deadlines == {"ahead", "missing", "met"}

\* Program points of a worker inside wait(), from the first load to a return
PointsBeforeArrival == {"load_gen", "arrive"}
PointsOfLast        == {"lock_last", "bump", "notify"}
PointsOfSpin        == {"spin_poisoned", "spin_gen"}
PointsOfPark        == {"lock_park", "check", "park_wait", "sleep"}
PointsOfReport      == {"report", "report_ms"}
PointsOfTrip        == {"trip_cas", "trip_flag"}
PointsOfPoison      == {"poison", "poison_notify"}
Points == {"work", "exit"} \cup PointsBeforeArrival \cup PointsOfLast
          \cup PointsOfSpin \cup PointsOfPark \cup PointsOfReport
          \cup PointsOfTrip \cup PointsOfPoison

\* Fault: an addition that does not wrap.
WrapNext_Overflows(g) == g + 1

WrapNext(g) == IF g + 1 = GenMod THEN 0 ELSE g + 1

Init ==
    /\ generation = 0 /\ count = 0
    /\ poisoned = FALSE /\ timed_out = FALSE /\ timeout_elapsed_ms = 0
    /\ park_mu = Nobody
    /\ pc = [t \in Thread |-> "work"]
    /\ cur_gen = [t \in Thread |-> 0]
    /\ spins = [t \in Thread |-> 0]
    /\ deadline = [t \in Thread |-> "ahead"]
    /\ result = [t \in Thread |-> "None"]
    /\ elapsed_ms = [t \in Thread |-> 0]
    /\ arrived = [t \in Thread |-> 0]
    /\ released = [t \in Thread |-> 0]
    /\ round = 0

Goto(t, point) == pc' = [pc EXCEPT ![t] = point]

\* The guard of park_mu is dropped when wait() returns while holding it.
DropGuard(t) == park_mu' = IF park_mu = t THEN Nobody ELSE park_mu

\* wait() returns Released and the worker goes on to its next quantum.
ReturnReleased(t) ==
    /\ Goto(t, "work")
    /\ result' = [result EXCEPT ![t] = "Released"]
    /\ released' = [released EXCEPT ![t] = @ + 1]
    /\ DropGuard(t)

\* notify_all: every sleeper leaves the condition variable for the mutex.
NotifyAllThen(t, point) ==
    pc' = [u \in Thread |-> IF u = t THEN point
                            ELSE IF pc[u] = "sleep" THEN "lock_park"
                            ELSE pc[u]]

-----------------------------------------------------------------------------
(* The worker's body around wait().                                        *)

\* A quantum ends: wait() is entered, which first looks at `poisoned'.
Enter(t) ==
    /\ pc[t] = "work" /\ released[t] < Quanta
    /\ deadline' = [deadline EXCEPT ![t] = "ahead"]
    /\ Goto(t, IF poisoned THEN "report" ELSE "load_gen")
    /\ UNCHANGED <<generation, count, flags, park_mu, cur_gen, spins, result,
                   elapsed_ms, history>>

\* All quanta are done.
Finish(t) ==
    /\ pc[t] = "work" /\ released[t] = Quanta
    /\ Goto(t, "exit")
    /\ UNCHANGED <<generation, count, flags, park_mu, cur_gen, spins,
                   deadline, result, elapsed_ms, history>>

\* The body panics; spawn_worker catches it and poisons the barrier.
Panic(t) ==
    /\ pc[t] = "work" /\ released[t] < Quanta
    /\ Goto(t, "poison")
    /\ result' = [result EXCEPT ![t] = "Panicked"]
    /\ UNCHANGED <<generation, count, flags, park_mu, cur_gen, spins,
                   deadline, elapsed_ms, history>>

-----------------------------------------------------------------------------
(* wait(): arrival, and the last arriver's release of the round.           *)

LoadGen(t) ==
    /\ pc[t] = "load_gen"
    /\ cur_gen' = [cur_gen EXCEPT ![t] = generation]
    /\ Goto(t, "arrive")
    /\ UNCHANGED <<generation, count, flags, park_mu, spins, deadline, result,
                   elapsed_ms, history>>

\* Fault: the number before the addition is compared, off by one.
Arrive_OffByOne(t) ==
    /\ pc[t] = "arrive"
    /\ count' = count + 1
    /\ arrived' = [arrived EXCEPT ![t] = @ + 1]
    /\ spins' = [spins EXCEPT ![t] = 0]
    /\ Goto(t, IF count + 1 >= Parties - 1 THEN "lock_last"
               ELSE "spin_poisoned")
    /\ UNCHANGED <<generation, flags, park_mu, cur_gen, deadline, result,
                   elapsed_ms, released, round>>

Arrive(t) ==
    /\ pc[t] = "arrive"
    /\ count' = count + 1
    /\ arrived' = [arrived EXCEPT ![t] = @ + 1]
    /\ spins' = [spins EXCEPT ![t] = 0]
    /\ Goto(t, IF count + 1 = Parties THEN "lock_last" ELSE "spin_poisoned")
    /\ UNCHANGED <<generation, flags, park_mu, cur_gen, deadline, result,
                   elapsed_ms, released, round>>

\* park_mu is taken and count reset ...
LockLast(t) ==
    /\ pc[t] = "lock_last" /\ park_mu = Nobody
    /\ park_mu' = t
    /\ count' = 0
    /\ Goto(t, "bump")
    /\ UNCHANGED <<generation, flags, cur_gen, spins, deadline, result,
                   elapsed_ms, history>>

\* ... then generation is stored and park_mu released ...
Bump(t) ==
    /\ pc[t] = "bump"
    /\ generation' = WrapNext(cur_gen[t])
    /\ round' = round + 1
    /\ park_mu' = Nobody
    /\ Goto(t, "notify")
    /\ UNCHANGED <<count, flags, cur_gen, spins, deadline, result, elapsed_ms,
                   arrived, released>>

\* ... and the sleepers are notified outside it.
Notify(t) ==
    /\ pc[t] = "notify"
    /\ NotifyAllThen(t, "work")
    /\ result' = [result EXCEPT ![t] = "Released"]
    /\ released' = [released EXCEPT ![t] = @ + 1]
    /\ UNCHANGED <<generation, count, flags, park_mu, cur_gen, spins, deadline,
                   elapsed_ms, arrived, round>>

-----------------------------------------------------------------------------
(* wait(): an earlier arriver spins, then parks.                           *)

SpinPoisoned(t) ==
    /\ pc[t] = "spin_poisoned"
    /\ Goto(t, IF poisoned THEN "report" ELSE "spin_gen")
    /\ UNCHANGED <<generation, count, flags, park_mu, cur_gen, spins, deadline,
                   result, elapsed_ms, history>>

SpinReleased(t) ==
    /\ pc[t] = "spin_gen" /\ generation # cur_gen[t]
    /\ ReturnReleased(t)
    /\ UNCHANGED <<generation, count, flags, cur_gen, spins, deadline,
                   elapsed_ms, arrived, round>>

\* The clock is only read on every WatchdogStride-th iteration.
SpinAgain(t) ==
    /\ pc[t] = "spin_gen" /\ generation = cur_gen[t]
    /\ spins' = [spins EXCEPT ![t] = @ + 1]
    /\ Goto(t, IF spins'[t] % WatchdogStride = 0 /\ deadline[t] # "ahead"
               THEN "trip_cas"
               ELSE IF spins'[t] = SpinBudget THEN "lock_park"
               ELSE "spin_poisoned")
    /\ UNCHANGED <<generation, count, flags, park_mu, cur_gen, deadline,
                   result, elapsed_ms, history>>

LockPark(t) ==
    /\ pc[t] = "lock_park" /\ park_mu = Nobody
    /\ park_mu' = t
    /\ Goto(t, "check")
    /\ UNCHANGED <<generation, count, flags, cur_gen, spins, deadline, result,
                   elapsed_ms, history>>

\* The park loop's three tests, in their order.
CheckReleased(t) ==
    /\ pc[t] = "check" /\ generation # cur_gen[t]
    /\ ReturnReleased(t)
    /\ UNCHANGED <<generation, count, flags, cur_gen, spins, deadline,
                   elapsed_ms, arrived, round>>

CheckPoisoned(t) ==
    /\ pc[t] = "check" /\ generation = cur_gen[t] /\ poisoned
    /\ Goto(t, "report")
    /\ UNCHANGED <<generation, count, flags, park_mu, cur_gen, spins, deadline,
                   result, elapsed_ms, history>>

CheckExpired(t) ==
    /\ pc[t] = "check" /\ generation = cur_gen[t] /\ ~poisoned
    /\ deadline[t] # "ahead"
    /\ park_mu' = Nobody
    /\ Goto(t, "trip_cas")
    /\ UNCHANGED <<generation, count, flags, cur_gen, spins, deadline, result,
                   elapsed_ms, history>>

CheckWait(t) ==
    /\ pc[t] = "check" /\ generation = cur_gen[t] /\ ~poisoned
    /\ deadline[t] = "ahead"
    /\ Goto(t, "park_wait")
    /\ UNCHANGED <<generation, count, flags, park_mu, cur_gen, spins, deadline,
                   result, elapsed_ms, history>>

\* wait_timeout releases park_mu and sleeps in one step ...
Sleep(t) ==
    /\ pc[t] = "park_wait"
    /\ park_mu' = Nobody
    /\ Goto(t, "sleep")
    /\ UNCHANGED <<generation, count, flags, cur_gen, spins, deadline, result,
                   elapsed_ms, history>>

\* Fault: an untimed wait on the condition variable.
WakeExpired_Untimed(t) ==
    /\ pc[t] = "sleep" /\ deadline[t] # "ahead"
    /\ UNCHANGED vars

\* ... and returns without a notification when the time is up ...
WakeExpired(t) ==
    /\ pc[t] = "sleep" /\ deadline[t] # "ahead"
    /\ Goto(t, "lock_park")
    /\ UNCHANGED <<generation, count, flags, park_mu, cur_gen, spins, deadline,
                   result, elapsed_ms, history>>

\* ... or for no reason at all.
WakeSpurious(t) ==
    /\ pc[t] = "sleep" /\ deadline[t] = "ahead"
    /\ Goto(t, "lock_park")
    /\ UNCHANGED <<generation, count, flags, park_mu, cur_gen, spins, deadline,
                   result, elapsed_ms, history>>

\* Wall-clock time: the deadline of the wait() that t is in passes.
Expire(t) ==
    /\ pc[t] \in PointsBeforeArrival \cup PointsOfSpin \cup PointsOfPark
    /\ deadline[t] = "ahead"
    /\ deadline' = [deadline EXCEPT ![t] =
                      IF /\ pc[t] \notin PointsBeforeArrival
                         /\ \A u \in Thread : arrived[t] <= arrived[u]
                      THEN "met" ELSE "missing"]
    /\ UNCHANGED <<generation, count, flags, park_mu, pc, cur_gen, spins,
                   result, elapsed_ms, history>>

-----------------------------------------------------------------------------
(* The unhappy returns: poisoned_or_timed_out_result, trip_watchdog and    *)
(* poison.  A non-Released result makes the worker's body return.          *)

\* Fault: timed_out is not looked at before poison is reported.
ReportPoisoned_WatchdogIgnored(t) ==
    /\ pc[t] = "report"
    /\ Goto(t, "exit")
    /\ result' = [result EXCEPT ![t] = "Poisoned"]
    /\ DropGuard(t)
    /\ UNCHANGED <<generation, count, flags, cur_gen, spins, deadline,
                   elapsed_ms, history>>

ReportPoisoned(t) ==
    /\ pc[t] = "report" /\ ~timed_out
    /\ Goto(t, "exit")
    /\ result' = [result EXCEPT ![t] = "Poisoned"]
    /\ DropGuard(t)
    /\ UNCHANGED <<generation, count, flags, cur_gen, spins, deadline,
                   elapsed_ms, history>>

ReportTimedOut(t) ==
    /\ pc[t] = "report" /\ timed_out
    /\ Goto(t, "report_ms")
    /\ UNCHANGED <<generation, count, flags, park_mu, cur_gen, spins, deadline,
                   result, elapsed_ms, history>>

ReportMs(t) ==
    /\ pc[t] = "report_ms"
    /\ Goto(t, "exit")
    /\ result' = [result EXCEPT ![t] = "TimedOut"]
    /\ \E own \in ElapsedMs :
         elapsed_ms' = [elapsed_ms EXCEPT ![t] =
             IF timeout_elapsed_ms # 0 THEN timeout_elapsed_ms ELSE own]
    /\ DropGuard(t)
    /\ UNCHANGED <<generation, count, flags, cur_gen, spins, deadline, history>>

\* Fault: the reading is stored, not compared and exchanged.
TripCas_Overwrites(t) ==
    /\ pc[t] = "trip_cas"
    /\ \E own \in ElapsedMs :
         /\ timeout_elapsed_ms' = own
         /\ elapsed_ms' = [elapsed_ms EXCEPT ![t] = own]
    /\ Goto(t, "trip_flag")
    /\ UNCHANGED <<generation, count, poisoned, timed_out, park_mu, cur_gen,
                   spins, deadline, result, history>>

\* Fault: the reading is returned and not recorded.
TripCas_NotRecorded(t) ==
    /\ pc[t] = "trip_cas"
    /\ \E own \in ElapsedMs : elapsed_ms' = [elapsed_ms EXCEPT ![t] = own]
    /\ Goto(t, "trip_flag")
    /\ UNCHANGED <<generation, count, flags, park_mu, cur_gen, spins,
                   deadline, result, history>>

TripCas(t) ==
    /\ pc[t] = "trip_cas"
    /\ \E own \in ElapsedMs :
         /\ timeout_elapsed_ms' =
              IF timeout_elapsed_ms = 0 THEN own ELSE timeout_elapsed_ms
         /\ elapsed_ms' = [elapsed_ms EXCEPT ![t] = own]
    /\ Goto(t, "trip_flag")
    /\ UNCHANGED <<generation, count, poisoned, timed_out, park_mu, cur_gen,
                   spins, deadline, result, history>>

\* Fault: the watchdog poisons without setting timed_out.
TripFlag_NotSet(t) ==
    /\ pc[t] = "trip_flag"
    /\ result' = [result EXCEPT ![t] = "TimedOut"]
    /\ Goto(t, "poison")
    /\ UNCHANGED <<generation, count, flags, park_mu, cur_gen, spins,
                   deadline, elapsed_ms, history>>

TripFlag(t) ==
    /\ pc[t] = "trip_flag"
    /\ timed_out' = TRUE
    /\ result' = [result EXCEPT ![t] = "TimedOut"]
    /\ Goto(t, "poison")
    /\ UNCHANGED <<generation, count, poisoned, timeout_elapsed_ms, park_mu,
                   cur_gen, spins, deadline, elapsed_ms, history>>

\* Fault: the flag is stored without taking park_mu.
Poison_Unlocked(t) ==
    /\ pc[t] = "poison"
    /\ poisoned' = TRUE
    /\ Goto(t, "poison_notify")
    /\ UNCHANGED <<generation, count, timed_out, timeout_elapsed_ms, park_mu,
                   cur_gen, spins, deadline, result, elapsed_ms, history>>

\* poison(): the flag is stored under park_mu, which is taken and dropped.
Poison(t) ==
    /\ pc[t] = "poison" /\ park_mu = Nobody
    /\ poisoned' = TRUE
    /\ Goto(t, "poison_notify")
    /\ UNCHANGED <<generation, count, timed_out, timeout_elapsed_ms, park_mu,
                   cur_gen, spins, deadline, result, elapsed_ms, history>>

\* Fault: the sleepers are not notified.
PoisonNotify_Silent(t) ==
    /\ pc[t] = "poison_notify"
    /\ Goto(t, "exit")
    /\ UNCHANGED <<generation, count, flags, park_mu, cur_gen, spins, deadline,
                   result, elapsed_ms, history>>

PoisonNotify(t) ==
    /\ pc[t] = "poison_notify"
    /\ NotifyAllThen(t, "exit")
    /\ UNCHANGED <<generation, count, flags, park_mu, cur_gen, spins, deadline,
                   result, elapsed_ms, history>>

-----------------------------------------------------------------------------
\* What the barrier and the condition variable do by themselves once a
\* worker is inside wait(), poison() or on its way out.
BarrierStep(t) ==
    \/ LoadGen(t) \/ Arrive(t) \/ LockLast(t) \/ Bump(t) \/ Notify(t)
    \/ SpinPoisoned(t) \/ SpinReleased(t) \/ SpinAgain(t) \/ LockPark(t)
    \/ CheckReleased(t) \/ CheckPoisoned(t) \/ CheckExpired(t) \/ CheckWait(t)
    \/ Sleep(t) \/ WakeExpired(t)
    \/ ReportPoisoned(t) \/ ReportTimedOut(t) \/ ReportMs(t)
    \/ TripCas(t) \/ TripFlag(t) \/ Poison(t) \/ PoisonNotify(t)

WorkerStep(t) == Enter(t) \/ Finish(t) \/ Panic(t)

Done == (\A t \in Thread : pc[t] = "exit") /\ UNCHANGED vars

Next ==
    \/ \E t \in Thread :
         BarrierStep(t) \/ WorkerStep(t) \/ WakeSpurious(t) \/ Expire(t)
    \/ Done

Spec == Init /\ [][Next]_vars

\* The operating system runs every thread that can run and does not keep a
\* thread off park_mu for ever (strong fairness of the lock steps: spurious
\* wake-ups may take it in between again and again).
SchedulerFairness ==
    \A t \in Thread :
      /\ WF_vars(BarrierStep(t))
      /\ SF_vars(LockLast(t)) /\ SF_vars(LockPark(t)) /\ SF_vars(Poison(t))

FairSpec == Spec /\ SchedulerFairness

\* What a liveness property may assume besides: that the clock advances, or
\* that every worker's body reaches wait() or panics.  Neither goes without
\* saying: a body may be stuck in its quantum for ever, and a panic should not
\* need a deadline to be noticed.
ClockAdvances == \A t \in Thread : WF_vars(Expire(t))
BodiesEnd     == \A t \in Thread : WF_vars(WorkerStep(t))

-----------------------------------------------------------------------------
(* Properties.                                                             *)

\* Every location and local of the barrier has its type.
TypeOK ==
    /\ generation \in 0 .. GenMod - 1
    /\ count \in Nat
    /\ poisoned \in BOOLEAN /\ timed_out \in BOOLEAN
    /\ timeout_elapsed_ms \in Nat
    /\ park_mu \in Thread \cup {Nobody}
    /\ pc \in [Thread -> Points]
    /\ cur_gen \in [Thread -> 0 .. GenMod - 1]
    /\ spins \in [Thread -> Nat]
    /\ deadline \in [Thread -> Deadlines]
    /\ result \in [Thread -> Results]
    /\ elapsed_ms \in [Thread -> Nat]
    /\ arrived \in [Thread -> Nat]
    /\ released \in [Thread -> Nat]
    /\ round \in Nat

\* No worker is released from a round that another has not reached: what
\* wait() is for, with a count that is reset while early workers of the next
\* round may already be adding to it.
NoEarlyRelease == \A t, u \in Thread : released[t] <= arrived[u]

\* A worker asleep on park_cv whose round was released, or whose barrier was
\* poisoned, is about to be notified: no wake-up falls between the test of
\* the park loop and the sleep.
NoLostWakeup ==
    \A t \in Thread :
      pc[t] = "sleep" =>
        /\ generation # cur_gen[t] => \E u \in Thread : pc[u] = "notify"
        /\ poisoned => \E u \in Thread : pc[u] = "poison_notify"

\* wait() returns Poisoned only when a worker panicked: a barrier poisoned by
\* the watchdog makes every other worker return TimedOut, which
\* run_quanta_checked tells apart by.
PoisonedOnlyByPanic ==
    \A t \in Thread :
      result[t] = "Poisoned" => \E u \in Thread : result[u] = "Panicked"

\* When a wait() has returned TimedOut, timed_out() and a reading are there
\* for run_quanta_checked to find after the join.
TimeoutIsRecorded ==
    \A t \in Thread :
      pc[t] = "exit" /\ result[t] = "TimedOut" =>
        /\ timed_out /\ poisoned /\ timeout_elapsed_ms # 0
        /\ elapsed_ms[t] # 0

\* Once set, the three failure locations keep their value: the barrier is
\* single-use and the first reading is the one reported.
FailureIsSticky ==
    [][ /\ poisoned => poisoned'
        /\ timed_out => timed_out'
        /\ timeout_elapsed_ms # 0 => timeout_elapsed_ms' = timeout_elapsed_ms ]_vars

\* The barrier implements the abstract rendezvous.
Promise == INSTANCE Rendezvous WITH
    broken <- timed_out \/ \E t \in Thread : result[t] = "Panicked",
    left   <- {t \in Thread : result[t] \in {"Poisoned", "TimedOut", "Panicked"}}
ImplementsRendezvous == Promise!Spec

\* Every wait() returns as time goes by, even when another worker is stuck in
\* its quantum and never arrives: the watchdog ends it.
WaitReturns ==
    ClockAdvances =>
      \A t \in Thread :
        pc[t] \notin {"work", "exit"} ~> pc[t] \in {"work", "exit"}

\* When every body reaches wait() or panics, every worker ends, and a panic
\* sends the others away without the watchdog having to fire.
AllExit == BodiesEnd => <>(\A t \in Thread : pc[t] = "exit")
=============================================================================
