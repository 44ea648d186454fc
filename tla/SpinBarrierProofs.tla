------------------------- MODULE SpinBarrierProofs -------------------------
(***************************************************************************)
(* Proofs about SpinBarrier for any set of workers, any number of quanta,  *)
(* any spin budget and any width of the generation counter.                *)
(***************************************************************************)
EXTENDS SpinBarrier, FiniteSetTheorems, TLAPS

\* The points of a wait() that has arrived and not returned.
Waiting == PointsOfLast \cup PointsOfSpin \cup PointsOfPark
\* The points at which the worker's rounds entered are the rounds left.
Between == {"work"} \cup PointsBeforeArrival
\* The points at which park_mu is held, whatever led there.
Locked == {"bump", "check", "park_wait"}
\* The results that end a worker.
Failures == {"Poisoned", "TimedOut", "Panicked"}

InRound == {u \in Thread : arrived[u] = round + 1}

\* A worker is in the current round or has yet to enter it, and has left none
\* that is not over.
RoundInv ==
    \A t \in Thread :
      /\ arrived[t] = round \/ arrived[t] = round + 1
      /\ released[t] <= round
      /\ released[t] = arrived[t] \/ released[t] + 1 = arrived[t]
      /\ pc[t] \in Between => released[t] = arrived[t]
      /\ pc[t] \in Waiting => released[t] + 1 = arrived[t]
      /\ pc[t] = "notify" => arrived[t] = round

\* cur_gen is the generation of the round the worker is in.
GenInv ==
    \A t \in Thread :
      /\ pc[t] = "arrive" => cur_gen[t] = generation
      /\ pc[t] \in Waiting /\ arrived[t] = round + 1 => cur_gen[t] = generation

\* count is the number of workers in the round, up to its reset by the last.
CountInv ==
    /\ (\A t \in Thread : pc[t] # "bump") => count = Cardinality(InRound)
    /\ \A t \in Thread : pc[t] = "bump" => count = 0

\* One worker at most releases a round, and they have all entered it.
LastInv ==
    /\ \A t \in Thread : pc[t] \in {"lock_last", "bump"} => InRound = Thread
    /\ \A t, u \in Thread :
         pc[t] \in {"lock_last", "bump"} /\ pc[u] \in {"lock_last", "bump"}
         => t = u

\* Who is at a locked point holds park_mu; the test before a sleep stays true.
LockInv ==
    \A t \in Thread :
      /\ pc[t] \in Locked => park_mu = t
      /\ pc[t] = "park_wait" => generation = cur_gen[t] /\ ~poisoned

SomePanic == \E u \in Thread : result[u] = "Panicked"

\* A barrier is poisoned by a panic or by the watchdog, in that order of steps.
PoisonInv ==
    /\ poisoned => timed_out \/ SomePanic
    /\ \A t \in Thread :
         /\ pc[t] \in PointsOfReport => poisoned
         /\ pc[t] = "report_ms" => timed_out
         /\ pc[t] = "poison" => timed_out \/ result[t] = "Panicked"
         /\ result[t] \in Failures => pc[t] \in PointsOfPoison \cup {"exit"}
         /\ result[t] = "Poisoned" => SomePanic
         /\ result[t] = "TimedOut" => timed_out

BarrierInv ==
    /\ TypeOK
    /\ RoundInv /\ GenInv /\ CountInv /\ LastInv
    /\ LockInv /\ NoLostWakeup
    /\ PoisonInv

USE DEF WorkerStep, BarrierStep, Points, PointsBeforeArrival, PointsOfLast,
        PointsOfSpin, PointsOfPark, PointsOfReport, PointsOfTrip,
        PointsOfPoison, Results, Deadlines, Goto, flags, history

-----------------------------------------------------------------------------
\* Every step of SpinBarrier keeps the types of its state.
LEMMA TypeStep == TypeOK /\ [Next]_vars => TypeOK'
<1> SUFFICES ASSUME TypeOK, [Next]_vars PROVE TypeOK'
  OBVIOUS
<1> USE BoundAssumption, ThreadAssumption DEF TypeOK
<1>1. ASSUME NEW t \in Thread, WorkerStep(t) PROVE TypeOK'
  BY <1>1 DEF Enter, Finish, Panic
<1>2. ASSUME NEW t \in Thread,
             LoadGen(t) \/ Arrive(t) \/ LockLast(t) \/ Bump(t) \/ Notify(t)
      PROVE  TypeOK'
  BY <1>2 DEF LoadGen, Arrive, LockLast, Bump, Notify, NotifyAllThen, WrapNext
<1>3. ASSUME NEW t \in Thread,
             SpinPoisoned(t) \/ SpinReleased(t) \/ SpinAgain(t)
      PROVE  TypeOK'
  BY <1>3 DEF SpinPoisoned, SpinReleased, SpinAgain, ReturnReleased, DropGuard
<1>4. ASSUME NEW t \in Thread,
             \/ LockPark(t) \/ CheckReleased(t) \/ CheckPoisoned(t)
             \/ CheckExpired(t) \/ CheckWait(t) \/ Sleep(t)
             \/ WakeExpired(t) \/ WakeSpurious(t) \/ Expire(t)
      PROVE  TypeOK'
  BY <1>4 DEF LockPark, CheckReleased, CheckPoisoned, CheckExpired, CheckWait,
              Sleep, WakeExpired, WakeSpurious, Expire, ReturnReleased, DropGuard
<1>5. ASSUME NEW t \in Thread,
             ReportPoisoned(t) \/ ReportTimedOut(t) \/ ReportMs(t)
      PROVE  TypeOK'
  BY <1>5 DEF ReportPoisoned, ReportTimedOut, ReportMs, DropGuard
<1>6. ASSUME NEW t \in Thread,
             TripCas(t) \/ TripFlag(t) \/ Poison(t) \/ PoisonNotify(t)
      PROVE  TypeOK'
  <2>1. CASE TripCas(t)
    BY <2>1 DEF TripCas
  <2>2. CASE TripFlag(t) \/ Poison(t) \/ PoisonNotify(t)
    BY <2>2 DEF TripFlag, Poison, PoisonNotify, NotifyAllThen
  <2> QED
    BY <1>6, <2>1, <2>2
<1>7. CASE UNCHANGED vars
  BY <1>7 DEF vars
<1> QED
  BY <1>1, <1>2, <1>3, <1>4, <1>5, <1>6, <1>7 DEF Next, Done

-----------------------------------------------------------------------------
\* No step takes a worker out of a round that is not over.
LEMMA RoundStep == BarrierInv /\ [Next]_vars => RoundInv'
<1> SUFFICES ASSUME BarrierInv, [Next]_vars PROVE RoundInv'
  OBVIOUS
<1> USE DEF BarrierInv, TypeOK, RoundInv, GenInv, LastInv, InRound, Between, Waiting
<1>1. ASSUME NEW t \in Thread,
             WorkerStep(t)
      PROVE  RoundInv'
  BY <1>1 DEF Enter, Finish, Panic
<1>2. ASSUME NEW t \in Thread,
             LoadGen(t) \/ Arrive(t) \/ LockLast(t)
      PROVE  RoundInv'
  BY <1>2 DEF LoadGen, Arrive, LockLast
<1>3. ASSUME NEW t \in Thread,
             Bump(t)
      PROVE  RoundInv'
  BY <1>3 DEF Bump
<1>4. ASSUME NEW t \in Thread,
             Notify(t)
      PROVE  RoundInv'
  BY <1>4 DEF Notify, NotifyAllThen
<1>5. ASSUME NEW t \in Thread,
             SpinPoisoned(t) \/ SpinReleased(t) \/ SpinAgain(t)
      PROVE  RoundInv'
  BY <1>5 DEF SpinPoisoned, SpinReleased, SpinAgain, ReturnReleased, DropGuard
<1>6. ASSUME NEW t \in Thread,
             LockPark(t) \/ CheckReleased(t) \/ CheckPoisoned(t)
      PROVE  RoundInv'
  BY <1>6 DEF LockPark, CheckReleased, CheckPoisoned, ReturnReleased,
              DropGuard
<1>7. ASSUME NEW t \in Thread,
             \/ CheckExpired(t) \/ CheckWait(t) \/ Sleep(t)
             \/ WakeExpired(t) \/ WakeSpurious(t) \/ Expire(t)
      PROVE  RoundInv'
  BY <1>7 DEF CheckExpired, CheckWait, Sleep, WakeExpired, WakeSpurious, Expire
<1>8. ASSUME NEW t \in Thread,
             ReportPoisoned(t) \/ ReportTimedOut(t) \/ ReportMs(t)
      PROVE  RoundInv'
  BY <1>8 DEF ReportPoisoned, ReportTimedOut, ReportMs, DropGuard
<1>9. ASSUME NEW t \in Thread,
             TripCas(t) \/ TripFlag(t) \/ Poison(t) \/ PoisonNotify(t)
      PROVE  RoundInv'
  BY <1>9 DEF TripCas, TripFlag, Poison, PoisonNotify, NotifyAllThen
<1>10. CASE UNCHANGED vars
  BY <1>10 DEF vars
<1> QED
  BY <1>1, <1>2, <1>3, <1>4, <1>5, <1>6, <1>7, <1>8, <1>9, <1>10
     DEF Next, Done

\* park_mu keeps the test of the park loop true up to the sleep.
LEMMA LockStep == BarrierInv /\ [Next]_vars => LockInv'
<1> SUFFICES ASSUME BarrierInv, [Next]_vars PROVE LockInv'
  OBVIOUS
<1> USE NobodyAssumption DEF BarrierInv, TypeOK, LockInv, Locked
<1>1. ASSUME NEW t \in Thread,
             WorkerStep(t)
      PROVE  LockInv'
  BY <1>1 DEF Enter, Finish, Panic
<1>2. ASSUME NEW t \in Thread,
             LoadGen(t) \/ Arrive(t) \/ LockLast(t)
      PROVE  LockInv'
  BY <1>2 DEF LoadGen, Arrive, LockLast
<1>3. ASSUME NEW t \in Thread,
             Bump(t)
      PROVE  LockInv'
  BY <1>3 DEF Bump
<1>4. ASSUME NEW t \in Thread,
             Notify(t)
      PROVE  LockInv'
  BY <1>4 DEF Notify, NotifyAllThen
<1>5. ASSUME NEW t \in Thread,
             SpinPoisoned(t) \/ SpinReleased(t) \/ SpinAgain(t)
      PROVE  LockInv'
  BY <1>5 DEF SpinPoisoned, SpinReleased, SpinAgain, ReturnReleased, DropGuard
<1>6. ASSUME NEW t \in Thread,
             LockPark(t) \/ CheckReleased(t) \/ CheckPoisoned(t)
      PROVE  LockInv'
  BY <1>6 DEF LockPark, CheckReleased, CheckPoisoned, ReturnReleased,
              DropGuard
<1>7. ASSUME NEW t \in Thread,
             \/ CheckExpired(t) \/ CheckWait(t) \/ Sleep(t)
             \/ WakeExpired(t) \/ WakeSpurious(t) \/ Expire(t)
      PROVE  LockInv'
  BY <1>7 DEF CheckExpired, CheckWait, Sleep, WakeExpired, WakeSpurious, Expire
<1>8. ASSUME NEW t \in Thread,
             ReportPoisoned(t) \/ ReportTimedOut(t) \/ ReportMs(t)
      PROVE  LockInv'
  BY <1>8 DEF ReportPoisoned, ReportTimedOut, ReportMs, DropGuard
<1>9. ASSUME NEW t \in Thread,
             TripCas(t) \/ TripFlag(t) \/ Poison(t) \/ PoisonNotify(t)
      PROVE  LockInv'
  BY <1>9 DEF TripCas, TripFlag, Poison, PoisonNotify, NotifyAllThen
<1>10. CASE UNCHANGED vars
  BY <1>10 DEF vars
<1> QED
  BY <1>1, <1>2, <1>3, <1>4, <1>5, <1>6, <1>7, <1>8, <1>9, <1>10
     DEF Next, Done

\* No step puts a worker to sleep that nobody is going to wake.
LEMMA WakeUpStep == BarrierInv /\ [Next]_vars => NoLostWakeup'
<1> SUFFICES ASSUME BarrierInv, [Next]_vars PROVE NoLostWakeup'
  OBVIOUS
<1> USE DEF BarrierInv, TypeOK, LockInv, Locked, NoLostWakeup
<1>1. ASSUME NEW t \in Thread,
             WorkerStep(t)
      PROVE  NoLostWakeup'
  BY <1>1 DEF Enter, Finish, Panic
<1>2. ASSUME NEW t \in Thread,
             LoadGen(t) \/ Arrive(t) \/ LockLast(t)
      PROVE  NoLostWakeup'
  BY <1>2 DEF LoadGen, Arrive, LockLast
<1>3. ASSUME NEW t \in Thread,
             Bump(t)
      PROVE  NoLostWakeup'
  BY <1>3 DEF Bump
<1>4. ASSUME NEW t \in Thread,
             Notify(t)
      PROVE  NoLostWakeup'
  BY <1>4 DEF Notify, NotifyAllThen
<1>5. ASSUME NEW t \in Thread,
             SpinPoisoned(t) \/ SpinReleased(t) \/ SpinAgain(t)
      PROVE  NoLostWakeup'
  BY <1>5 DEF SpinPoisoned, SpinReleased, SpinAgain, ReturnReleased, DropGuard
<1>6. ASSUME NEW t \in Thread,
             LockPark(t) \/ CheckReleased(t) \/ CheckPoisoned(t)
      PROVE  NoLostWakeup'
  BY <1>6 DEF LockPark, CheckReleased, CheckPoisoned, ReturnReleased,
              DropGuard
<1>7. ASSUME NEW t \in Thread,
             \/ CheckExpired(t) \/ CheckWait(t) \/ Sleep(t)
             \/ WakeExpired(t) \/ WakeSpurious(t) \/ Expire(t)
      PROVE  NoLostWakeup'
  BY <1>7 DEF CheckExpired, CheckWait, Sleep, WakeExpired, WakeSpurious, Expire
<1>8. ASSUME NEW t \in Thread,
             ReportPoisoned(t) \/ ReportTimedOut(t) \/ ReportMs(t)
      PROVE  NoLostWakeup'
  BY <1>8 DEF ReportPoisoned, ReportTimedOut, ReportMs, DropGuard
<1>9. ASSUME NEW t \in Thread,
             TripCas(t) \/ TripFlag(t) \/ Poison(t) \/ PoisonNotify(t)
      PROVE  NoLostWakeup'
  BY <1>9 DEF TripCas, TripFlag, Poison, PoisonNotify, NotifyAllThen
<1>10. CASE UNCHANGED vars
  BY <1>10 DEF vars
<1> QED
  BY <1>1, <1>2, <1>3, <1>4, <1>5, <1>6, <1>7, <1>8, <1>9, <1>10
     DEF Next, Done

\* A barrier is poisoned by a panic or by the watchdog.
LEMMA PoisonStep == BarrierInv /\ [Next]_vars => PoisonInv'
<1> SUFFICES ASSUME BarrierInv, [Next]_vars PROVE PoisonInv'
  OBVIOUS
<1> USE DEF BarrierInv, TypeOK, PoisonInv, SomePanic, Failures
<1>1. ASSUME NEW t \in Thread,
             WorkerStep(t)
      PROVE  PoisonInv'
  BY <1>1 DEF Enter, Finish, Panic
<1>2. ASSUME NEW t \in Thread,
             LoadGen(t) \/ Arrive(t) \/ LockLast(t)
      PROVE  PoisonInv'
  BY <1>2 DEF LoadGen, Arrive, LockLast
<1>3. ASSUME NEW t \in Thread,
             Bump(t)
      PROVE  PoisonInv'
  BY <1>3 DEF Bump
<1>4. ASSUME NEW t \in Thread,
             Notify(t)
      PROVE  PoisonInv'
  BY <1>4 DEF Notify, NotifyAllThen
<1>5. ASSUME NEW t \in Thread,
             SpinPoisoned(t) \/ SpinReleased(t) \/ SpinAgain(t)
      PROVE  PoisonInv'
  BY <1>5 DEF SpinPoisoned, SpinReleased, SpinAgain, ReturnReleased, DropGuard
<1>6. ASSUME NEW t \in Thread,
             LockPark(t) \/ CheckReleased(t) \/ CheckPoisoned(t)
      PROVE  PoisonInv'
  BY <1>6 DEF LockPark, CheckReleased, CheckPoisoned, ReturnReleased,
              DropGuard
<1>7. ASSUME NEW t \in Thread,
             \/ CheckExpired(t) \/ CheckWait(t) \/ Sleep(t)
             \/ WakeExpired(t) \/ WakeSpurious(t) \/ Expire(t)
      PROVE  PoisonInv'
  BY <1>7 DEF CheckExpired, CheckWait, Sleep, WakeExpired, WakeSpurious, Expire
<1>8. ASSUME NEW t \in Thread,
             ReportPoisoned(t) \/ ReportTimedOut(t) \/ ReportMs(t)
      PROVE  PoisonInv'
  BY <1>8 DEF ReportPoisoned, ReportTimedOut, ReportMs, DropGuard
<1>9. ASSUME NEW t \in Thread,
             TripCas(t) \/ TripFlag(t) \/ Poison(t) \/ PoisonNotify(t)
      PROVE  PoisonInv'
  BY <1>9 DEF TripCas, TripFlag, Poison, PoisonNotify, NotifyAllThen
<1>10. CASE UNCHANGED vars
  BY <1>10 DEF vars
<1> QED
  BY <1>1, <1>2, <1>3, <1>4, <1>5, <1>6, <1>7, <1>8, <1>9, <1>10
     DEF Next, Done

\* cur_gen stays the generation of the round.
LEMMA GenStep == BarrierInv /\ [Next]_vars => GenInv'
<1> SUFFICES ASSUME BarrierInv, [Next]_vars PROVE GenInv'
  OBVIOUS
<1> USE DEF BarrierInv, TypeOK, RoundInv, GenInv, LastInv, InRound, Between, Waiting
<1>1. ASSUME NEW t \in Thread,
             WorkerStep(t)
      PROVE  GenInv'
  BY <1>1 DEF Enter, Finish, Panic
<1>2. ASSUME NEW t \in Thread,
             LoadGen(t) \/ Arrive(t) \/ LockLast(t)
      PROVE  GenInv'
  BY <1>2 DEF LoadGen, Arrive, LockLast
<1>3. ASSUME NEW t \in Thread,
             Bump(t)
      PROVE  GenInv'
  BY <1>3 DEF Bump
<1>4. ASSUME NEW t \in Thread,
             Notify(t)
      PROVE  GenInv'
  BY <1>4 DEF Notify, NotifyAllThen
<1>5. ASSUME NEW t \in Thread,
             SpinPoisoned(t) \/ SpinReleased(t) \/ SpinAgain(t)
      PROVE  GenInv'
  BY <1>5 DEF SpinPoisoned, SpinReleased, SpinAgain, ReturnReleased, DropGuard
<1>6. ASSUME NEW t \in Thread,
             LockPark(t) \/ CheckReleased(t) \/ CheckPoisoned(t)
      PROVE  GenInv'
  BY <1>6 DEF LockPark, CheckReleased, CheckPoisoned, ReturnReleased,
              DropGuard
<1>7. ASSUME NEW t \in Thread,
             \/ CheckExpired(t) \/ CheckWait(t) \/ Sleep(t)
             \/ WakeExpired(t) \/ WakeSpurious(t) \/ Expire(t)
      PROVE  GenInv'
  BY <1>7 DEF CheckExpired, CheckWait, Sleep, WakeExpired, WakeSpurious, Expire
<1>8. ASSUME NEW t \in Thread,
             ReportPoisoned(t) \/ ReportTimedOut(t) \/ ReportMs(t)
      PROVE  GenInv'
  BY <1>8 DEF ReportPoisoned, ReportTimedOut, ReportMs, DropGuard
<1>9. ASSUME NEW t \in Thread,
             TripCas(t) \/ TripFlag(t) \/ Poison(t) \/ PoisonNotify(t)
      PROVE  GenInv'
  BY <1>9 DEF TripCas, TripFlag, Poison, PoisonNotify, NotifyAllThen
<1>10. CASE UNCHANGED vars
  BY <1>10 DEF vars
<1> QED
  BY <1>1, <1>2, <1>3, <1>4, <1>5, <1>6, <1>7, <1>8, <1>9, <1>10
     DEF Next, Done

\* The worker whose arrival completes the count is the last of the round.
LEMMA ArriveStep ==
  ASSUME BarrierInv, NEW t \in Thread, Arrive(t)
  PROVE  CountInv' /\ LastInv'
<1> USE DEF BarrierInv, TypeOK, Arrive
<1>1. arrived[t] = round /\ t \notin InRound
  BY DEF RoundInv, Between, InRound
<1>2. InRound' = InRound \cup {t}
  BY <1>1 DEF InRound
<1>3. IsFiniteSet(InRound) /\ Cardinality(InRound') = Cardinality(InRound) + 1
  <2>1. IsFiniteSet(InRound)
    BY ThreadAssumption, FS_Subset DEF InRound
  <2> QED
    BY <1>1, <1>2, <2>1, FS_AddElement
<1>4. \A u \in Thread : pc[u] \notin {"lock_last", "bump"}
  BY <1>1 DEF LastInv
<1>5. count = Cardinality(InRound)
  BY <1>4 DEF CountInv
<1>6. CountInv'
  <2>1. \A u \in Thread : pc'[u] # "bump"
    BY <1>4
  <2> QED
    BY <1>3, <1>5, <2>1 DEF CountInv
<1>7. ASSUME count + 1 = Parties PROVE InRound' = Thread
  <2>1. InRound' \subseteq Thread
    BY DEF InRound
  <2> QED
    BY <1>3, <1>5, <1>7, <2>1, ThreadAssumption, FS_Subset DEF Parties
<1>8. \A u \in Thread : pc'[u] \in {"lock_last", "bump"} => u = t /\ count + 1 = Parties
  BY <1>4
<1> QED
  BY <1>6, <1>7, <1>8 DEF LastInv

\* A round starts with nobody in it.
LEMMA BumpStep ==
  ASSUME BarrierInv, NEW t \in Thread, Bump(t)
  PROVE  CountInv' /\ LastInv'
<1> USE DEF BarrierInv, TypeOK, Bump
<1>1. InRound' = {}
  BY DEF RoundInv, InRound
<1>2. Cardinality(InRound') = 0
  BY <1>1, FS_EmptySet
<1>3. \A u \in Thread : pc'[u] \notin {"lock_last", "bump"}
  BY DEF LastInv
<1>4. count' = 0
  BY DEF CountInv
<1> QED
  BY <1>2, <1>3, <1>4 DEF CountInv, LastInv

\* No other step changes who is in the round or who releases it.
LEMMA SameRoundStep ==
  ASSUME BarrierInv, UNCHANGED <<arrived, round, count>>,
         \A u \in Thread : pc'[u] \in {"lock_last", "bump"} <=> pc[u] \in {"lock_last", "bump"},
         \A u \in Thread : pc'[u] = "bump" <=> pc[u] = "bump"
  PROVE  CountInv' /\ LastInv'
<1>1. InRound' = InRound
  BY DEF InRound
<1> QED
  BY <1>1 DEF BarrierInv, CountInv, LastInv

\* Workers are counted, and the last of them is alone, whatever step is taken.
LEMMA CountStep == BarrierInv /\ [Next]_vars => CountInv' /\ LastInv'
<1> SUFFICES ASSUME BarrierInv, [Next]_vars PROVE CountInv' /\ LastInv'
  OBVIOUS
<1> USE DEF BarrierInv, TypeOK
<1>1. ASSUME NEW t \in Thread, Arrive(t) PROVE CountInv' /\ LastInv'
  BY <1>1, ArriveStep
<1>2. ASSUME NEW t \in Thread, Bump(t) PROVE CountInv' /\ LastInv'
  BY <1>2, BumpStep
<1>3. ASSUME NEW t \in Thread, LockLast(t) PROVE CountInv' /\ LastInv'
  <2>1. InRound' = InRound
    BY <1>3 DEF LockLast, InRound
  <2> QED
    BY <1>3, <2>1 DEF LockLast, CountInv, LastInv
<1>4. ASSUME NEW t \in Thread,
             \/ WorkerStep(t) \/ LoadGen(t) \/ Notify(t) \/ SpinPoisoned(t)
             \/ SpinReleased(t) \/ SpinAgain(t) \/ LockPark(t)
      PROVE  CountInv' /\ LastInv'
  BY <1>4, SameRoundStep
     DEF Enter, Finish, Panic, LoadGen, Notify, NotifyAllThen, SpinPoisoned,
         SpinReleased, SpinAgain, LockPark, ReturnReleased
<1>5. ASSUME NEW t \in Thread,
             \/ CheckReleased(t) \/ CheckPoisoned(t) \/ CheckExpired(t)
             \/ CheckWait(t) \/ Sleep(t) \/ WakeExpired(t)
             \/ WakeSpurious(t) \/ Expire(t)
      PROVE  CountInv' /\ LastInv'
  BY <1>5, SameRoundStep
     DEF CheckReleased, CheckPoisoned, CheckExpired, CheckWait, Sleep,
         WakeExpired, WakeSpurious, Expire, ReturnReleased
<1>6. ASSUME NEW t \in Thread,
             \/ ReportPoisoned(t) \/ ReportTimedOut(t) \/ ReportMs(t)
             \/ TripCas(t) \/ TripFlag(t) \/ Poison(t) \/ PoisonNotify(t)
      PROVE  CountInv' /\ LastInv'
  BY <1>6, SameRoundStep
     DEF ReportPoisoned, ReportTimedOut, ReportMs, TripCas, TripFlag, Poison,
         PoisonNotify, NotifyAllThen
<1>7. CASE UNCHANGED vars
  BY <1>7, SameRoundStep DEF vars
<1> QED
  BY <1>1, <1>2, <1>3, <1>4, <1>5, <1>6, <1>7 DEF Next, Done

-----------------------------------------------------------------------------
\* The barrier starts with nobody in the first round.
LEMMA InitInv == Init => BarrierInv
<1> SUFFICES ASSUME Init PROVE BarrierInv
  OBVIOUS
<1> USE DEF Init
<1>1. TypeOK
  <2>1. 0 \in 0 .. GenMod - 1
    BY BoundAssumption
  <2>2. /\ generation \in 0 .. GenMod - 1
        /\ cur_gen \in [Thread -> 0 .. GenMod - 1]
    BY <2>1
  <2>3. pc \in [Thread -> Points]
    OBVIOUS
  <2>4. /\ deadline \in [Thread -> Deadlines]
        /\ result \in [Thread -> Results]
    OBVIOUS
  <2> QED
    BY <2>2, <2>3, <2>4 DEF TypeOK
<1>2. InRound = {} /\ Cardinality(InRound) = 0
  BY FS_EmptySet DEF InRound
<1>3. RoundInv /\ GenInv /\ CountInv /\ LastInv
  BY <1>2 DEF RoundInv, GenInv, CountInv, LastInv, Between, Waiting
<1>4. LockInv /\ NoLostWakeup /\ PoisonInv
  BY DEF LockInv, NoLostWakeup, PoisonInv, Locked, Failures
<1> QED
  BY <1>1, <1>3, <1>4 DEF BarrierInv

\* BarrierInv is inductive: the argument behind the theorems below.
LEMMA BarrierInvariant == Spec => []BarrierInv
<1>1. BarrierInv /\ [Next]_vars => BarrierInv'
  BY TypeStep, RoundStep, GenStep, CountStep, LockStep, WakeUpStep, PoisonStep
     DEF BarrierInv
<1> QED
  BY InitInv, <1>1, PTL DEF Spec

\* The barrier's state keeps its types, for any number of workers.
THEOREM TypeCorrect == Spec => []TypeOK
<1>1. BarrierInv => TypeOK
  BY DEF BarrierInv
<1> QED
  BY <1>1, BarrierInvariant, PTL

\* wait() never lets a worker out of a round that another has not reached:
\* every round rests between arrived and released of every two workers.
THEOREM NoEarlyReleaseHolds == Spec => []NoEarlyRelease
<1>1. BarrierInv => NoEarlyRelease
  BY DEF BarrierInv, TypeOK, RoundInv, NoEarlyRelease
<1> QED
  BY <1>1, BarrierInvariant, PTL

\* No wake-up is lost between a waiter's last test and its sleep.
THEOREM NoLostWakeupHolds == Spec => []NoLostWakeup
<1>1. BarrierInv => NoLostWakeup
  BY DEF BarrierInv
<1> QED
  BY <1>1, BarrierInvariant, PTL

\* A Poisoned result means that a worker panicked.
THEOREM PoisonedOnlyByPanicHolds == Spec => []PoisonedOnlyByPanic
<1>1. BarrierInv => PoisonedOnlyByPanic
  BY DEF BarrierInv, PoisonInv, SomePanic, PoisonedOnlyByPanic
<1> QED
  BY <1>1, BarrierInvariant, PTL

\* The failure locations keep their first value.
THEOREM FailureStays == Spec => FailureIsSticky
<1> DEFINE Sticky ==
      /\ poisoned => poisoned'
      /\ timed_out => timed_out'
      /\ timeout_elapsed_ms # 0 => timeout_elapsed_ms' = timeout_elapsed_ms
<1>1. ASSUME Next PROVE Sticky
  <2>1. ASSUME NEW t \in Thread, WorkerStep(t) PROVE Sticky
    BY <2>1 DEF Enter, Finish, Panic
  <2>2. ASSUME NEW t \in Thread,
               \/ LoadGen(t) \/ Arrive(t) \/ LockLast(t) \/ Bump(t)
               \/ Notify(t) \/ SpinPoisoned(t) \/ SpinReleased(t)
               \/ SpinAgain(t) \/ LockPark(t)
        PROVE  Sticky
    BY <2>2 DEF LoadGen, Arrive, LockLast, Bump, Notify, SpinPoisoned,
                SpinReleased, SpinAgain, LockPark
  <2>3. ASSUME NEW t \in Thread,
               \/ CheckReleased(t) \/ CheckPoisoned(t) \/ CheckExpired(t)
               \/ CheckWait(t) \/ Sleep(t) \/ WakeExpired(t)
               \/ WakeSpurious(t) \/ Expire(t)
        PROVE  Sticky
    BY <2>3 DEF CheckReleased, CheckPoisoned, CheckExpired, CheckWait, Sleep,
                WakeExpired, WakeSpurious, Expire
  <2>4. ASSUME NEW t \in Thread,
               \/ ReportPoisoned(t) \/ ReportTimedOut(t) \/ ReportMs(t)
               \/ TripCas(t) \/ TripFlag(t) \/ Poison(t) \/ PoisonNotify(t)
        PROVE  Sticky
    BY <2>4 DEF ReportPoisoned, ReportTimedOut, ReportMs, TripCas, TripFlag,
                Poison, PoisonNotify
  <2> QED
    BY <1>1, <2>1, <2>2, <2>3, <2>4 DEF Next, Done, vars
<1>2. [Next]_vars => [Sticky]_vars
  BY <1>1
<1> QED
  BY <1>2, PTL DEF Spec, FailureIsSticky

-----------------------------------------------------------------------------
(* What a TimedOut result leaves behind.                                   *)

\* The reading is there before the flag, the flag before the poison, and the
\* poison before the worker ends.
TimeoutInv ==
    /\ timed_out => timeout_elapsed_ms # 0
    /\ \A t \in Thread :
         /\ pc[t] = "trip_flag" => timeout_elapsed_ms # 0 /\ elapsed_ms[t] # 0
         /\ result[t] = "TimedOut" =>
              /\ elapsed_ms[t] # 0
              /\ pc[t] \in {"poison_notify", "exit"} => poisoned

LEMMA TimeoutStep == BarrierInv /\ TimeoutInv /\ [Next]_vars => TimeoutInv'
<1> SUFFICES ASSUME BarrierInv, TimeoutInv, [Next]_vars PROVE TimeoutInv'
  OBVIOUS
<1> USE BoundAssumption DEF BarrierInv, TypeOK, PoisonInv, Failures, TimeoutInv
<1>1. ASSUME NEW t \in Thread, WorkerStep(t) PROVE TimeoutInv'
  BY <1>1 DEF Enter, Finish, Panic
<1>2. ASSUME NEW t \in Thread, LoadGen(t) \/ Arrive(t) \/ LockLast(t) \/ Bump(t)
      PROVE  TimeoutInv'
  BY <1>2 DEF LoadGen, Arrive, LockLast, Bump
<1>3. ASSUME NEW t \in Thread, Notify(t) PROVE TimeoutInv'
  BY <1>3 DEF Notify, NotifyAllThen
<1>4. ASSUME NEW t \in Thread, SpinPoisoned(t) \/ SpinReleased(t) \/ SpinAgain(t)
      PROVE  TimeoutInv'
  BY <1>4 DEF SpinPoisoned, SpinReleased, SpinAgain, ReturnReleased
<1>5. ASSUME NEW t \in Thread, LockPark(t) \/ CheckReleased(t) \/ CheckPoisoned(t)
      PROVE  TimeoutInv'
  BY <1>5 DEF LockPark, CheckReleased, CheckPoisoned, ReturnReleased
<1>6. ASSUME NEW t \in Thread,
             \/ CheckExpired(t) \/ CheckWait(t) \/ Sleep(t)
             \/ WakeExpired(t) \/ WakeSpurious(t) \/ Expire(t)
      PROVE  TimeoutInv'
  BY <1>6 DEF CheckExpired, CheckWait, Sleep, WakeExpired, WakeSpurious, Expire
<1>7. ASSUME NEW t \in Thread, ReportPoisoned(t) \/ ReportTimedOut(t)
      PROVE  TimeoutInv'
  BY <1>7 DEF ReportPoisoned, ReportTimedOut
<1>8. ASSUME NEW t \in Thread, ReportMs(t) PROVE TimeoutInv'
  BY <1>8 DEF ReportMs
<1>9. ASSUME NEW t \in Thread, TripCas(t) PROVE TimeoutInv'
  BY <1>9 DEF TripCas
<1>10. ASSUME NEW t \in Thread, TripFlag(t) PROVE TimeoutInv'
  BY <1>10 DEF TripFlag
<1>11. ASSUME NEW t \in Thread, Poison(t) \/ PoisonNotify(t) PROVE TimeoutInv'
  BY <1>11 DEF Poison, PoisonNotify, NotifyAllThen
<1>12. CASE UNCHANGED vars
  BY <1>12 DEF vars
<1> QED
  BY <1>1, <1>2, <1>3, <1>4, <1>5, <1>6, <1>7, <1>8, <1>9, <1>10, <1>11, <1>12
     DEF Next, Done

\* When a worker has ended with TimedOut, timed_out(), the poison and a reading
\* that is not 0 are there for run_quanta_checked to find after the join.
THEOREM TimeoutIsRecordedHolds == Spec => []TimeoutIsRecorded
<1>1. Init => BarrierInv /\ TimeoutInv
  BY InitInv DEF Init, TimeoutInv
<1>2. BarrierInv /\ TimeoutInv /\ [Next]_vars => TimeoutInv'
  BY TimeoutStep
<1>3. BarrierInv /\ TimeoutInv => TimeoutIsRecorded
  BY DEF BarrierInv, PoisonInv, TimeoutInv, TimeoutIsRecorded
<1> QED
  BY <1>1, <1>2, <1>3, BarrierInvariant, PTL DEF Spec

-----------------------------------------------------------------------------
(* The barrier implements Rendezvous.                                      *)

broken == timed_out \/ SomePanic
left   == {t \in Thread : result[t] \in Failures}

\* The substitution of Promise, by the names used in this module.
LEMMA PromiseState ==
  /\ Promise!Init <=> /\ arrived = [t \in Thread |-> 0]
                      /\ released = [t \in Thread |-> 0]
                      /\ broken = FALSE
                      /\ left = {}
  /\ Promise!Next <=>
       \E t \in Thread :
         \/ /\ t \notin left
            /\ arrived[t] = released[t]
            /\ arrived' = [arrived EXCEPT ![t] = @ + 1]
            /\ UNCHANGED <<released, broken, left>>
         \/ /\ t \notin left
            /\ released[t] < arrived[t]
            /\ \A u \in Thread : arrived[t] <= arrived[u]
            /\ released' = [released EXCEPT ![t] = arrived[t]]
            /\ UNCHANGED <<arrived, broken, left>>
         \/ /\ ~broken
            /\ broken' = TRUE
            /\ left' = left \cup {t}
            /\ UNCHANGED <<arrived, released>>
         \/ /\ broken
            /\ left' = left \cup {t}
            /\ UNCHANGED <<arrived, released, broken>>
BY DEF Promise!Init, Promise!Next, Promise!Arrive,
       Promise!Release, Promise!Break, Promise!Leave, broken, left, SomePanic,
       Failures

\* A worker that returns a failure leaves, and the rendezvous is broken then.
LEMMA LeaveStep ==
  ASSUME BarrierInv, NEW t \in Thread, broken', broken => broken',
         left' = left \cup {t}, UNCHANGED <<arrived, released>>
  PROVE  [Promise!Next]_(Promise!vars)
<1>1. broken \in BOOLEAN /\ broken' \in BOOLEAN
  BY DEF BarrierInv, TypeOK, broken
<1>2. CASE broken
  BY <1>1, <1>2, PromiseState
<1>3. CASE ~broken
  BY <1>1, <1>3, PromiseState
<1> QED
  BY <1>2, <1>3

\* A worker that returns Released was in a round that all had entered.
LEMMA ReleaseStep ==
  ASSUME BarrierInv, NEW t \in Thread,
         arrived[t] = round, released[t] + 1 = arrived[t],
         result[t] \notin Failures,
         result' = [result EXCEPT ![t] = "Released"],
         released' = [released EXCEPT ![t] = @ + 1],
         UNCHANGED <<arrived, timed_out>>
  PROVE  [Promise!Next]_(Promise!vars)
<1> USE DEF BarrierInv, TypeOK
<1>1. UNCHANGED left
  BY DEF left, Failures
<1>2. UNCHANGED broken
  BY DEF broken, SomePanic, Failures
<1>3. t \notin left
  BY DEF left
<1>4. \A u \in Thread : arrived[t] <= arrived[u]
  BY DEF RoundInv
<1>5. released' = [released EXCEPT ![t] = arrived[t]]
  OBVIOUS
<1>6. released[t] < arrived[t]
  OBVIOUS
<1> HIDE DEF BarrierInv, TypeOK
<1> QED
  BY <1>1, <1>2, <1>3, <1>4, <1>5, <1>6, PromiseState

\* Nothing the rendezvous speaks of changes.
LEMMA StutterStep ==
  ASSUME UNCHANGED <<arrived, released, timed_out, result>>
  PROVE  [Promise!Next]_(Promise!vars)
<1>1. UNCHANGED <<broken, left>>
  BY DEF broken, left, SomePanic
<1> QED
  BY <1>1 DEF Promise!vars, broken, left, SomePanic, Failures

\* Every step of the barrier is a step of the rendezvous, or none.
LEMMA PromiseStep ==
  BarrierInv /\ [Next]_vars => [Promise!Next]_(Promise!vars)
<1> SUFFICES ASSUME BarrierInv, [Next]_vars
             PROVE  [Promise!Next]_(Promise!vars)
  OBVIOUS
<1> USE DEF BarrierInv, TypeOK
<1>1. ASSUME NEW t \in Thread, Arrive(t)
      PROVE  [Promise!Next]_(Promise!vars)
  <2>1. UNCHANGED <<broken, left, released>>
    BY <1>1 DEF Arrive, broken, left, SomePanic
  <2>2. t \notin left /\ arrived[t] = released[t]
    BY <1>1 DEF Arrive, left, PoisonInv, RoundInv, Between
  <2>3. arrived' = [arrived EXCEPT ![t] = @ + 1]
    BY <1>1 DEF Arrive
  <2> HIDE DEF BarrierInv, TypeOK
  <2> QED
    BY <2>1, <2>2, <2>3, PromiseState
<1>2. ASSUME NEW t \in Thread, Notify(t)
      PROVE  [Promise!Next]_(Promise!vars)
  <2>1. arrived[t] = round /\ released[t] + 1 = arrived[t]
    BY <1>2 DEF Notify, RoundInv, Waiting
  <2>2. result[t] \notin Failures
    BY <1>2 DEF Notify, PoisonInv
  <2> QED
    BY <1>2, <2>1, <2>2, ReleaseStep DEF Notify
<1>3. ASSUME NEW t \in Thread, SpinReleased(t) \/ CheckReleased(t)
      PROVE  [Promise!Next]_(Promise!vars)
  <2>1. arrived[t] = round /\ released[t] + 1 = arrived[t]
    BY <1>3 DEF SpinReleased, CheckReleased, RoundInv, GenInv, Waiting
  <2>2. result[t] \notin Failures
    BY <1>3 DEF SpinReleased, CheckReleased, PoisonInv
  <2> QED
    BY <1>3, <2>1, <2>2, ReleaseStep
       DEF SpinReleased, CheckReleased, ReturnReleased
<1>4. ASSUME NEW t \in Thread,
             Panic(t) \/ TripFlag(t) \/ ReportPoisoned(t) \/ ReportMs(t)
      PROVE  [Promise!Next]_(Promise!vars)
  <2>1. broken' /\ (broken => broken')
    <3>1. CASE Panic(t)
      BY <3>1 DEF Panic, broken, SomePanic
    <3>2. CASE TripFlag(t)
      BY <3>2 DEF TripFlag, broken
    <3>3. CASE ReportPoisoned(t) \/ ReportMs(t)
      BY <3>3 DEF ReportPoisoned, ReportMs, broken, SomePanic, PoisonInv,
                  Failures
    <3> QED
      BY <1>4, <3>1, <3>2, <3>3
  <2>2. left' = left \cup {t}
    BY <1>4 DEF Panic, TripFlag, ReportPoisoned, ReportMs, left, Failures
  <2>3. UNCHANGED <<arrived, released>>
    BY <1>4 DEF Panic, TripFlag, ReportPoisoned, ReportMs
  <2> QED
    BY <2>1, <2>2, <2>3, LeaveStep
<1>5. ASSUME NEW t \in Thread,
             \/ Enter(t) \/ Finish(t) \/ LoadGen(t) \/ LockLast(t) \/ Bump(t)
             \/ SpinPoisoned(t) \/ SpinAgain(t) \/ LockPark(t)
             \/ CheckPoisoned(t) \/ CheckExpired(t) \/ CheckWait(t)
             \/ Sleep(t) \/ WakeExpired(t) \/ WakeSpurious(t) \/ Expire(t)
             \/ ReportTimedOut(t) \/ TripCas(t) \/ Poison(t) \/ PoisonNotify(t)
      PROVE  [Promise!Next]_(Promise!vars)
  <2>1. UNCHANGED <<arrived, released, timed_out, result>>
    BY <1>5 DEF Enter, Finish, LoadGen, LockLast, Bump, SpinPoisoned,
                SpinAgain, LockPark, CheckPoisoned, CheckExpired, CheckWait,
                Sleep, WakeExpired, WakeSpurious, Expire, ReportTimedOut,
                TripCas, Poison, PoisonNotify
  <2> QED
    BY <2>1, StutterStep
<1>6. CASE UNCHANGED vars
  BY <1>6, StutterStep DEF vars
<1> QED
  BY <1>1, <1>2, <1>3, <1>4, <1>5, <1>6 DEF Next, Done

\* The spin-then-park barrier implements the abstract rendezvous: its initial
\* states are initial states of it and each of its steps is a step of it or
\* changes nothing it speaks of.
THEOREM BarrierImplementsRendezvous == Spec => ImplementsRendezvous
<1>1. Init => Promise!Init
  BY PromiseState DEF Init, broken, left, SomePanic, Failures
<1>2. BarrierInv /\ [Next]_vars => [Promise!Next]_(Promise!vars)
  BY PromiseStep
<1> QED
  BY <1>1, <1>2, BarrierInvariant, PTL
     DEF Spec, ImplementsRendezvous, Promise!Spec
=============================================================================
