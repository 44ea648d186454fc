------------------------- MODULE ThreadedQuantumProofs -------------------------
(***************************************************************************)
(* Proofs about ThreadedQuantum for any number of quanta, any quantum      *)
(* length, instruction costs, FIFO depth and firmware, and for cores that  *)
(* are halted or not.  QuantumInv says that nobody is a round ahead of a   *)
(* worker that has not arrived, and that a core that has drained its mask  *)
(* in a quantum whose alarms are still to be polled has no timer line in   *)
(* it: the coordinator stores the lines before it arrives, and the core    *)
(* drains the mask after it is released.  CycleInv ties each clock to the  *)
(* quanta its worker has begun: target and master_cycle count them, and a  *)
(* core that is awake reaches its target before it arrives.                *)
(***************************************************************************)
EXTENDS ThreadedQuantum, TLAPS

Types ==
    /\ TypeOK
    /\ pc \in [Worker -> CorePoints \cup CoordPoints]

RoundInv ==
    /\ \A u, w \in Worker : quantum[w] <= Arrived(u)
    /\ \A w \in Worker : pc[w] # "done" => quantum[w] < Quanta

\* Past the drain at the top of the quantum.
Drained == CorePoints \ {"top", "top_drain", "done"}

LatencyInv ==
    \A c \in Core :
      /\ pc[c] \in Drained
      /\ \/ quantum[c] > quantum[Coord]
         \/ quantum[c] = quantum[Coord] /\ pc[Coord] = "poll"
      => Timer \notin irq_pending[c]

\* Quanta for which a core has set its target, and the coordinator its clock.
Begun(c) == quantum[c] + IF pc[c] \in {"top", "top_drain", "done"} THEN 0 ELSE 1
Ticked == quantum[Coord] + IF pc[Coord] \in {"poll", "done"} THEN 0 ELSE 1

CycleInv ==
    /\ master_cycle = StepQuantum * Ticked
    /\ \A c \in Core : target[c] = StepQuantum * Begun(c)
    /\ \A c \in Core : cycles[c] < target[c] + MaxCost
    /\ \A c \in Core : pc[c] = "barrier" /\ Awake(c) => cycles[c] >= target[c]

QuantumInv == Types /\ RoundInv /\ LatencyInv /\ CycleInv

USE DEF Worker, Core, Coord

-----------------------------------------------------------------------------
(* Types.                                                                  *)

LEMMA OtherCore == \A c \in Core : Other(c) \in Core /\ Other(c) # c
  BY DEF Other

ClockTypes ==
    master_cycle \in Nat /\ cycles \in [Core -> Nat] /\ target \in [Core -> Nat]

\* A core's step charges its cycles, leaves the head of the loop, and touches
\* no interrupt mask.
LEMMA CoreStepMoves ==
    ASSUME Types, NEW c \in Core, CoreStep(c)
    PROVE  /\ pc[c] = "loop" /\ UNCHANGED <<quantum, irq_pending, master_cycle, target>>
           /\ cycles[c] < target[c]
           /\ \E cost \in 1 .. MaxCost : cycles' = [cycles EXCEPT ![c] = @ + cost]
           /\ ClockTypes'
           /\ \E to \in {"after", "push_event", "sev_second"} : Goto(c, to)
<1>1. \E to \in {"after", "push_event", "sev_second"} : CoreSteps(c, to)
  BY DEF CoreStep, TakeIrq, Push, PushFull, Pop, PopEmpty, Sev, Wfe, Wfi,
         AckTimer, Plain, Execute
<1>2. UNCHANGED irq_pending
  BY DEF CoreStep, TakeIrq, Push, PushFull, Pop, PopEmpty, Sev, Wfe, Wfi,
         AckTimer, Plain
<1>3. \A cost \in 1 .. MaxCost : [cycles EXCEPT ![c] = @ + cost] \in [Core -> Nat]
  BY QuantumAssumption DEF Types, TypeOK
<1>4. UNCHANGED <<master_cycle, target>>
  BY <1>1 DEF CoreSteps
<1>5. pc[c] = "loop" /\ UNCHANGED quantum /\ cycles[c] < target[c]
  BY <1>1 DEF CoreSteps, CanStep
<1>6. \E cost \in 1 .. MaxCost : cycles' = [cycles EXCEPT ![c] = @ + cost]
  BY <1>1 DEF CoreSteps
<1>7. ClockTypes'
  <2>1. cycles' \in [Core -> Nat]
    BY <1>3, <1>6
  <2> QED BY <1>4, <2>1 DEF ClockTypes, Types, TypeOK
<1> QED BY <1>1, <1>2, <1>4, <1>5, <1>6, <1>7 DEF CoreSteps

\* The state other than program points, quanta and clocks.
DataTypes ==
    /\ halted \in [Core -> BOOLEAN] /\ wfe_waiting \in [Core -> BOOLEAN]
    /\ event_flag \in [Core -> BOOLEAN]
    /\ irq_pending \in [Core -> SUBSET Line] /\ nvic \in [Core -> SUBSET Line]
    /\ fifo \in [Core -> 0 .. FifoDepth]
    /\ timer_level \in BOOLEAN

LEMMA CoreStepData == ASSUME Types, NEW c \in Core, CoreStep(c) PROVE DataTypes'
<1> USE OtherCore, QuantumAssumption DEF Types, TypeOK, DataTypes, sleep, Execute
<1>1. CASE TakeIrq(c)
  BY <1>1 DEF TakeIrq
<1>2. CASE Push(c)
  <2>1. fifo' \in [Core -> 0 .. FifoDepth]
    BY <1>2 DEF Push
  <2> QED BY <1>2, <2>1 DEF Push
<1>3. CASE PushFull(c)
  BY <1>3 DEF PushFull
<1>4. CASE Pop(c)
  <2>1. fifo' \in [Core -> 0 .. FifoDepth]
    BY <1>4 DEF Pop
  <2> QED BY <1>4, <2>1 DEF Pop
<1>5. CASE PopEmpty(c)
  BY <1>5 DEF PopEmpty
<1>6. CASE Sev(c)
  BY <1>6 DEF Sev
<1>7. CASE Wfe(c)
  BY <1>7 DEF Wfe
<1>8. CASE Wfi(c)
  BY <1>8 DEF Wfi
<1>9. CASE AckTimer(c) \/ Plain(c)
  BY <1>9 DEF AckTimer, Plain
<1> QED BY <1>1, <1>2, <1>3, <1>4, <1>5, <1>6, <1>7, <1>8, <1>9 DEF CoreStep

LEMMA TypeStep == Types /\ RoundInv /\ [Next]_vars => Types'
<1> SUFFICES ASSUME Types, RoundInv, [Next]_vars PROVE Types'
  OBVIOUS
<1> USE DEF sleep, clocks
<1>1. DataTypes /\ ClockTypes /\ quantum \in [Worker -> 0 .. Quanta]
  BY DEF Types, TypeOK, DataTypes, ClockTypes
<1>a. ASSUME DataTypes', ClockTypes', quantum' \in [Worker -> 0 .. Quanta],
             NEW w \in Worker, NEW to, Goto(w, to),
             w \in Core => to \in CorePoints, w = Coord => to \in CoordPoints
      PROVE  Types'
  <2>1. /\ pc' \in [Worker -> CorePoints \cup CoordPoints] /\ pc'[Coord] \in CoordPoints
        /\ \A c \in Core : pc'[c] \in CorePoints
    BY <1>a DEF Goto, Types, TypeOK
  <2> QED BY <1>a, <2>1 DEF Types, TypeOK, DataTypes, ClockTypes
<1>2. ASSUME NEW c \in Core, Top(c) PROVE Types'
  <2>1. DataTypes' /\ ClockTypes' /\ UNCHANGED quantum /\ Goto(c, "top_drain")
    BY <1>1, <1>2 DEF Top, DataTypes, ClockTypes
  <2> QED BY <1>1, <1>a, <2>1 DEF CorePoints
<1>3. ASSUME NEW c \in Core, TopDrain(c) PROVE Types'
  <2>1. DataTypes' /\ UNCHANGED quantum /\ Goto(c, "loop")
    BY <1>1, <1>3 DEF TopDrain, Drain, DataTypes
  <2>2. ClockTypes'
    BY <1>1, <1>3, QuantumAssumption DEF TopDrain, ClockTypes
  <2> QED BY <1>1, <1>a, <2>1, <2>2 DEF CorePoints
<1>4. ASSUME NEW c \in Core, CoreStep(c) PROVE Types'
  BY <1>1, <1>4, <1>a, CoreStepMoves, CoreStepData DEF CorePoints
<1>5. ASSUME NEW c \in Core, PushEvent(c) \/ PushIrq(c) \/ SevSecond(c) PROVE Types'
  <2>1. DataTypes'
    <3>1. CASE PushEvent(c)
      BY <1>1, <3>1, OtherCore DEF PushEvent, DataTypes
    <3>2. CASE PushIrq(c)
      BY <1>1, <3>2, OtherCore DEF PushIrq, DataTypes, Line
    <3>3. CASE SevSecond(c)
      BY <1>1, <3>3 DEF SevSecond, DataTypes
    <3> QED BY <1>5, <3>1, <3>2, <3>3
  <2>2. UNCHANGED quantum /\ ClockTypes' /\ (Goto(c, "push_irq") \/ Goto(c, "after"))
    BY <1>1, <1>5 DEF PushEvent, PushIrq, SevSecond, ClockTypes
  <2> QED BY <1>1, <1>a, <2>1, <2>2 DEF CorePoints
<1>6. ASSUME NEW c \in Core, After(c) \/ LoopEnd(c) PROVE Types'
  <2>1. DataTypes'
    BY <1>1, <1>6 DEF After, LoopEnd, Drain, DataTypes
  <2>2. UNCHANGED quantum /\ ClockTypes' /\ (Goto(c, "barrier") \/ Goto(c, "loop"))
    BY <1>1, <1>6 DEF After, LoopEnd, ClockTypes
  <2> QED BY <1>1, <1>a, <2>1, <2>2 DEF CorePoints
<1>7. CASE Poll \/ Store0 \/ Store1
  <2>1. DataTypes'
    <3>1. CASE Poll
      <4>1. timer_level' \in BOOLEAN
        BY <1>1, <3>1 DEF Poll, DataTypes
      <4> QED BY <1>1, <3>1, <4>1 DEF Poll, DataTypes
    <3>2. CASE Store0 \/ Store1
      BY <1>1, <3>2 DEF Store0, Store1, DataTypes, Line
    <3> QED BY <1>7, <3>1, <3>2
  <2>2. UNCHANGED quantum /\ \E to \in CoordPoints : Goto(Coord, to)
    BY <1>7 DEF Poll, Store0, Store1, CoordPoints
  <2>3. ClockTypes'
    <3>1. CASE Poll
      BY <1>1, <3>1, QuantumAssumption DEF Poll, ClockTypes
    <3>2. CASE Store0 \/ Store1
      BY <1>1, <3>2 DEF Store0, Store1, ClockTypes
    <3> QED BY <1>7, <3>1, <3>2
  <2> QED BY <1>1, <1>a, <2>1, <2>2, <2>3
<1>8. ASSUME NEW w \in Worker, Released(w) PROVE Types'
  <2>1. DataTypes' /\ ClockTypes'
    BY <1>1, <1>8 DEF Released, DataTypes, ClockTypes
  <2>2. quantum' \in [Worker -> 0 .. Quanta]
    BY <1>1, <1>8, QuantumAssumption DEF Released, RoundInv
  <2>3. Goto(w, "done") \/ Goto(w, First(w))
    BY <1>8 DEF Released
  <2> QED BY <1>1, <1>a, <2>1, <2>2, <2>3 DEF First, CorePoints, CoordPoints
<1>9. CASE UNCHANGED vars
  BY <1>9 DEF vars, Types, TypeOK
<1> QED BY <1>2, <1>3, <1>4, <1>5, <1>6, <1>7, <1>8, <1>9
        DEF Next, CoreWorker, Coordinator, Done

-----------------------------------------------------------------------------
(* The rounds.                                                             *)

\* A worker goes on in its quantum, arrives at the barrier, or is released
\* from it.
LEMMA Steps ==
    ASSUME Types, RoundInv, [Next]_vars
    PROVE  \/ UNCHANGED <<pc, quantum>>
           \/ \E w \in Worker, to \in CorePoints \cup CoordPoints :
                 /\ pc[w] \notin {"barrier", "done"} /\ to \notin {"top", "done"}
                 /\ Goto(w, to) /\ UNCHANGED quantum
           \/ \E w \in Worker : Released(w)
<1> DEFINE Goes(w, to) == /\ pc[w] \notin {"barrier", "done"} /\ to \notin {"top", "done"}
                          /\ Goto(w, to) /\ UNCHANGED quantum
<1>1. ASSUME NEW c \in Core, Top(c) \/ TopDrain(c) \/ PushEvent(c) \/ PushIrq(c) \/ SevSecond(c)
                             \/ After(c) \/ LoopEnd(c)
      PROVE  \E to \in CorePoints : Goes(c, to)
  BY <1>1 DEF Top, TopDrain, PushEvent, PushIrq, SevSecond, After, LoopEnd, CorePoints
<1>2. ASSUME NEW c \in Core, CoreStep(c) PROVE \E to \in CorePoints : Goes(c, to)
  BY <1>2, CoreStepMoves DEF CorePoints
<1>3. ASSUME Poll \/ Store0 \/ Store1 PROVE \E to \in CoordPoints : Goes(Coord, to)
  BY <1>3 DEF Poll, Store0, Store1, CoordPoints
<1>4. Done \/ UNCHANGED vars => UNCHANGED <<pc, quantum>>
  BY DEF Done, vars
<1> HIDE DEF Goes
<1>5. \/ UNCHANGED <<pc, quantum>> \/ \E w \in Worker : Released(w)
      \/ \E w \in Worker, to \in CorePoints \cup CoordPoints : Goes(w, to)
  BY <1>1, <1>2, <1>3, <1>4 DEF Next, CoreWorker, Coordinator
<1> QED BY <1>5 DEF Goes

LEMMA RoundStep == Types /\ RoundInv /\ [Next]_vars => RoundInv'
<1> SUFFICES ASSUME Types, RoundInv, [Next]_vars PROVE RoundInv'
  OBVIOUS
<1>1. /\ pc \in [Worker -> CorePoints \cup CoordPoints] /\ quantum \in [Worker -> 0 .. Quanta]
      /\ Quanta \in Nat /\ \A w \in Worker : quantum[w] \in Nat
  BY QuantumAssumption DEF Types, TypeOK
<1>2. CASE UNCHANGED <<pc, quantum>>
  BY <1>2 DEF RoundInv, Arrived
<1>3. ASSUME NEW w \in Worker, NEW to \in CorePoints \cup CoordPoints,
             pc[w] \notin {"barrier", "done"}, to \notin {"top", "done"},
             Goto(w, to), UNCHANGED quantum
      PROVE  RoundInv'
  <2>1. \A u \in Worker : Arrived(u)' >= Arrived(u) /\ Arrived(u) \in Nat /\ Arrived(u)' \in Nat
    BY <1>1, <1>3 DEF Goto, Arrived
  <2>2. \A u \in Worker : pc'[u] # "done" => pc[u] # "done"
    BY <1>1, <1>3 DEF Goto
  <2>3. \A u, v \in Worker : quantum[v] <= Arrived(u)'
    BY <1>1, <2>1 DEF RoundInv
  <2> QED BY <1>3, <2>2, <2>3 DEF RoundInv
<1>4. ASSUME NEW w \in Worker, Released(w) PROVE RoundInv'
  <2>1. /\ quantum' = [quantum EXCEPT ![w] = @ + 1] /\ pc[w] = "barrier"
        /\ pc' = [pc EXCEPT ![w] = IF quantum'[w] = Quanta THEN "done" ELSE First(w)]
        /\ \A u \in Worker : Arrived(u) > quantum[w]
    BY <1>4 DEF Released, Goto
  <2>2. \A u \in Worker : Arrived(u)' = Arrived(u) /\ Arrived(u) \in Nat
    BY <1>1, <2>1 DEF Arrived, First
  <2>3. \A u, v \in Worker : quantum'[v] <= Arrived(u)'
    BY <1>1, <2>1, <2>2 DEF RoundInv
  <2>4. \A u \in Worker : pc'[u] # "done" => quantum'[u] < Quanta
    BY <1>1, <2>1 DEF RoundInv
  <2> QED BY <2>3, <2>4 DEF RoundInv
<1> QED BY <1>2, <1>3, <1>4, Steps

-----------------------------------------------------------------------------
(* The latency of a timer line.                                            *)

LEMMA LatencyStep == Types /\ RoundInv /\ LatencyInv /\ [Next]_vars => LatencyInv'
<1> SUFFICES ASSUME Types, RoundInv, LatencyInv, [Next]_vars, NEW d \in Core,
                    pc'[d] \in Drained,
                    \/ quantum'[d] > quantum'[Coord]
                    \/ quantum'[d] = quantum'[Coord] /\ pc'[Coord] = "poll"
             PROVE  Timer \notin irq_pending'[d]
  BY DEF LatencyInv
<1> USE DEF sleep, clocks
<1>1. /\ pc \in [Worker -> CorePoints \cup CoordPoints] /\ quantum \in [Worker -> 0 .. Quanta]
      /\ irq_pending \in [Core -> SUBSET Line]
      /\ Quanta \in Nat /\ \A w \in Worker : quantum[w] \in Nat
  BY QuantumAssumption DEF Types, TypeOK
<1>a. ASSUME pc'[d] = pc[d] \/ pc[d] \in Drained, pc'[Coord] = pc[Coord], UNCHANGED quantum,
             Timer \in irq_pending'[d] => Timer \in irq_pending[d]
      PROVE  Timer \notin irq_pending'[d]
  BY <1>a DEF LatencyInv
<1>2. ASSUME NEW c \in Core, Top(c) PROVE Timer \notin irq_pending'[d]
  <2>1. /\ pc' = [pc EXCEPT ![c] = "top_drain"] /\ UNCHANGED quantum /\ UNCHANGED irq_pending
    BY <1>2 DEF Top, Goto
  <2> QED BY <1>1, <1>a, <2>1 DEF Drained
<1>3. ASSUME NEW c \in Core, TopDrain(c) PROVE Timer \notin irq_pending'[d]
  <2>1. /\ pc' = [pc EXCEPT ![c] = "loop"] /\ UNCHANGED quantum
        /\ irq_pending' = [irq_pending EXCEPT ![c] = {}]
    BY <1>3 DEF TopDrain, Drain, Goto
  <2> QED BY <1>1, <1>a, <2>1
<1>4. ASSUME NEW c \in Core, CoreStep(c) PROVE Timer \notin irq_pending'[d]
  <2>1. PICK to \in {"after", "push_event", "sev_second"} : pc' = [pc EXCEPT ![c] = to]
    BY <1>4, CoreStepMoves DEF Goto
  <2>2. pc[c] = "loop" /\ UNCHANGED quantum /\ UNCHANGED irq_pending
    BY <1>4, CoreStepMoves
  <2> QED BY <1>1, <1>a, <2>1, <2>2 DEF Drained, CorePoints
<1>5. ASSUME NEW c \in Core, PushEvent(c) \/ PushIrq(c) \/ SevSecond(c)
      PROVE  Timer \notin irq_pending'[d]
  <2>1. PICK to \in {"push_irq", "after"} : pc' = [pc EXCEPT ![c] = to]
    BY <1>5 DEF PushEvent, PushIrq, SevSecond, Goto
  <2>2. pc[c] \in Drained /\ UNCHANGED quantum
    BY <1>5 DEF PushEvent, PushIrq, SevSecond, Drained, CorePoints
  <2>3. Timer \in irq_pending'[d] => Timer \in irq_pending[d]
    BY <1>1, <1>5, OtherCore DEF PushEvent, PushIrq, SevSecond, Timer, Fifo
  <2> QED BY <1>1, <1>a, <2>1, <2>2, <2>3
<1>6. ASSUME NEW c \in Core, After(c) \/ LoopEnd(c) PROVE Timer \notin irq_pending'[d]
  <2>1. PICK to \in {"barrier", "loop"} : pc' = [pc EXCEPT ![c] = to]
    BY <1>6 DEF After, LoopEnd, Goto
  <2>2. pc[c] \in Drained /\ UNCHANGED quantum
    BY <1>6 DEF After, LoopEnd, Drained, CorePoints
  <2>3. Timer \in irq_pending'[d] => Timer \in irq_pending[d]
    BY <1>1, <1>6 DEF After, LoopEnd, Drain
  <2> QED BY <1>1, <1>a, <2>1, <2>2, <2>3
\* While a core is ahead of it, the coordinator is at the barrier.
<1>7. CASE Poll \/ Store0 \/ Store1
  <2>1. /\ pc[Coord] \in {"poll", "store0", "store1"} /\ pc'[Coord] # "poll"
        /\ UNCHANGED quantum
    BY <1>1, <1>7 DEF Poll, Store0, Store1, Goto
  <2>2. quantum[d] <= quantum[Coord]
    <3>1. Arrived(Coord) = quantum[Coord]
      BY <1>1, <2>1 DEF Arrived
    <3>2. quantum[d] <= Arrived(Coord)
      BY DEF RoundInv
    <3> QED BY <3>1, <3>2
  <2> QED BY <1>1, <2>1, <2>2
<1>8. ASSUME NEW w \in Worker, Released(w) PROVE Timer \notin irq_pending'[d]
  <2>1. /\ quantum' = [quantum EXCEPT ![w] = @ + 1] /\ pc[w] = "barrier"
        /\ pc' = [pc EXCEPT ![w] = IF quantum'[w] = Quanta THEN "done" ELSE First(w)]
        /\ irq_pending' = irq_pending
    BY <1>8 DEF Released, Goto
  <2>2. CASE w = d
    BY <1>1, <2>1, <2>2 DEF Drained, First
  <2>3. CASE w = Coord
    BY <1>1, <2>1, <2>3 DEF LatencyInv
  <2>4. CASE w \notin {d, Coord}
    BY <1>1, <2>1, <2>4 DEF LatencyInv
  <2> QED BY <2>2, <2>3, <2>4
<1>9. CASE UNCHANGED vars
  BY <1>9, <1>a DEF vars
<1> QED BY <1>2, <1>3, <1>4, <1>5, <1>6, <1>7, <1>8, <1>9
        DEF Next, CoreWorker, Coordinator, Done

-----------------------------------------------------------------------------
(* The clocks.                                                             *)

LEMMA CycleStep == Types /\ RoundInv /\ CycleInv /\ [Next]_vars => CycleInv'
<1> SUFFICES ASSUME Types, RoundInv, CycleInv, [Next]_vars PROVE CycleInv'
  OBVIOUS
<1> USE DEF sleep, clocks
<1>1. /\ pc \in [Worker -> CorePoints \cup CoordPoints] /\ quantum \in [Worker -> 0 .. Quanta]
      /\ \A c \in Core : pc[c] \in CorePoints
      /\ master_cycle \in Nat /\ cycles \in [Core -> Nat] /\ target \in [Core -> Nat]
      /\ Quanta \in Nat /\ StepQuantum \in Nat \ {0} /\ MaxCost \in Nat \ {0}
      /\ \A w \in Worker : quantum[w] \in Nat
  BY QuantumAssumption DEF Types, TypeOK
\* A core moves inside its quantum, and no clock but perhaps its own goes on.
<1>a. ASSUME NEW c \in Core, NEW to \in CorePoints \ {"top", "top_drain", "done"},
             pc[c] \notin {"top", "top_drain", "barrier", "done"}, Goto(c, to),
             UNCHANGED <<quantum, master_cycle, target>>, cycles' \in [Core -> Nat],
             cycles'[c] < target[c] + MaxCost,
             \A d \in Core \ {c} : cycles'[d] = cycles[d] /\ (Awake(d)' => Awake(d)),
             to = "barrier" /\ Awake(c)' => cycles'[c] >= target[c]
      PROVE  CycleInv'
  <2>1. Ticked' = Ticked /\ \A d \in Core : Begun(d)' = Begun(d)
    BY <1>1, <1>a DEF Goto, Ticked, Begun
  <2>2. \A d \in Core : cycles'[d] < target'[d] + MaxCost
    BY <1>a DEF CycleInv
  <2>3. \A d \in Core : pc'[d] = "barrier" /\ Awake(d)' => cycles'[d] >= target'[d]
    BY <1>1, <1>a DEF CycleInv, Goto
  <2> QED BY <1>a, <2>1, <2>2, <2>3 DEF CycleInv
<1>2. ASSUME NEW c \in Core, Top(c) PROVE CycleInv'
  <2>1. /\ pc[c] = "top" /\ pc' = [pc EXCEPT ![c] = "top_drain"]
        /\ UNCHANGED <<quantum, master_cycle, cycles, target, halted>>
        /\ \A d \in Core \ {c} : wfe_waiting'[d] = wfe_waiting[d]
    BY <1>2 DEF Top, Goto, Types, TypeOK
  <2>2. Ticked' = Ticked /\ \A d \in Core : Begun(d)' = Begun(d)
    BY <1>1, <2>1 DEF Ticked, Begun
  <2>3. \A d \in Core : pc'[d] = "barrier" /\ Awake(d)' => pc[d] = "barrier" /\ Awake(d)
    BY <1>1, <2>1 DEF Awake
  <2> QED BY <2>1, <2>2, <2>3 DEF CycleInv
<1>3. ASSUME NEW c \in Core, TopDrain(c) PROVE CycleInv'
  <2>1. /\ pc[c] = "top_drain" /\ pc' = [pc EXCEPT ![c] = "loop"]
        /\ target' = [target EXCEPT ![c] = @ + StepQuantum]
        /\ UNCHANGED <<quantum, master_cycle, cycles, halted, wfe_waiting>>
    BY <1>3 DEF TopDrain, Goto
  <2>2. /\ Ticked' = Ticked /\ Begun(c)' = Begun(c) + 1 /\ Begun(c) \in Nat
        /\ \A d \in Core \ {c} : Begun(d)' = Begun(d)
    BY <1>1, <2>1 DEF Ticked, Begun
  <2>3. target'[c] = StepQuantum * Begun(c)'
    BY <1>1, <2>1, <2>2 DEF CycleInv
  <2>4. \A d \in Core : target'[d] = StepQuantum * Begun(d)'
    BY <1>1, <2>1, <2>2, <2>3 DEF CycleInv
  <2>5. \A d \in Core : cycles'[d] < target'[d] + MaxCost
    BY <1>1, <2>1 DEF CycleInv
  <2>6. \A d \in Core : pc'[d] = "barrier" /\ Awake(d)' => cycles'[d] >= target'[d]
    BY <1>1, <2>1 DEF CycleInv, Awake
  <2> QED BY <2>1, <2>2, <2>4, <2>5, <2>6 DEF CycleInv
<1>4. ASSUME NEW c \in Core, CoreStep(c) PROVE CycleInv'
  <2>1. PICK to \in {"after", "push_event", "sev_second"} : Goto(c, to)
    BY <1>4, CoreStepMoves
  <2>2. PICK cost \in 1 .. MaxCost : cycles' = [cycles EXCEPT ![c] = @ + cost]
    BY <1>4, CoreStepMoves
  <2>3. /\ pc[c] = "loop" /\ UNCHANGED <<quantum, master_cycle, target>>
        /\ cycles[c] < target[c]
    BY <1>4, CoreStepMoves
  <2>4. cycles' \in [Core -> Nat] /\ cycles'[c] < target[c] + MaxCost
    BY <1>1, <2>2, <2>3
  <2>5. \A d \in Core \ {c} : halted'[d] = halted[d] /\ wfe_waiting'[d] = wfe_waiting[d]
    BY <1>4 DEF CoreStep, TakeIrq, Push, PushFull, Pop, PopEmpty, Sev, Wfe, Wfi,
                AckTimer, Plain, Types, TypeOK
  <2>6. \A d \in Core \ {c} : cycles'[d] = cycles[d] /\ (Awake(d)' => Awake(d))
    BY <1>1, <2>2, <2>5 DEF Awake
  <2> QED BY <1>a, <2>1, <2>3, <2>4, <2>6 DEF CorePoints
<1>5. ASSUME NEW c \in Core, PushEvent(c) \/ PushIrq(c) \/ SevSecond(c) PROVE CycleInv'
  <2>1. PICK to \in {"push_irq", "after"} : Goto(c, to)
    BY <1>5 DEF PushEvent, PushIrq, SevSecond
  <2>2. /\ pc[c] \in {"push_event", "push_irq", "sev_second"}
        /\ UNCHANGED <<quantum, master_cycle, cycles, target, halted, wfe_waiting>>
    BY <1>5 DEF PushEvent, PushIrq, SevSecond
  <2>3. \A d \in Core : Awake(d)' => Awake(d)
    BY <2>2 DEF Awake
  <2>4. cycles'[c] < target[c] + MaxCost
    BY <2>2 DEF CycleInv
  <2> QED BY <1>1, <1>a, <2>1, <2>2, <2>3, <2>4 DEF CorePoints
\* A core leaves its loop asleep, halted, or at its target.
<1>6. ASSUME NEW c \in Core, After(c) \/ LoopEnd(c) PROVE CycleInv'
  <2>1. PICK to \in {"barrier", "loop"} :
          Goto(c, to) /\ (to = "barrier" => ~Awake(c) \/ cycles[c] >= target[c])
    BY <1>1, <1>6 DEF After, LoopEnd, CanStep, Awake
  <2>2. /\ pc[c] \in {"after", "loop"}
        /\ UNCHANGED <<quantum, master_cycle, cycles, target, halted, wfe_waiting>>
    BY <1>6 DEF After, LoopEnd
  <2>3. \A d \in Core : Awake(d)' <=> Awake(d)
    BY <2>2 DEF Awake
  <2>4. cycles'[c] < target[c] + MaxCost
    BY <2>2 DEF CycleInv
  <2> QED BY <1>1, <1>a, <2>1, <2>2, <2>3, <2>4 DEF CorePoints
<1>7. CASE Poll \/ Store0 \/ Store1
  <2>1. PICK to \in {"store0", "store1", "barrier"} : pc' = [pc EXCEPT ![Coord] = to]
    BY <1>7 DEF Poll, Store0, Store1, Goto
  <2>2. UNCHANGED <<quantum, cycles, target, halted, wfe_waiting>>
    BY <1>7 DEF Poll, Store0, Store1
  <2>3. \A d \in Core : pc'[d] = pc[d] /\ Begun(d)' = Begun(d) /\ (Awake(d)' => Awake(d))
    BY <1>1, <2>1, <2>2 DEF Begun, Awake
  <2>4. master_cycle' = StepQuantum * Ticked'
    <3>1. CASE Poll
      <4>1. Ticked' = Ticked + 1 /\ Ticked \in Nat
        BY <1>1, <2>1, <2>2, <3>1 DEF Poll, Ticked
      <4> QED BY <1>1, <3>1, <4>1 DEF Poll, CycleInv
    <3>2. CASE Store0 \/ Store1
      <4>1. Ticked' = Ticked /\ UNCHANGED master_cycle
        BY <1>1, <2>1, <2>2, <3>2 DEF Store0, Store1, Ticked
      <4> QED BY <4>1 DEF CycleInv
    <3> QED BY <1>7, <3>1, <3>2
  <2> QED BY <2>2, <2>3, <2>4 DEF CycleInv
<1>8. ASSUME NEW w \in Worker, Released(w) PROVE CycleInv'
  <2>1. /\ quantum' = [quantum EXCEPT ![w] = @ + 1] /\ pc[w] = "barrier"
        /\ pc' = [pc EXCEPT ![w] = IF quantum'[w] = Quanta THEN "done" ELSE First(w)]
        /\ UNCHANGED <<master_cycle, cycles, target, halted, wfe_waiting>>
    BY <1>8 DEF Released, Goto
  <2>2. /\ \A u \in Worker \ {w} : pc'[u] = pc[u] /\ quantum'[u] = quantum[u]
        /\ quantum'[w] = quantum[w] + 1 /\ pc'[w] \in {"done", First(w)}
    BY <1>1, <2>1
  <2>3. Ticked' = Ticked /\ \A d \in Core : Begun(d)' = Begun(d)
    BY <1>1, <2>1, <2>2 DEF Ticked, Begun, First
  <2>4. \A d \in Core : pc'[d] = "barrier" /\ Awake(d)' => pc[d] = "barrier" /\ Awake(d)
    BY <1>1, <2>1, <2>2 DEF Awake, First
  <2> QED BY <2>1, <2>3, <2>4 DEF CycleInv
<1>9. CASE UNCHANGED vars
  BY <1>9 DEF vars, CycleInv, Ticked, Begun, Awake
<1> QED BY <1>2, <1>3, <1>4, <1>5, <1>6, <1>7, <1>8, <1>9
        DEF Next, CoreWorker, Coordinator, Done

-----------------------------------------------------------------------------
(* The theorems.                                                           *)

LEMMA InitInv == Init => QuantumInv
<1> SUFFICES ASSUME Init PROVE QuantumInv
  OBVIOUS
<1>1. /\ \A w \in Worker : pc[w] = IF Quanta = 0 THEN "done" ELSE First(w)
      /\ \A w \in Worker : quantum[w] = 0
      /\ pc \in [Worker -> CorePoints \cup CoordPoints] /\ quantum \in [Worker -> 0 .. Quanta]
  BY QuantumAssumption DEF Init, First, CorePoints, CoordPoints
<1>2. Types
  <2>1. halted \in [Core -> BOOLEAN]
    BY DEF Init
  <2>2. /\ wfe_waiting \in [Core -> BOOLEAN] /\ event_flag \in [Core -> BOOLEAN]
        /\ timer_level \in BOOLEAN
    BY DEF Init
  <2>3. /\ irq_pending \in [Core -> SUBSET Line] /\ nvic \in [Core -> SUBSET Line]
        /\ fifo \in [Core -> 0 .. FifoDepth]
        /\ master_cycle \in Nat /\ cycles \in [Core -> Nat] /\ target \in [Core -> Nat]
    BY QuantumAssumption DEF Init
  <2>4. pc[Coord] \in CoordPoints /\ \A c \in Core : pc[c] \in CorePoints
    BY <1>1 DEF First, CorePoints, CoordPoints
  <2> QED BY <1>1, <2>1, <2>2, <2>3, <2>4 DEF Types, TypeOK
<1>3. RoundInv
  <2>1. \A w \in Worker : Arrived(w) = 0
    BY <1>1 DEF Arrived, First
  <2> QED BY <1>1, <2>1, QuantumAssumption DEF RoundInv
<1>4. LatencyInv
  BY <1>1 DEF LatencyInv, First, Drained
<1>5. CycleInv
  <2>1. /\ master_cycle = 0 /\ \A c \in Core : cycles[c] = 0 /\ target[c] = 0
    BY DEF Init
  <2>2. Ticked = 0 /\ \A c \in Core : Begun(c) = 0 /\ pc[c] # "barrier"
    BY <1>1 DEF Ticked, Begun, First
  <2> QED BY <2>1, <2>2, QuantumAssumption DEF CycleInv
<1> QED BY <1>2, <1>3, <1>4, <1>5 DEF QuantumInv

THEOREM Invariance == Spec => []QuantumInv
<1>1. QuantumInv /\ [Next]_vars => QuantumInv'
  BY TypeStep, RoundStep, LatencyStep, CycleStep DEF QuantumInv
<1> QED BY <1>1, InitInv, PTL DEF Spec

\* Every reachable state is well typed: no FIFO overruns its capacity and no
\* worker starts a quantum more than it was asked for.
THEOREM TypeCorrect == Spec => []TypeOK
<1>1. QuantumInv => TypeOK
  BY DEF QuantumInv, Types
<1> QED BY <1>1, Invariance, PTL

\* A timer line published in one quantum is in the core's NVIC before the
\* first instruction of the next, whatever the interleaving inside a quantum
\* (core_worker_body, coordinator_worker_body).
THEOREM TimerLatencyIsOneQuantum == Spec => []TimerLatency
<1>1. QuantumInv => TimerLatency
  BY DEF QuantumInv, LatencyInv, TimerLatency, Drained, CorePoints
<1> QED BY <1>1, Invariance, PTL

\* No core is ever a quantum and an instruction ahead of the master clock, not
\* even one that catches up what it slept, and no core that is awake arrives
\* a quantum behind it, however long instructions take (core_worker_body's
\* target, coordinator_worker_body step 4).
THEOREM ClocksStayTogether == Spec => []ClocksAgree
<1>1. QuantumInv => ClocksAgree
  <2> SUFFICES ASSUME Types, RoundInv, CycleInv, NEW c \in Core
               PROVE  /\ cycles[c] < master_cycle + StepQuantum + MaxCost
                      /\ pc[c] = "barrier" /\ Awake(c) => cycles[c] + StepQuantum >= master_cycle
    BY DEF QuantumInv, ClocksAgree
  <2>1. /\ pc \in [Worker -> CorePoints \cup CoordPoints] /\ quantum \in [Worker -> 0 .. Quanta]
        /\ master_cycle \in Nat /\ cycles \in [Core -> Nat] /\ target \in [Core -> Nat]
        /\ StepQuantum \in Nat \ {0} /\ MaxCost \in Nat \ {0}
        /\ \A w \in Worker : quantum[w] \in Nat
    BY QuantumAssumption DEF Types, TypeOK
  <2>2. /\ quantum[c] <= Arrived(Coord) /\ quantum[Coord] <= Arrived(c)
        /\ Arrived(Coord) <= Ticked /\ Begun(c) \in Nat /\ Ticked \in Nat
    <3>1. quantum[c] <= Arrived(Coord) /\ quantum[Coord] <= Arrived(c)
      BY DEF RoundInv
    <3>2. Arrived(Coord) <= Ticked /\ Begun(c) \in Nat /\ Ticked \in Nat
      BY <2>1 DEF Arrived, Ticked, Begun
    <3> QED BY <3>1, <3>2
  <2>3. Begun(c) <= Ticked + 1
    <3>1. Begun(c) <= quantum[c] + 1 /\ Arrived(Coord) \in Nat
      BY <2>1 DEF Begun, Arrived
    <3> QED BY <2>1, <2>2, <3>1
  <2>4. StepQuantum * Begun(c) <= StepQuantum * Ticked + StepQuantum
    BY <2>1, <2>2, <2>3
  <2>5. ASSUME pc[c] = "barrier", Awake(c) PROVE cycles[c] + StepQuantum >= master_cycle
    <3>1. Begun(c) = quantum[c] + 1 /\ Ticked <= Begun(c) + 1
      BY <2>1, <2>2, <2>5 DEF Begun, Arrived, Ticked
    <3>2. StepQuantum * Ticked <= StepQuantum * Begun(c) + StepQuantum
      BY <2>1, <2>2, <3>1
    <3>3. cycles[c] >= StepQuantum * Begun(c) /\ master_cycle = StepQuantum * Ticked
      BY <2>5 DEF CycleInv
    <3> QED BY <2>1, <2>2, <3>2, <3>3
  <2>6. cycles[c] < master_cycle + StepQuantum + MaxCost
    <3>1. cycles[c] < StepQuantum * Begun(c) + MaxCost /\ master_cycle = StepQuantum * Ticked
      BY DEF CycleInv
    <3> QED BY <2>1, <2>2, <2>4, <3>1
  <2> QED BY <2>5, <2>6
<1> QED BY <1>1, Invariance, PTL
================================================================================
