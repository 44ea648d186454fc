------------------------- MODULE ThreadedRunProofs -------------------------
(***************************************************************************)
(* Proofs about ThreadedRun for any pins, PIO pins and state machines, any *)
(* number of calls and quanta, and any firmware.  RoundInv is the barrier  *)
(* seen from here: in a call every worker that still runs is in the same   *)
(* round, whoever was sent away, gave up or panicked.  The other parts say *)
(* how far the coordinator's clock, the saved dividers, the queued         *)
(* commands and the pin merge are in that round.                           *)
(***************************************************************************)
EXTENDS ThreadedRun, SequenceTheorems, TLAPS

Command == [val : SUBSET Sm, quantum : Nat]

Types ==
    /\ TypeOK
    /\ pc \in [Worker -> CorePoints \cup CoordPoints]
    /\ commands \in Seq(Command)

\* The rounds a worker has behind it: one whose round is over but that has
\* not left its wait is in the next one already.
Round(w) == IF pc[w] = "wait" /\ w \notin arrived THEN quantum[w] + 1 ELSE quantum[w]

\* A call takes everything along, and a worker that fails poisons the barrier.
CallInv ==
    /\ \A w \in Worker : pc[w] = "none" => Idle
    /\ ~Idle => promoted /\ error = NoReply /\ home = {}
    /\ Panicked # {} => broken
    /\ ~Idle /\ broken => timed_out \/ Panicked # {}

\* Until the barrier breaks all are in one round; then those still running.
Counts(w) == w \in Running \/ ~broken

RoundInv ==
    ~Idle =>
        /\ \A u, v \in Worker : Counts(u) /\ Counts(v) => Round(u) = Round(v)
        /\ \A w \in Running : quantum[w] < n
        /\ \A w \in Worker : pc[w] = "ended" /\ ~broken => quantum[w] = n
        /\ \A w \in arrived : pc[w] = "wait" \/ (pc[w] = "ended" /\ broken)

ClockInv ==
    /\ OkIsComplete
    /\ error = NoReply => ~poisoned
    /\ Coord \in Running =>
           clock = Now(Coord) + (IF pc[Coord] \in {"end", "arrive", "wait"}
                                 THEN 1 ELSE 0)
    /\ pc[Coord] = "ended" /\ ~broken => clock = Now(Coord)

DividerInv ==
    /\ DividerSurvives
    /\ \A c \in Core : pc[c] = "ended" /\ ~broken => dividers[c] = divided[c]

Since(q) == \A i \in 1 .. Len(commands) : commands[i].quantum >= q

CommandInv ==
    /\ Idle /\ error = NoReply => Since(elapsed - 1)
    /\ pc[Coord] = "drain" => Since(Now(Coord) - 1)
    /\ Coord \in Running /\ pc[Coord] # "drain" => Since(Now(Coord))
    /\ pc[Coord] = "ended" /\ ~broken => Since(Now(Coord) - 1)

StarveInv ==
    /\ starved <= 1
    /\ (IF promoted THEN smEnabled ELSE mask) = {} => starved = 0

\* What the coordinator loaded is what the register holds, but for the pins
\* written since.
MergeInv ==
    /\ GpioWriteSticks
    /\ "out" \in merging <=> pc[Coord] \in {"loadOe", "storeOut"}
    /\ "oe" \in merging <=> pc[Coord] \in {"storeOut", "storeOe"}
    /\ IF "out" \in merging THEN sio.out \ since.out = out \ since.out
                            ELSE since.out = {}
    /\ IF "oe" \in merging THEN sio.oe \ since.oe = oe \ since.oe
                           ELSE since.oe = {}

RunInv ==
    /\ Types /\ CallInv /\ RoundInv /\ ClockInv /\ DividerInv /\ CommandInv
    /\ StarveInv /\ MergeInv

USE DEF Worker, Core, Coord

-----------------------------------------------------------------------------
(* Types.                                                                  *)

PadTypes == PadTypeOK /\ commands \in Seq(Command)

LEMMA SetToType == \A S \in SUBSET Pin, p \in Pin, on \in BOOLEAN : SetTo(S, p, on) \in SUBSET Pin
  BY DEF SetTo

LEMMA CommandTypes == commands \in Seq(Command) => \A i \in DOMAIN commands : commands[i] \in Command
  BY LenProperties, ElementOfSeq

\* What the cores and the coordinator do to the pins and the PIO.
LEMMA PadStep ==
    ASSUME PadTypes
    PROVE  /\ \A p \in Pin, on \in BOOLEAN : WriteOut(p, on) \/ WriteOe(p, on) => PadTypes'
           /\ \A val \in SUBSET Sm, q \in Nat : SendCtrl(val, q) => PadTypes'
           /\ Drain \/ StepBlock \/ LoadOut \/ LoadOe \/ StoreOut \/ StoreOe => PadTypes'
           /\ PublishSeed \/ UNCHANGED padVars => PadTypes'
<1> USE PioPinAssumption DEF PadTypes, PadTypeOK, blockVars, gpioVars
<1>1. ASSUME NEW p \in Pin, NEW on \in BOOLEAN, WriteOut(p, on) \/ WriteOe(p, on)
      PROVE  PadTypes'
  <2>1. CASE WriteOut(p, on)
    BY <2>1, SetToType DEF WriteOut
  <2>2. CASE WriteOe(p, on)
    BY <2>2, SetToType DEF WriteOe
  <2> QED BY <1>1, <2>1, <2>2
<1>2. ASSUME NEW val \in SUBSET Sm, NEW q \in Nat, SendCtrl(val, q) PROVE PadTypes'
  <2>1. [val |-> val, quantum |-> q] \in Command
    BY DEF Command
  <2>2. commands' \in Seq(Command)
    BY <1>2, <2>1, AppendProperties DEF SendCtrl
  <2>3. \A i \in DOMAIN commands' : commands'[i] \in Command
    BY <2>2, LenProperties, ElementOfSeq
  <2> QED BY <1>2, <2>2, <2>3 DEF SendCtrl, Command
<1>3. CASE Drain
  <2>1. mask' \subseteq Sm
    <3>1. CASE commands = <<>>
      BY <1>3, <3>1 DEF Drain
    <3>2. CASE commands # <<>>
      <4>1. commands[Len(commands)] \in Command
        BY <3>2, EmptySeq, ElementOfSeq
      <4> QED BY <1>3, <3>2, <4>1 DEF Drain, Command
    <3> QED BY <3>1, <3>2
  <2>2. commands' = <<>> /\ commands' \in Seq(Command) /\ DOMAIN commands' = {}
    BY <1>3 DEF Drain
  <2> QED BY <1>3, <2>1, <2>2 DEF Drain, Driven
<1>4. CASE StepBlock
  BY <1>4 DEF StepBlock
<1>5. CASE LoadOut
  BY <1>5 DEF LoadOut
<1>6. CASE LoadOe
  BY <1>6 DEF LoadOe
<1>7. CASE StoreOut
  <2>1. out' \subseteq Pin
    BY <1>7 DEF StoreOut, MergedOut
  <2> QED BY <1>7, <2>1 DEF StoreOut, Replaced
<1>8. CASE StoreOe
  <2>1. oe' \subseteq Pin
    BY <1>8 DEF StoreOe, MergedOe
  <2> QED BY <1>8, <2>1 DEF StoreOe, Replaced
<1>9. CASE PublishSeed \/ UNCHANGED padVars
  BY <1>9 DEF PublishSeed, padVars
<1> QED BY <1>1, <1>2, <1>3, <1>4, <1>5, <1>6, <1>7, <1>8, <1>9

-----------------------------------------------------------------------------
(* The steps.                                                              *)

LEMMA LeastPanicked ==
    Panicked # {} =>
        LET least == CHOOSE w \in Panicked : \A v \in Panicked : Index[w] <= Index[v]
        IN  least \in Panicked /\ \A v \in Panicked : Index[least] <= Index[v]
<1> SUFFICES ASSUME Panicked # {}
             PROVE  \E w \in Panicked : \A v \in Panicked : Index[w] <= Index[v]
  OBVIOUS
<1>1. /\ Index["Core0"] = 0 /\ Index["Core1"] = 1 /\ Index["Coord"] = 2
      /\ Panicked \subseteq {"Core0", "Core1", "Coord"}
  BY DEF Index, Panicked
<1>2. CASE "Core0" \in Panicked
  BY <1>1, <1>2
<1>3. CASE "Core0" \notin Panicked /\ "Core1" \in Panicked
  BY <1>1, <1>3
<1>4. CASE "Core0" \notin Panicked /\ "Core1" \notin Panicked
  <2> "Coord" \in Panicked
    BY <1>1, <1>4
  <2> QED BY <1>1, <1>4
<1> QED BY <1>2, <1>3, <1>4

\* A call that failed, by a panic or by a timeout, returns no Ok.
LEMMA Outcomes ==
    /\ Outcome \in Reply
    /\ Outcome = Ok <=> Panicked = {} /\ ~timed_out
    /\ Outcome # NoReply
    /\ Panicked # {} =>
          /\ Outcome.kind = "panic" /\ Outcome.which \in Panicked
          /\ \A w \in Panicked : Index[Outcome.which] <= Index[w]
<1> DEFINE least == CHOOSE w \in Panicked : \A v \in Panicked : Index[w] <= Index[v]
<1>1. Panicked # {} => /\ least \in Panicked
                       /\ \A v \in Panicked : Index[least] <= Index[v]
  BY LeastPanicked
<1>2. Panicked \subseteq Worker
  BY DEF Panicked
<1>3. Outcome = IF Panicked # {} THEN [kind |-> "panic", which |-> least]
                ELSE IF timed_out THEN [kind |-> "timeout", which |-> Coord] ELSE Ok
  BY DEF Outcome
<1> HIDE DEF least
<1>4. Ok.kind = "ok" /\ NoReply.kind = "none"
  BY DEF Ok, NoReply
<1>5. Outcome.kind = IF Panicked # {} THEN "panic"
                     ELSE IF timed_out THEN "timeout" ELSE "ok"
  BY <1>3, <1>4
<1>6. Outcome \in Reply
  BY <1>1, <1>2, <1>3 DEF Reply, Ok
<1> QED BY <1>1, <1>3, <1>4, <1>5, <1>6

LEMMA NextQuantumStep ==
    ASSUME Types, NEW w \in Worker, quantum[w] < n, NextQuantum(w)
    PROVE  /\ quantum' = [quantum EXCEPT ![w] = @ + 1]
           /\ quantum[w] + 1 \in 0 .. n
           /\ pc' = [pc EXCEPT ![w] = IF quantum[w] + 1 = n THEN "ended" ELSE First(w)]
           /\ dividers' = IF w \in Core /\ quantum[w] + 1 = n
                          THEN [dividers EXCEPT ![w] = divider[w]] ELSE dividers
  BY RunAssumption DEF Types, TypeOK, NextQuantum, Return

LEMMA TypeStep == Types /\ RoundInv /\ [Next]_vars => Types'
<1> SUFFICES ASSUME Types, RoundInv, [Next]_vars PROVE Types'
  OBVIOUS
<1> USE RunAssumption DEF hostVars, meetVars, coreVars
<1>1. PadTypes /\ TypeOK /\ n \in Nat
  BY DEF Types, TypeOK, PadTypes
<1>a. ASSUME PadTypes',
             promoted' \in BOOLEAN, poisoned' \in BOOLEAN,
             error' \in Reply, reply' \in Reply, elapsed' \in Nat, clock' \in Nat,
             calls' \in 0 .. MaxCalls, n' \in Quanta \cup {0}, home' \subseteq Worker,
             pc' \in [Worker -> CorePoints \cup CoordPoints],
             \A c \in Core : pc'[c] \in CorePoints, pc'[Coord] \in CoordPoints,
             quantum' \in [Worker -> 0 .. n'], arrived' \subseteq Worker,
             broken' \in BOOLEAN, timed_out' \in BOOLEAN,
             ops' \in [Core -> 0 .. MaxOps], divider' \in [Core -> Operand],
             dividers' \in [Core -> Operand], divided' \in [Core -> Operand]
      PROVE  Types'
  BY <1>a DEF Types, TypeOK, PadTypes
<1>b. ASSUME NEW w \in Worker, NEW to, Goto(w, to),
             w \in Core => to \in CorePoints, w = Coord => to \in CoordPoints
      PROVE  /\ pc' \in [Worker -> CorePoints \cup CoordPoints]
             /\ \A c \in Core : pc'[c] \in CorePoints
             /\ pc'[Coord] \in CoordPoints
  BY <1>1, <1>b DEF Goto, Types, TypeOK
<1>c. ASSUME NEW w \in Worker, w \in Running, NextQuantum(w)
      PROVE  /\ pc' \in [Worker -> CorePoints \cup CoordPoints]
             /\ \A c \in Core : pc'[c] \in CorePoints
             /\ pc'[Coord] \in CoordPoints
             /\ quantum' \in [Worker -> 0 .. n]
             /\ dividers' \in [Core -> Operand]
  <2>1. quantum[w] < n
    BY <1>c DEF RoundInv, Idle, Running
  <2> DEFINE to == IF quantum[w] + 1 = n THEN "ended" ELSE First(w)
  <2>2. Goto(w, to) /\ (w \in Core => to \in CorePoints) /\ (w = Coord => to \in CoordPoints)
    BY <1>c, <2>1, NextQuantumStep DEF Goto, First, CorePoints, CoordPoints
  <2> HIDE DEF to
  <2>3. quantum' \in [Worker -> 0 .. n] /\ dividers' \in [Core -> Operand]
    BY <1>1, <1>c, <2>1, NextQuantumStep DEF TypeOK
  <2> QED BY <1>b, <2>2, <2>3
<1>2. ASSUME NEW k \in Quanta, Call(k) PROVE Types'
  <2>1. CASE error # NoReply
    <3>1. PadTypes' /\ calls' \in 0 .. MaxCalls /\ reply' \in Reply
      BY <1>1, <1>2, <2>1, PadStep DEF TypeOK, Call
    <3> QED BY <1>1, <1>2, <1>a, <2>1, <3>1 DEF Types, TypeOK, Call
  <2>2. CASE error = NoReply
    <3>1. PadTypes'
      BY <1>1, <1>2, <2>2, PadStep DEF Call
    <3>2. /\ pc' \in [Worker -> CorePoints \cup CoordPoints]
          /\ \A c \in Core : pc'[c] \in CorePoints
          /\ pc'[Coord] \in CoordPoints
      BY <1>2, <2>2 DEF Call, First, CorePoints, CoordPoints
    <3>3. quantum' \in [Worker -> 0 .. n'] /\ n' \in Quanta \cup {0}
      BY <1>2, <2>2 DEF Call
    <3>4. calls' \in 0 .. MaxCalls /\ promoted' \in BOOLEAN /\ home' \subseteq Worker
      BY <1>1, <1>2, <2>2 DEF TypeOK, Call
    <3>5. arrived' \subseteq Worker /\ broken' \in BOOLEAN /\ timed_out' \in BOOLEAN
      BY <1>2, <2>2 DEF Call
    <3>6. /\ ops' \in [Core -> 0 .. MaxOps] /\ divider' \in [Core -> Operand]
          /\ dividers' \in [Core -> Operand] /\ divided' \in [Core -> Operand]
      BY <1>1, <1>2, <2>2 DEF TypeOK, Call
    <3>7. /\ poisoned' \in BOOLEAN /\ error' \in Reply /\ reply' \in Reply
          /\ elapsed' \in Nat /\ clock' \in Nat
      BY <1>1, <1>2, <2>2 DEF TypeOK, Call
    <3> QED BY <1>a, <3>1, <3>2, <3>3, <3>4, <3>5, <3>6, <3>7
  <2> QED BY <2>1, <2>2
<1>3. CASE Join
  <2>1. Outcome \in Reply
    BY Outcomes
  <2>2. PadTypes'
    BY <1>1, <1>3, PadStep DEF Join
  <2>3. /\ pc' \in [Worker -> CorePoints \cup CoordPoints]
        /\ \A c \in Core : pc'[c] \in CorePoints
        /\ pc'[Coord] \in CoordPoints
    BY <1>3 DEF Join, CorePoints, CoordPoints
  <2>4. error' \in Reply /\ reply' \in Reply /\ home' \subseteq Worker
    BY <1>1, <1>3, <2>1 DEF Join, TypeOK
  <2>5. elapsed \in Nat /\ elapsed' = IF Outcome = Ok THEN elapsed + n ELSE elapsed
    BY <1>1, <1>3 DEF Join, TypeOK
  <2>6. elapsed' \in Nat /\ poisoned' \in BOOLEAN
    BY <1>1, <1>3, <2>5 DEF Join
  <2> QED BY <1>1, <1>3, <1>a, <2>2, <2>3, <2>4, <2>6 DEF Join, TypeOK
<1>4. CASE Coordinate
  <2>1. PICK from, to \in CoordPoints : CoordStep(from, to) /\ clock' \in Nat
    BY <1>1, <1>4 DEF Coordinate, CoordPoints, TypeOK
  <2>2. PadTypes'
    BY <1>1, <1>4, PadStep DEF Coordinate
  <2> QED BY <1>1, <1>a, <1>b, <2>1, <2>2 DEF CoordStep, TypeOK
<1>5. ASSUME NEW c \in Core, CoreRuns(c) PROVE Types'
  <2>1. PICK kind : CoreAccess(c, kind)
    BY <1>5 DEF CoreRuns, WriteGpioOut, WriteGpioOe, WritePioCtrl, WriteDivider
  <2>2. PadTypes'
    <3>1. Now(c) \in Nat
      BY <1>1 DEF Now, TypeOK
    <3> QED BY <1>1, <1>5, <3>1, PadStep
            DEF CoreRuns, WriteGpioOut, WriteGpioOe, WritePioCtrl, WriteDivider
  <2>3. divider' \in [Core -> Operand] /\ divided' \in [Core -> Operand]
    BY <1>1, <1>5 DEF CoreRuns, WriteGpioOut, WriteGpioOe, WritePioCtrl, WriteDivider, TypeOK
  <2>4. ops' \in [Core -> 0 .. MaxOps]
    BY <1>1, <2>1 DEF CoreAccess, TypeOK
  <2> QED BY <1>1, <1>a, <2>1, <2>2, <2>3, <2>4 DEF CoreAccess, TypeOK, Types
<1>6. ASSUME NEW w \in Worker, Enter(w) \/ SentAway(w) \/ Timeout(w) \/ Panic(w)
      PROVE  Types'
  <2>1. PICK to \in {"ended", "arrive", "panicked"} : Goto(w, to)
    BY <1>6 DEF Enter, SentAway, Timeout, Panic
  <2>2. to \in CorePoints /\ to \in CoordPoints
    BY DEF CorePoints, CoordPoints
  <2>3. PadTypes'
    BY <1>1, <1>6, PadStep DEF Enter, SentAway, Timeout, Panic
  <2> QED BY <1>1, <1>6, <1>a, <1>b, <2>1, <2>2, <2>3
          DEF Enter, SentAway, Timeout, Panic, TypeOK
<1>7. ASSUME NEW w \in Worker, Arrive(w) \/ Released(w) PROVE Types'
  <2>1. PadTypes' /\ w \in Running
    BY <1>1, <1>7, PadStep DEF Arrive, Released, Running
  <2>2. CASE NextQuantum(w)
    BY <1>1, <1>7, <1>a, <1>c, <2>1, <2>2 DEF Arrive, Released, TypeOK
  <2>3. CASE ~NextQuantum(w)
    <3>1. Goto(w, "wait") /\ "wait" \in CorePoints /\ "wait" \in CoordPoints
      BY <1>7, <2>3 DEF Arrive, Released, CorePoints, CoordPoints
    <3> QED BY <1>1, <1>7, <1>a, <1>b, <2>1, <2>3, <3>1 DEF Arrive, Released, TypeOK
  <2> QED BY <2>2, <2>3
<1>8. CASE UNCHANGED vars
  BY <1>1, <1>8, <1>a, PadStep DEF vars, Types, TypeOK
<1> QED BY <1>2, <1>3, <1>4, <1>5, <1>6, <1>7, <1>8 DEF Next, Calls, Meets

\* What becomes of a worker's program point: in a call it leaves a point only
\* by one of these ways.
LEMMA Moves ==
    ASSUME Types, RoundInv, NEW w \in Worker, w \in Running,
           Enter(w) \/ Arrive(w) \/ Released(w) \/ SentAway(w) \/ Timeout(w) \/ Panic(w)
    PROVE  /\ ~Idle
           /\ \A u \in Worker \ {w} : pc'[u] = pc[u] /\ quantum'[u] = quantum[u]
           /\ pc'[w] # "none"
           /\ UNCHANGED hostVars
           /\ broken => broken'
           /\ UNCHANGED <<divider, divided, clock, padVars>>
           /\ \/ /\ \/ pc[w] = Last(w) /\ pc'[w] = "arrive"
                    \/ pc[w] = "arrive" /\ pc'[w] = "wait"
                 /\ UNCHANGED <<quantum, dividers, broken>>
              \/ /\ pc[w] \in {"arrive", "wait"} /\ quantum'[w] = quantum[w] + 1
                 /\ pc'[w] = IF quantum[w] + 1 = n THEN "ended" ELSE First(w)
                 /\ dividers' = IF w \in Core /\ quantum[w] + 1 = n
                                THEN [dividers EXCEPT ![w] = divider[w]]
                                ELSE dividers
                 /\ UNCHANGED broken
              \/ /\ pc'[w] \in {"ended", "panicked"} /\ broken'
                 /\ UNCHANGED <<quantum, dividers>>
<1> USE DEF hostVars, meetVars, coreVars
<1>1. quantum[w] < n /\ ~Idle /\ pc \in [Worker -> CorePoints \cup CoordPoints]
      /\ quantum \in [Worker -> 0 .. n]
  BY DEF RoundInv, Idle, Running, Types, TypeOK
<1>2. CASE Enter(w)
  BY <1>1, <1>2 DEF Enter, Goto
<1>3. CASE Arrive(w)
  <2>1. CASE NextQuantum(w)
    BY <1>1, <1>3, <2>1, NextQuantumStep DEF Arrive, First
  <2>2. CASE ~NextQuantum(w)
    BY <1>1, <1>3, <2>2 DEF Arrive, Goto
  <2> QED BY <2>1, <2>2
<1>4. CASE Released(w)
  BY <1>1, <1>4, NextQuantumStep DEF Released, First
<1>5. CASE SentAway(w) \/ Timeout(w) \/ Panic(w)
  BY <1>1, <1>5 DEF SentAway, Timeout, Panic, Goto
<1> QED BY <1>2, <1>3, <1>4, <1>5

LEMMA CallStep == Types /\ CallInv /\ RoundInv /\ [Next]_vars => CallInv'
<1> SUFFICES ASSUME Types, CallInv, RoundInv, [Next]_vars PROVE CallInv'
  OBVIOUS
<1> USE DEF hostVars, meetVars, coreVars
<1>1. pc \in [Worker -> CorePoints \cup CoordPoints]
  BY DEF Types
<1>a. ASSUME UNCHANGED <<promoted, error, home, broken, timed_out>>,
             \A w \in Worker : \/ pc'[w] = pc[w]
                               \/ /\ pc'[w] \notin {"none", "panicked"}
                                  /\ pc[w] \notin {"none", "panicked"}
      PROVE  CallInv'
  BY <1>1, <1>a DEF CallInv, Idle, Panicked
<1>2. ASSUME NEW k \in Quanta, Call(k) PROVE CallInv'
  <2>1. CASE error # NoReply
    BY <1>2, <2>1 DEF Call, CallInv, Idle, Panicked
  <2>2. CASE error = NoReply
    <3>1. /\ \A w \in Worker : pc'[w] \notin {"none", "panicked"}
          /\ promoted' /\ error' = NoReply /\ home' = {} /\ ~broken'
      BY <1>2, <2>2 DEF Call, First
    <3> QED BY <3>1 DEF CallInv, Idle, Panicked
  <2> QED BY <2>1, <2>2
<1>3. CASE Join
  <2>1. \A w \in Worker : pc'[w] = "none"
    BY <1>3 DEF Join
  <2> QED BY <2>1 DEF CallInv, Idle, Panicked
<1>4. CASE Coordinate
  <2>1. PICK from, to \in CoordPoints \ {"none", "ended", "panicked"} : CoordStep(from, to)
    BY <1>4 DEF Coordinate, CoordPoints
  <2>2. /\ UNCHANGED promoted /\ UNCHANGED error /\ UNCHANGED home
        /\ UNCHANGED broken /\ UNCHANGED timed_out
        /\ pc' = [pc EXCEPT ![Coord] = to] /\ pc[Coord] = from
    BY <2>1 DEF CoordStep, Goto
  <2>3. \A w \in Worker : pc'[w] = pc[w] \/ (w = Coord /\ pc'[w] = to)
    BY <1>1, <2>2
  <2> QED BY <1>a, <2>1, <2>2, <2>3
<1>5. ASSUME NEW c \in Core, CoreRuns(c) PROVE CallInv'
  <2>1. PICK kind : CoreAccess(c, kind)
    BY <1>5 DEF CoreRuns, WriteGpioOut, WriteGpioOe, WritePioCtrl, WriteDivider
  <2>2. /\ UNCHANGED promoted /\ UNCHANGED error /\ UNCHANGED home
        /\ UNCHANGED broken /\ UNCHANGED timed_out /\ UNCHANGED pc
    BY <2>1 DEF CoreAccess
  <2> QED BY <1>a, <2>2
<1>6. ASSUME NEW w \in Worker, Enter(w) \/ Arrive(w) \/ Released(w) \/ SentAway(w) PROVE CallInv'
  <2>1. w \in Running
    BY <1>6 DEF Running, Last, Enter, Arrive, Released, SentAway
  <2>2. pc'[w] # "none" /\ \A u \in Worker \ {w} : pc'[u] = pc[u]
    BY <1>6, <2>1, Moves
  <2>3. pc'[w] # "panicked" /\ UNCHANGED <<hostVars, broken, timed_out>>
    <3>1. CASE Arrive(w) \/ Released(w)
      <4>1. CASE NextQuantum(w)
        BY <1>6, <2>1, <3>1, <4>1, NextQuantumStep
           DEF Arrive, Released, RoundInv, Types, First, Idle, Running
      <4> QED BY <1>1, <3>1, <4>1 DEF Arrive, Released, Goto
    <3> QED BY <1>1, <1>6, <3>1 DEF Enter, SentAway, Goto
  <2> QED BY <2>1, <2>2, <2>3 DEF CallInv, Idle, Panicked, Running
<1>7. ASSUME NEW w \in Worker, Timeout(w) PROVE CallInv'
  BY <1>1, <1>7 DEF Timeout, Goto, CallInv, Idle, Panicked
<1>8. ASSUME NEW w \in Worker, Panic(w) PROVE CallInv'
  BY <1>1, <1>8 DEF Panic, Goto, CallInv, Idle, Panicked
<1>9. CASE UNCHANGED vars
  <2>1. /\ UNCHANGED promoted /\ UNCHANGED error /\ UNCHANGED home
        /\ UNCHANGED broken /\ UNCHANGED timed_out /\ UNCHANGED pc
    BY <1>9 DEF vars
  <2> QED BY <1>a, <2>1
<1> QED BY <1>2, <1>3, <1>4, <1>5, <1>6, <1>7, <1>8, <1>9 DEF Next, Calls, Meets

LEMMA RoundStep == Types /\ CallInv /\ RoundInv /\ [Next]_vars => RoundInv'
<1> SUFFICES ASSUME Types, CallInv, RoundInv, [Next]_vars PROVE RoundInv'
  OBVIOUS
<1> USE DEF hostVars, meetVars, coreVars
<1>1. pc \in [Worker -> CorePoints \cup CoordPoints] /\ quantum \in [Worker -> 0 .. n]
      /\ n \in Nat /\ arrived \subseteq Worker
  BY RunAssumption DEF Types, TypeOK
\* A step that moves a worker before its arrival, or ends it with the barrier
\* broken, leaves every round as it is.
<1>a. ASSUME ~Idle, UNCHANGED <<n, arrived, quantum>>, broken => broken',
             \A w \in Worker : \/ pc'[w] = pc[w]
                               \/ /\ pc[w] \notin {"none", "wait", "ended", "panicked"}
                                  /\ pc'[w] \notin {"none", "wait", "ended", "panicked"}
                               \/ /\ w \in Running /\ broken'
                                  /\ \/ pc'[w] = "ended"
                                     \/ pc'[w] = "panicked" /\ pc[w] # "wait"
      PROVE  RoundInv'
  <2>1. \A w \in Worker : Counts(w)' => Counts(w) /\ Round(w)' = Round(w)
    BY <1>a DEF Counts, Running, Round
  <2>2. \A w \in arrived : pc'[w] = "wait" \/ (pc'[w] = "ended" /\ broken')
    <3> SUFFICES ASSUME NEW w \in arrived
                 PROVE  pc'[w] = "wait" \/ (pc'[w] = "ended" /\ broken')
      OBVIOUS
    <3>1. w \in Worker /\ (pc[w] = "wait" \/ (pc[w] = "ended" /\ broken))
      BY <1>1, <1>a DEF RoundInv
    <3>2. CASE pc'[w] = pc[w]
      BY <1>a, <3>1, <3>2
    <3>3. CASE w \in Running /\ broken' /\ (pc[w] = "wait" => pc'[w] = "ended")
      BY <1>a, <3>1, <3>3 DEF Running
    <3> QED BY <1>a, <3>1, <3>2, <3>3
  <2>3. \A w \in Running' : quantum[w] < n
    BY <1>a DEF RoundInv, Running
  <2>4. \A w \in Worker : pc'[w] = "ended" /\ ~broken' => quantum[w] = n
    BY <1>a DEF RoundInv, Running
  <2> QED BY <1>a, <2>1, <2>2, <2>3, <2>4 DEF RoundInv
<1>2. ASSUME NEW k \in Quanta, Call(k) PROVE RoundInv'
  <2>1. CASE error # NoReply
    BY <1>2, <2>1 DEF Call, RoundInv, Idle
  <2>2. CASE error = NoReply
    <3>1. /\ \A w \in Worker : /\ quantum'[w] = 0
                               /\ pc'[w] = IF k = 0 THEN "ended" ELSE First(w)
          /\ n' = k /\ arrived' = {} /\ k \in Nat
      BY <1>2, <2>2, RunAssumption DEF Call
    <3> QED BY <3>1 DEF RoundInv, Round, Running, First
  <2> QED BY <2>1, <2>2
<1>3. CASE Join
  BY <1>3 DEF Join, RoundInv, Idle
<1>4. CASE Coordinate
  <2>1. PICK from, to \in CoordPoints \ {"none", "wait", "ended", "panicked"} : CoordStep(from, to)
    BY <1>4 DEF Coordinate, CoordPoints
  <2> QED BY <1>1, <1>a, <2>1 DEF CoordStep, Goto, Idle
<1>5. ASSUME NEW c \in Core, CoreRuns(c) PROVE RoundInv'
  BY <1>5, <1>a DEF CoreRuns, CoreAccess, WriteGpioOut, WriteGpioOe, WritePioCtrl, WriteDivider, Idle
<1>6. ASSUME NEW w \in Worker, Enter(w) \/ SentAway(w) \/ Timeout(w) \/ Panic(w) PROVE RoundInv'
  <2>1. w \in Running
    BY <1>6 DEF Running, Last, Enter, SentAway, Timeout, Panic
  <2> QED BY <1>1, <1>6, <1>a, <2>1 DEF Enter, SentAway, Timeout, Panic, Goto, Last, Idle, Running
<1>7. ASSUME NEW w \in Worker, Arrive(w), arrived \cup {w} # Worker PROVE RoundInv'
  <2>1. /\ pc[w] = "arrive" /\ arrived' = arrived \cup {w} /\ Goto(w, "wait")
        /\ UNCHANGED <<n, quantum, broken>> /\ ~Idle
    BY <1>7 DEF Arrive, Idle
  <2>2. \A u \in Worker : Counts(u)' => Counts(u) /\ Round(u)' = Round(u)
    BY <1>1, <2>1 DEF Counts, Running, Round, Goto
  <2>3. \A u \in arrived' : pc'[u] = "wait" \/ (pc'[u] = "ended" /\ broken')
    BY <1>1, <2>1 DEF RoundInv, Goto
  <2>4. /\ \A u \in Running' : quantum[u] < n
        /\ \A u \in Worker : pc'[u] = "ended" /\ ~broken' => quantum[u] = n
    BY <1>1, <2>1 DEF RoundInv, Running, Goto
  <2> QED BY <2>1, <2>2, <2>3, <2>4 DEF RoundInv
\* The last arrival: every other worker that still runs waits in this round.
<1>8. ASSUME NEW w \in Worker, Arrive(w), arrived \cup {w} = Worker PROVE RoundInv'
  <2>1. /\ pc[w] = "arrive" /\ arrived' = {} /\ NextQuantum(w)
        /\ UNCHANGED <<n, broken>> /\ ~Idle /\ w \in Running
    BY <1>8 DEF Arrive, Idle, Running
  <2>2. quantum[w] < n /\ w \notin arrived
    BY <2>1 DEF RoundInv
  <2>3. /\ quantum' = [quantum EXCEPT ![w] = @ + 1]
        /\ pc' = [pc EXCEPT ![w] = IF quantum[w] + 1 = n THEN "ended" ELSE First(w)]
    BY <2>1, <2>2, NextQuantumStep
  <2>4. \A u \in Worker \ {w} : pc[u] = "wait" \/ (pc[u] = "ended" /\ broken)
    BY <1>8, <2>1 DEF RoundInv
  <2>5. \A u \in Worker : Counts(u)' => Counts(u) /\ Round(u)' = Round(u) + 1
    BY <1>1, <1>8, <2>1, <2>2, <2>3, <2>4 DEF Counts, Running, Round, First
  <2>6. /\ \A u \in Running' : quantum'[u] < n
        /\ \A u \in Worker : pc'[u] = "ended" /\ ~broken' => quantum'[u] = n
    BY <1>1, <2>1, <2>2, <2>3, <2>4 DEF RoundInv, Running, First
  <2> QED BY <2>1, <2>5, <2>6 DEF RoundInv
<1>9. ASSUME NEW w \in Worker, Released(w) PROVE RoundInv'
  <2>1. /\ pc[w] = "wait" /\ w \notin arrived /\ NextQuantum(w)
        /\ UNCHANGED <<n, arrived, broken>> /\ ~Idle /\ w \in Running
    BY <1>9 DEF Released, Idle, Running
  <2>2. quantum[w] < n
    BY <2>1 DEF RoundInv
  <2>3. /\ quantum' = [quantum EXCEPT ![w] = @ + 1]
        /\ pc' = [pc EXCEPT ![w] = IF quantum[w] + 1 = n THEN "ended" ELSE First(w)]
    BY <2>1, <2>2, NextQuantumStep
  <2>4. \A u \in Worker : Counts(u)' => Counts(u) /\ Round(u)' = Round(u)
    BY <1>1, <2>1, <2>2, <2>3 DEF Counts, Running, Round, First
  <2>5. /\ \A u \in Running' : quantum'[u] < n
        /\ \A u \in Worker : pc'[u] = "ended" /\ ~broken' => quantum'[u] = n
    BY <1>1, <2>1, <2>2, <2>3 DEF RoundInv, Running, First
  <2>6. \A u \in arrived : pc'[u] = "wait" \/ (pc'[u] = "ended" /\ broken')
    BY <1>1, <2>1, <2>3 DEF RoundInv
  <2> QED BY <2>1, <2>4, <2>5, <2>6 DEF RoundInv
<1>10. CASE UNCHANGED vars
  BY <1>10 DEF vars, RoundInv, Counts, Round, Running, Idle
<1> QED BY <1>2, <1>3, <1>4, <1>5, <1>6, <1>7, <1>8, <1>9, <1>10 DEF Next, Calls, Meets
\* What a call that joins its workers finds.
LEMMA Joined ==
    ASSUME Types, CallInv, RoundInv, Join
    PROVE  /\ error = NoReply /\ Idle'
           /\ error' = NoReply <=> Outcome = Ok
           /\ Outcome = Ok => /\ ~broken /\ n \in Nat
                              /\ \A w \in Worker : pc[w] = "ended" /\ quantum[w] = n
<1>1. ~Idle /\ error = NoReply /\ Idle'
  BY DEF Join, CallInv, Idle
<1>2. error' = NoReply <=> Outcome = Ok
  BY <1>1, Outcomes DEF Join
<1>3. ASSUME Outcome = Ok
      PROVE  ~broken /\ \A w \in Worker : pc[w] = "ended" /\ quantum[w] = n
  <2>1. ~broken
    BY <1>1, <1>3, Outcomes DEF CallInv
  <2>2. \A w \in Worker : pc[w] \notin {"none", "panicked"} /\ w \notin Running
    BY <1>1, <1>3, Outcomes DEF CallInv, Join, Panicked
  <2>3. \A w \in Worker : pc[w] = "ended"
    BY <2>2 DEF Running
  <2> QED BY <1>1, <2>1, <2>3 DEF RoundInv
<1>4. n \in Nat
  BY RunAssumption DEF Types, TypeOK
<1> QED BY <1>1, <1>2, <1>3, <1>4

LEMMA ClockStep == Types /\ CallInv /\ RoundInv /\ ClockInv /\ [Next]_vars => ClockInv'
<1> SUFFICES ASSUME Types, CallInv, RoundInv, ClockInv, [Next]_vars PROVE ClockInv'
  OBVIOUS
<1> USE DEF hostVars, meetVars, coreVars
<1>1. /\ pc \in [Worker -> CorePoints \cup CoordPoints] /\ quantum \in [Worker -> 0 .. n]
      /\ n \in Nat /\ elapsed \in Nat /\ clock \in Nat /\ quantum[Coord] \in Nat
  BY RunAssumption DEF Types, TypeOK
<1>2. ASSUME NEW k \in Quanta, Call(k) PROVE ClockInv'
  <2>1. CASE error # NoReply
    BY <1>2, <2>1 DEF Call, ClockInv, OkIsComplete, Idle, Running
  <2>2. CASE error = NoReply
    <3>1. ~poisoned /\ clock = elapsed
      BY <1>2, <2>2 DEF Call, ClockInv, OkIsComplete
    <3>2. /\ quantum'[Coord] = 0 /\ pc'[Coord] \in {"drain", "ended"}
          /\ UNCHANGED <<poisoned, clock, elapsed>>
      BY <1>2, <2>2 DEF Call, First
    <3>3. ~Idle'
      BY <3>2 DEF Idle
    <3> QED BY <1>1, <3>1, <3>2, <3>3 DEF ClockInv, OkIsComplete, Now, Running
  <2> QED BY <2>1, <2>2
<1>3. CASE Join
  <2>1. /\ \A w \in Worker : pc'[w] = "none"
        /\ home' = home \cup {w \in Worker : pc[w] = "ended"} /\ home \subseteq Worker
        /\ poisoned' = (Outcome # Ok) /\ UNCHANGED <<n, quantum, clock>>
        /\ Outcome = Ok => elapsed' = elapsed + n
    BY <1>3 DEF Join, Types, TypeOK
  <2>2. CASE Outcome = Ok
    <3>1. ~broken /\ \A w \in Worker : pc[w] = "ended" /\ quantum[w] = n
      BY <1>3, <2>2, Joined
    <3>2. clock = elapsed + n
      BY <3>1 DEF ClockInv, Now
    <3> QED BY <2>1, <2>2, <3>1, <3>2 DEF ClockInv, OkIsComplete, Running
  <2>3. CASE Outcome # Ok
    BY <1>3, <2>1, <2>3, Joined DEF ClockInv, OkIsComplete, Running
  <2> QED BY <2>2, <2>3
<1>4. CASE Coordinate
  <2>1. UNCHANGED <<elapsed, poisoned, error, quantum, broken>> /\ Coord \in Running
    BY <1>4 DEF Coordinate, CoordStep, Running
  <2>2. \/ pc'[Coord] = "end" /\ pc[Coord] = "storeOe" /\ clock' = clock + 1
        \/ /\ pc'[Coord] \notin {"none", "end", "arrive", "wait", "ended"}
           /\ pc[Coord] \notin {"end", "arrive", "wait"} /\ clock' = clock
    BY <1>1, <1>4 DEF Coordinate, CoordStep, Goto
  <2> QED BY <1>1, <2>1, <2>2 DEF ClockInv, OkIsComplete, Idle, Now, Running
<1>5. ASSUME NEW c \in Core, CoreRuns(c) PROVE ClockInv'
  <2>1. PICK kind : CoreAccess(c, kind)
    BY <1>5 DEF CoreRuns, WriteGpioOut, WriteGpioOe, WritePioCtrl, WriteDivider
  <2>2. UNCHANGED <<hostVars, broken, pc, quantum, clock>>
    BY <2>1 DEF CoreAccess
  <2> QED BY <2>2 DEF ClockInv, OkIsComplete, Idle, Now, Running
<1>6. ASSUME NEW w \in Worker, Meets(w) \/ Panic(w) PROVE ClockInv'
  <2>1. w \in Running
    BY <1>6 DEF Meets, Running, Last, Enter, Arrive, Released, SentAway, Timeout, Panic
  <2>2. UNCHANGED <<elapsed, poisoned, error, clock>> /\ ~Idle' /\ (broken => broken')
    BY <1>6, <2>1, Moves DEF Meets, Idle
  <2>3. CASE w # Coord
    <3>1. pc'[Coord] = pc[Coord] /\ quantum'[Coord] = quantum[Coord]
      BY <1>6, <2>1, <2>3, Moves DEF Meets
    <3> QED BY <2>2, <3>1 DEF ClockInv, OkIsComplete, Now, Running
  <2>4. CASE w = Coord
    <3>1. \/ /\ pc[Coord] \in {"end", "arrive", "wait"}
             /\ pc'[Coord] \in {"arrive", "wait"} /\ quantum'[Coord] = quantum[Coord]
          \/ /\ pc[Coord] \in {"end", "arrive", "wait"}
             /\ pc'[Coord] \in {"ended", "drain"} /\ quantum'[Coord] = quantum[Coord] + 1
          \/ pc'[Coord] \in {"ended", "panicked"} /\ broken'
      BY <1>6, <2>1, <2>4, Moves DEF Meets, Last, First
    <3> QED BY <1>1, <2>1, <2>2, <2>4, <3>1 DEF ClockInv, OkIsComplete, Now, Running
  <2> QED BY <2>3, <2>4
<1>7. CASE UNCHANGED vars
  BY <1>7 DEF vars, ClockInv, OkIsComplete, Idle, Now, Running
<1> QED BY <1>2, <1>3, <1>4, <1>5, <1>6, <1>7 DEF Next, Calls

LEMMA DividerStep ==
    Types /\ CallInv /\ RoundInv /\ DividerInv /\ [Next]_vars => DividerInv'
<1> SUFFICES ASSUME Types, CallInv, RoundInv, DividerInv, [Next]_vars PROVE DividerInv'
  OBVIOUS
<1> USE DEF hostVars, meetVars, coreVars
<1>1. /\ pc \in [Worker -> CorePoints \cup CoordPoints]
      /\ divider \in [Core -> Operand] /\ dividers \in [Core -> Operand]
      /\ divided \in [Core -> Operand]
  BY DEF Types, TypeOK
<1>2. ASSUME NEW k \in Quanta, Call(k) PROVE DividerInv'
  <2>1. CASE error # NoReply
    BY <1>2, <2>1 DEF Call, DividerInv, DividerSurvives, Idle
  <2>2. CASE error = NoReply
    <3>1. \A c \in Core : pc'[c] # "none" /\ divider'[c] = dividers[c]
      BY <1>2, <2>2 DEF Call, First
    <3>2. \A c \in Core : dividers[c] = divided[c]
      BY <1>2, <2>2 DEF Call, DividerInv, DividerSurvives
    <3>3. UNCHANGED <<dividers, divided>> /\ ~Idle'
      BY <1>2, <2>2, <3>1 DEF Call, Idle
    <3> QED BY <3>1, <3>2, <3>3 DEF DividerInv, DividerSurvives
  <2> QED BY <2>1, <2>2
<1>3. CASE Join
  <2>1. (\A c \in Core : pc'[c] = "none") /\ UNCHANGED <<dividers, divided>>
    BY <1>3 DEF Join
  <2>2. error' = NoReply => \A c \in Core : dividers[c] = divided[c]
    BY <1>3, Joined DEF DividerInv
  <2> QED BY <2>1, <2>2 DEF DividerInv, DividerSurvives
<1>4. CASE Coordinate
  <2>1. /\ UNCHANGED <<dividers, divided, divider, broken>> /\ ~Idle'
        /\ \A c \in Core : pc'[c] = pc[c]
    BY <1>1, <1>4 DEF Coordinate, CoordStep, Goto, Idle
  <2> QED BY <2>1 DEF DividerInv, DividerSurvives
<1>5. ASSUME NEW c \in Core, CoreRuns(c) PROVE DividerInv'
  <2>1. PICK kind : CoreAccess(c, kind)
    BY <1>5 DEF CoreRuns, WriteGpioOut, WriteGpioOe, WritePioCtrl, WriteDivider
  <2>2. UNCHANGED <<error, broken, pc, dividers>> /\ pc[c] = "run" /\ ~Idle
    BY <2>1 DEF CoreAccess, Idle
  <2>3. CASE WriteDivider(c)
    <3>1. PICK d : divider' = [divider EXCEPT ![c] = d] /\ divided' = [divided EXCEPT ![c] = d]
      BY <2>3 DEF WriteDivider
    <3>2. \A b \in Core : IF b = c THEN divider'[b] = d /\ divided'[b] = d
                          ELSE divider'[b] = divider[b] /\ divided'[b] = divided[b]
      BY <1>1, <3>1
    <3> QED BY <2>2, <3>2 DEF DividerInv, DividerSurvives, Idle
  <2>4. CASE ~WriteDivider(c)
    <3>1. UNCHANGED <<divider, divided>>
      BY <1>5, <2>4 DEF CoreRuns, WriteGpioOut, WriteGpioOe, WritePioCtrl
    <3> QED BY <2>2, <3>1 DEF DividerInv, DividerSurvives, Idle
  <2> QED BY <2>3, <2>4
<1>6. ASSUME NEW w \in Worker, Meets(w) \/ Panic(w) PROVE DividerInv'
  <2>1. w \in Running
    BY <1>6 DEF Meets, Running, Last, Enter, Arrive, Released, SentAway, Timeout, Panic
  <2>2. UNCHANGED <<error, divider, divided>> /\ ~Idle' /\ (broken => broken')
    BY <1>6, <2>1, Moves DEF Meets, Idle
  <2>3. ASSUME NEW c \in Core
        PROVE  /\ pc'[c] \in {"run", "arrive", "wait"} => divider[c] = divided[c]
               /\ pc'[c] = "ended" /\ ~broken' => dividers'[c] = divided[c]
    <3>1. CASE c # w
      <4>1. pc'[c] = pc[c] /\ dividers'[c] = dividers[c]
        BY <1>1, <1>6, <2>1, <3>1, Moves DEF Meets
      <4> QED BY <2>2, <4>1 DEF DividerInv, DividerSurvives
    <3>2. CASE c = w
      <4>1. \/ /\ pc[c] \in {"run", "arrive", "wait"} /\ pc'[c] \in {"arrive", "wait", "run"}
            \/ /\ pc[c] \in {"arrive", "wait"} /\ pc'[c] = "ended"
               /\ dividers' = [dividers EXCEPT ![c] = divider[c]]
            \/ pc'[c] \in {"ended", "panicked"} /\ broken'
        BY <1>6, <2>1, <3>2, Moves DEF Meets, Last, First
      <4> QED BY <1>1, <2>2, <4>1 DEF DividerInv, DividerSurvives
    <3> QED BY <3>1, <3>2
  <2> QED BY <2>2, <2>3 DEF DividerInv, DividerSurvives
<1>7. CASE UNCHANGED vars
  BY <1>7 DEF vars, DividerInv, DividerSurvives, Idle
<1> QED BY <1>2, <1>3, <1>4, <1>5, <1>6, <1>7 DEF Next, Calls

LEMMA CommandStep ==
    Types /\ CallInv /\ RoundInv /\ CommandInv /\ [Next]_vars => CommandInv'
<1> SUFFICES ASSUME Types, CallInv, RoundInv, CommandInv, [Next]_vars PROVE CommandInv'
  OBVIOUS
<1> USE DEF hostVars, meetVars, coreVars
<1>1. /\ pc \in [Worker -> CorePoints \cup CoordPoints] /\ quantum \in [Worker -> 0 .. n]
      /\ n \in Nat /\ elapsed \in Nat /\ quantum[Coord] \in Nat
      /\ commands \in Seq(Command) /\ Len(commands) \in Nat
  BY RunAssumption, LenProperties DEF Types, TypeOK
<1>a. ASSUME NEW q \in Int, NEW r \in Int, q <= r, Since(r) PROVE Since(q)
  <2> SUFFICES ASSUME NEW i \in 1 .. Len(commands) PROVE commands[i].quantum >= q
    BY DEF Since
  <2>1. commands[i] \in Command /\ commands[i].quantum >= r
    BY <1>1, <1>a, ElementOfSeq DEF Since
  <2> QED BY <1>a, <2>1 DEF Command
<1>2. ASSUME NEW k \in Quanta, Call(k) PROVE CommandInv'
  <2>1. CASE error # NoReply
    BY <1>2, <2>1 DEF Call, padVars, CommandInv, Since, Idle, Running
  <2>2. CASE error = NoReply
    <3>1. Since(elapsed - 1) /\ UNCHANGED <<commands, elapsed>>
      BY <1>2, <2>2 DEF Call, CommandInv, PublishSeed, padVars
    <3>2. quantum'[Coord] = 0 /\ pc'[Coord] \in {"drain", "ended"}
      BY <1>2, <2>2 DEF Call, First
    <3> QED BY <1>1, <3>1, <3>2 DEF CommandInv, Since, Now, Idle, Running
  <2> QED BY <2>1, <2>2
<1>3. CASE Join
  <2>1. /\ \A w \in Worker : pc'[w] = "none"
        /\ commands' = commands /\ (Outcome = Ok => elapsed' = elapsed + n)
    BY <1>3 DEF Join, padVars
  <2>2. CASE Outcome = Ok
    <3>1. ~broken /\ pc[Coord] = "ended" /\ quantum[Coord] = n
      BY <1>3, <2>2, Joined
    <3>2. Since(Now(Coord) - 1)
      BY <3>1 DEF CommandInv
    <3>3. Since(elapsed - 1)'
      <4>1. Now(Coord) = elapsed'
        BY <2>1, <2>2, <3>1 DEF Now
      <4> QED BY <2>1, <3>2, <4>1 DEF Since
    <3> QED BY <2>1, <3>3 DEF CommandInv, Running
  <2>3. CASE Outcome # Ok
    BY <1>3, <2>1, <2>3, Joined DEF CommandInv, Running
  <2> QED BY <2>2, <2>3
<1>4. CASE Coordinate
  <2>1. /\ UNCHANGED <<elapsed, quantum>> /\ Coord \in Running /\ Coord \in Running'
        /\ pc'[Coord] \notin {"drain", "ended"} /\ ~Idle'
    BY <1>1, <1>4 DEF Coordinate, CoordStep, Goto, Running, Idle
  <2>2. CASE Drain
    <3>1. Len(commands') = 0
      BY <2>2 DEF Drain
    <3> QED BY <2>1, <3>1 DEF CommandInv, Since, Now
  <2>3. CASE ~Drain
    <3>1. UNCHANGED commands /\ pc[Coord] # "drain"
      BY <1>4, <2>3 DEF Coordinate, CoordStep, StepBlock, LoadOut, LoadOe, StoreOut, StoreOe, blockVars
    <3> QED BY <2>1, <3>1 DEF CommandInv, Since, Now
  <2> QED BY <2>2, <2>3
<1>5. ASSUME NEW c \in Core, CoreRuns(c) PROVE CommandInv'
  <2>1. PICK kind : CoreAccess(c, kind)
    BY <1>5 DEF CoreRuns, WriteGpioOut, WriteGpioOe, WritePioCtrl, WriteDivider
  <2>2. UNCHANGED <<hostVars, broken, pc, quantum>> /\ pc[c] = "run" /\ ~Idle
    BY <2>1 DEF CoreAccess, Idle
  <2>3. CASE WritePioCtrl(c)
    <3>1. PICK val \in SUBSET Sm : commands' = Append(commands, [val |-> val, quantum |-> Now(c)])
      BY <2>3 DEF WritePioCtrl, SendCtrl
    <3> DEFINE sent == [val |-> val, quantum |-> Now(c)]
    <3>2. sent \in Command
      BY <1>1 DEF Command, Now
    <3>3. /\ Len(commands') = Len(commands) + 1 /\ commands'[Len(commands) + 1] = sent
          /\ \A i \in 1 .. Len(commands) : commands'[i] = commands[i]
      BY <1>1, <3>1, <3>2, AppendProperties
    <3>4. sent.quantum = elapsed + quantum[c]
      BY DEF Now
    <3> HIDE DEF sent
    <3>5. Counts(Coord) => Now(Coord) <= elapsed + quantum[c]
      <4>1. Counts(Coord) => Round(Coord) = quantum[c]
        BY <2>2 DEF RoundInv, Counts, Running, Round
      <4> QED BY <1>1, <4>1 DEF Round, Now
    <3>6. \A q \in Int : Since(q) /\ q <= elapsed + quantum[c] => Since(q)'
      BY <1>1, <3>3, <3>4 DEF Since
    <3>7. Now(Coord) \in Int /\ elapsed + quantum[c] \in Int
      BY <1>1 DEF Now
    <3>8. Counts(Coord) /\ Since(Now(Coord)) => Since(Now(Coord))'
      BY <2>2, <3>5, <3>6, <3>7 DEF Now, Since
    <3>9. Counts(Coord) /\ Since(Now(Coord) - 1) => Since(Now(Coord) - 1)'
      <4>1. Counts(Coord) => Now(Coord) - 1 <= elapsed + quantum[c]
        BY <3>5, <3>7
      <4> QED BY <2>2, <4>1, <3>6, <3>7 DEF Now, Since
    <3> QED BY <2>2, <3>8, <3>9 DEF CommandInv, Counts, Idle, Running
  <2>4. CASE ~WritePioCtrl(c)
    <3>1. UNCHANGED commands
      BY <1>5, <2>4 DEF CoreRuns, WriteGpioOut, WriteGpioOe, WriteDivider, WriteOut, WriteOe,
                        blockVars, padVars
    <3> QED BY <2>2, <3>1 DEF CommandInv, Since, Now, Idle, Running
  <2> QED BY <2>3, <2>4
<1>6. ASSUME NEW w \in Worker, Meets(w) \/ Panic(w) PROVE CommandInv'
  <2>1. w \in Running
    BY <1>6 DEF Meets, Running, Last, Enter, Arrive, Released, SentAway, Timeout, Panic
  <2>2. UNCHANGED <<elapsed, commands>> /\ ~Idle' /\ (broken => broken')
    BY <1>6, <2>1, Moves DEF Meets, Idle, padVars
  <2>3. CASE w # Coord
    <3>1. pc'[Coord] = pc[Coord] /\ quantum'[Coord] = quantum[Coord]
      BY <1>6, <2>1, <2>3, Moves DEF Meets
    <3> QED BY <2>2, <3>1 DEF CommandInv, Since, Now, Running
  <2>4. CASE w = Coord
    <3>1. \/ /\ pc[Coord] # "drain" /\ pc'[Coord] \in {"arrive", "wait"}
             /\ quantum'[Coord] = quantum[Coord]
          \/ /\ pc[Coord] # "drain" /\ pc'[Coord] \in {"ended", "drain"}
             /\ quantum'[Coord] = quantum[Coord] + 1
          \/ pc'[Coord] \in {"ended", "panicked"} /\ broken'
      BY <1>6, <2>1, <2>4, Moves DEF Meets, Last, First
    <3>2. quantum'[Coord] = quantum[Coord] + 1 => Now(Coord)' - 1 = Now(Coord)
      BY <1>1, <2>2 DEF Now
    <3> QED BY <2>1, <2>2, <2>4, <3>1, <3>2 DEF CommandInv, Since, Now, Running
  <2> QED BY <2>3, <2>4
<1>7. CASE UNCHANGED vars
  BY <1>7 DEF vars, padVars, CommandInv, Since, Idle, Now, Running
<1> QED BY <1>2, <1>3, <1>4, <1>5, <1>6, <1>7 DEF Next, Calls

LEMMA StarveStep == Types /\ CallInv /\ RoundInv /\ StarveInv /\ [Next]_vars => StarveInv'
<1> SUFFICES ASSUME Types, CallInv, RoundInv, StarveInv, [Next]_vars PROVE StarveInv'
  OBVIOUS
<1> USE DEF hostVars, meetVars, coreVars, blockVars, padVars
<1>1. starved \in Nat
  BY DEF Types, TypeOK, PadTypeOK
<1>2. ASSUME NEW k \in Quanta, Call(k) PROVE StarveInv'
  BY <1>2 DEF Call, PublishSeed, StarveInv
<1>3. CASE Join
  BY <1>3 DEF Join, StarveInv
<1>4. CASE Coordinate
  <2>1. promoted /\ promoted'
    BY <1>4 DEF Coordinate, CoordStep, CallInv, Idle
  <2>2. CASE StepBlock
    <3> DEFINE runs == smEnabled # {} /\ mask # {}
    <3>1. starved' = (IF mask = {} \/ runs THEN 0 ELSE starved + 1) /\ smEnabled' = mask
      BY <2>2 DEF StepBlock
    <3>2. mask # {} /\ ~runs => starved = 0
      BY <2>1 DEF StarveInv
    <3> HIDE DEF runs
    <3> QED BY <1>1, <2>1, <3>1, <3>2 DEF StarveInv
  <2>3. CASE ~StepBlock
    <3>1. UNCHANGED <<smEnabled, starved>>
      BY <1>4, <2>3 DEF Coordinate, Drain, LoadOut, LoadOe, StoreOut, StoreOe
    <3> QED BY <2>1, <3>1 DEF StarveInv
  <2> QED BY <2>2, <2>3
<1>5. ASSUME NEW c \in Core, CoreRuns(c) PROVE StarveInv'
  <2>1. UNCHANGED <<promoted, smEnabled, mask, starved>>
    BY <1>5 DEF CoreRuns, CoreAccess, WriteGpioOut, WriteGpioOe, WritePioCtrl, WriteDivider,
                WriteOut, WriteOe, SendCtrl
  <2> QED BY <2>1 DEF StarveInv
<1>6. ASSUME NEW w \in Worker, Meets(w) \/ Panic(w) PROVE StarveInv'
  BY <1>6 DEF Meets, Enter, Arrive, Released, SentAway, Timeout, Panic, StarveInv
<1>7. CASE UNCHANGED vars
  BY <1>7 DEF vars, StarveInv
<1> QED BY <1>2, <1>3, <1>4, <1>5, <1>6, <1>7 DEF Next, Calls

LEMMA MergeStep == Types /\ CallInv /\ RoundInv /\ MergeInv /\ [Next]_vars => MergeInv'
<1> SUFFICES ASSUME Types, CallInv, RoundInv, MergeInv, [Next]_vars PROVE MergeInv'
  OBVIOUS
<1> USE DEF hostVars, meetVars, coreVars, blockVars, gpioVars, padVars
<1>1. /\ pc \in [Worker -> CorePoints \cup CoordPoints]
      /\ out \subseteq Pin /\ oe \subseteq Pin /\ merging \subseteq {"out", "oe"}
      /\ sio \in [out : SUBSET Pin, oe : SUBSET Pin] /\ held \in [out : SUBSET Pin, oe : SUBSET Pin]
      /\ since \in [out : SUBSET Pin, oe : SUBSET Pin]
  BY DEF Types, TypeOK, PadTypeOK
\* A step of anything else.
<1>a. ASSUME UNCHANGED out, UNCHANGED oe, UNCHANGED held, UNCHANGED merging, UNCHANGED since,
             UNCHANGED sio,
             \/ pc'[Coord] = pc[Coord]
             \/ /\ pc[Coord] \notin {"loadOe", "storeOut", "storeOe"}
                /\ pc'[Coord] \notin {"loadOe", "storeOut", "storeOe"}
      PROVE  MergeInv'
  BY <1>a DEF MergeInv, GpioWriteSticks
<1>2. ASSUME NEW k \in Quanta, Call(k) PROVE MergeInv'
  <2>1. /\ UNCHANGED out /\ UNCHANGED oe /\ UNCHANGED held /\ UNCHANGED merging
        /\ UNCHANGED since /\ UNCHANGED sio
    BY <1>2 DEF Call, PublishSeed
  <2>2. pc[Coord] = "none" /\ (pc'[Coord] = "none" \/ pc'[Coord] \in {"ended", "drain"})
    BY <1>2 DEF Call, Idle, First
  <2> QED BY <1>a, <2>1, <2>2
<1>3. CASE Join
  <2>1. /\ UNCHANGED out /\ UNCHANGED oe /\ UNCHANGED held /\ UNCHANGED merging
        /\ UNCHANGED since /\ UNCHANGED sio /\ pc'[Coord] = "none" /\ Coord \notin Running
    BY <1>3 DEF Join
  <2> QED BY <1>a, <2>1 DEF Running
<1>4. CASE Coordinate
  <2>1. CASE CoordStep("drain", "step") /\ Drain
    <3>1. /\ UNCHANGED out /\ UNCHANGED oe /\ UNCHANGED held /\ UNCHANGED merging
          /\ UNCHANGED since /\ UNCHANGED sio /\ pc[Coord] = "drain" /\ pc'[Coord] = "step"
      BY <1>1, <2>1 DEF CoordStep, Goto, Drain
    <3> QED BY <1>a, <3>1
  <2>2. CASE CoordStep("step", "loadOut") /\ StepBlock
    <3>1. /\ UNCHANGED out /\ UNCHANGED oe /\ UNCHANGED held /\ UNCHANGED merging
          /\ UNCHANGED since /\ UNCHANGED sio /\ pc[Coord] = "step" /\ pc'[Coord] = "loadOut"
      BY <1>1, <2>2 DEF CoordStep, Goto, StepBlock
    <3> QED BY <1>a, <3>1
  <2>3. CASE CoordStep("loadOut", "loadOe") /\ LoadOut
    <3>1. pc[Coord] = "loadOut" /\ pc'[Coord] = "loadOe"
      BY <1>1, <2>3 DEF CoordStep, Goto
    <3>2. "out" \notin merging /\ "oe" \notin merging /\ since.out = {} /\ since.oe = {}
      BY <3>1 DEF MergeInv
    <3>3. merging' = merging \cup {"out"} /\ sio'.out = out /\ UNCHANGED <<out, oe, held, since>>
      BY <1>1, <2>3 DEF LoadOut
    <3> QED BY <3>1, <3>2, <3>3 DEF MergeInv, GpioWriteSticks
  <2>4. CASE CoordStep("loadOe", "storeOut") /\ LoadOe
    <3>1. pc[Coord] = "loadOe" /\ pc'[Coord] = "storeOut"
      BY <1>1, <2>4 DEF CoordStep, Goto
    <3>2. /\ "out" \in merging /\ "oe" \notin merging /\ since.oe = {}
          /\ sio.out \ since.out = out \ since.out
      BY <3>1 DEF MergeInv
    <3>3. /\ merging' = merging \cup {"oe"} /\ sio'.out = sio.out /\ sio'.oe = oe
          /\ UNCHANGED <<out, oe, held, since>>
      BY <1>1, <2>4 DEF LoadOe
    <3> QED BY <3>1, <3>2, <3>3 DEF MergeInv, GpioWriteSticks
  <2>5. CASE CoordStep("storeOut", "storeOe") /\ StoreOut
    <3>1. pc[Coord] = "storeOut" /\ pc'[Coord] = "storeOe"
      BY <1>1, <2>5 DEF CoordStep, Goto
    <3>2. /\ "out" \in merging /\ "oe" \in merging
          /\ sio.out \ since.out = out \ since.out
          /\ sio.oe \ since.oe = oe \ since.oe
          /\ out = held.out /\ oe = held.oe
      BY <3>1 DEF MergeInv, GpioWriteSticks
    <3> DEFINE may == since.out \cup padOe \cup (sio.out \ sio.oe)
    <3>3. /\ out' = MergedOut /\ held'.out = Replaced(held.out, may, out')
          /\ held'.oe = held.oe /\ since'.out = {} /\ since'.oe = since.oe
          /\ merging' = merging \ {"out"} /\ UNCHANGED <<oe, sio>>
      BY <1>1, <2>5 DEF StoreOut
    <3>4. MergedOut \ may = out \ may
      BY <3>2 DEF MergedOut
    <3>5. out' = held'.out
      BY <3>2, <3>3, <3>4 DEF Replaced
    <3> QED BY <3>1, <3>2, <3>3, <3>5 DEF MergeInv, GpioWriteSticks
  <2>6. CASE CoordStep("storeOe", "end") /\ StoreOe
    <3>1. pc[Coord] = "storeOe" /\ pc'[Coord] = "end"
      BY <1>1, <2>6 DEF CoordStep, Goto
    <3>2. /\ "out" \notin merging /\ since.out = {}
          /\ sio.oe \ since.oe = oe \ since.oe
          /\ out = held.out /\ oe = held.oe
      BY <3>1 DEF MergeInv, GpioWriteSticks
    <3> DEFINE may == since.oe \cup padOe
    <3>3. /\ oe' = MergedOe /\ held'.oe = Replaced(held.oe, may, oe')
          /\ held'.out = held.out /\ since'.oe = {} /\ since'.out = since.out
          /\ merging' = merging \ {"oe"} /\ UNCHANGED out
      BY <1>1, <2>6 DEF StoreOe
    <3>4. MergedOe \ may = oe \ may
      BY <3>2 DEF MergedOe
    <3>5. oe' = held'.oe
      BY <3>2, <3>3, <3>4 DEF Replaced
    <3> QED BY <3>1, <3>2, <3>3, <3>5 DEF MergeInv, GpioWriteSticks
  <2> QED BY <1>4, <2>1, <2>2, <2>3, <2>4, <2>5, <2>6 DEF Coordinate
<1>5. ASSUME NEW c \in Core, CoreRuns(c) PROVE MergeInv'
  <2>1. PICK kind : CoreAccess(c, kind)
    BY <1>5 DEF CoreRuns, WriteGpioOut, WriteGpioOe, WritePioCtrl, WriteDivider
  <2>2. UNCHANGED pc
    BY <2>1 DEF CoreAccess
  <2>3. CASE WriteGpioOut(c)
    <3>1. PICK p \in Pin, on \in BOOLEAN : WriteOut(p, on)
      BY <2>3 DEF WriteGpioOut
    <3>2. /\ out' = SetTo(out, p, on) /\ held'.out = SetTo(held.out, p, on)
          /\ held'.oe = held.oe /\ since'.oe = since.oe
          /\ since'.out = IF "out" \in merging THEN since.out \cup {p} ELSE since.out
          /\ UNCHANGED <<oe, merging, sio>>
      BY <1>1, <3>1 DEF WriteOut
    <3>3. \A S : S \ since.out = out \ since.out
                 => S \ (since.out \cup {p}) = SetTo(out, p, on) \ (since.out \cup {p})
      BY DEF SetTo
    <3> QED BY <2>2, <3>2, <3>3 DEF MergeInv, GpioWriteSticks
  <2>4. CASE WriteGpioOe(c)
    <3>1. PICK p \in Pin, on \in BOOLEAN : WriteOe(p, on)
      BY <2>4 DEF WriteGpioOe
    <3>2. /\ oe' = SetTo(oe, p, on) /\ held'.oe = SetTo(held.oe, p, on)
          /\ held'.out = held.out /\ since'.out = since.out
          /\ since'.oe = IF "oe" \in merging THEN since.oe \cup {p} ELSE since.oe
          /\ UNCHANGED <<out, merging, sio>>
      BY <1>1, <3>1 DEF WriteOe
    <3>3. \A S : S \ since.oe = oe \ since.oe
                 => S \ (since.oe \cup {p}) = SetTo(oe, p, on) \ (since.oe \cup {p})
      BY DEF SetTo
    <3> QED BY <2>2, <3>2, <3>3 DEF MergeInv, GpioWriteSticks
  <2>5. CASE WritePioCtrl(c) \/ WriteDivider(c)
    <3>1. /\ UNCHANGED out /\ UNCHANGED oe /\ UNCHANGED held /\ UNCHANGED merging
          /\ UNCHANGED since /\ UNCHANGED sio
      BY <2>5 DEF WritePioCtrl, WriteDivider, SendCtrl
    <3> QED BY <1>a, <2>2, <3>1
  <2> QED BY <1>5, <2>3, <2>4, <2>5 DEF CoreRuns
\* A coordinator that is in the merge neither waits nor fails.
<1>6. ASSUME NEW w \in Worker, Meets(w) \/ Panic(w) PROVE MergeInv'
  <2>1. w \in Running
    BY <1>6 DEF Meets, Running, Last, Enter, Arrive, Released, SentAway, Timeout, Panic
  <2>2. /\ UNCHANGED out /\ UNCHANGED oe /\ UNCHANGED held /\ UNCHANGED merging
        /\ UNCHANGED since /\ UNCHANGED sio
    BY <1>6, <2>1, Moves DEF Meets
  <2>3. w # Coord => pc'[Coord] = pc[Coord]
    BY <1>6, <2>1, Moves DEF Meets
  <2>4. w = Coord => /\ pc[Coord] \notin {"loadOe", "storeOut", "storeOe"}
                     /\ pc'[Coord] \notin {"loadOe", "storeOut", "storeOe"}
    <3>1. pc[w] \in {"run", "drain", "step", "end", "arrive", "wait"}
      BY <1>6 DEF Meets, Last, Enter, Arrive, Released, SentAway, Timeout, Panic
    <3>2. pc'[w] \in {"arrive", "wait", "ended", "panicked", "run", "drain"}
      BY <1>6, <2>1, Moves DEF Meets, First
    <3> QED BY <3>1, <3>2
  <2> QED BY <1>a, <2>2, <2>3, <2>4
<1>7. CASE UNCHANGED vars
  <2>1. /\ UNCHANGED out /\ UNCHANGED oe /\ UNCHANGED held /\ UNCHANGED merging
        /\ UNCHANGED since /\ UNCHANGED sio /\ UNCHANGED pc
    BY <1>7 DEF vars
  <2> QED BY <1>a, <2>1
<1> QED BY <1>2, <1>3, <1>4, <1>5, <1>6, <1>7 DEF Next, Calls

-----------------------------------------------------------------------------
(* The theorems.                                                           *)

LEMMA InitInv == Init => RunInv
<1> SUFFICES ASSUME Init PROVE RunInv
  OBVIOUS
<1> USE RunAssumption DEF Init
<1>1. Idle /\ ~broken /\ pc = [w \in Worker |-> "none"]
  BY DEF Idle
<1>2. PadTypeOK /\ commands = <<>> /\ commands \in Seq(Command)
  BY DEF PadInit, PadTypeOK
<1>3. Types
  <2>1. NoReply \in Reply
    BY DEF NoReply, Reply
  <2>2. /\ pc \in [Worker -> CorePoints \cup CoordPoints] /\ pc[Coord] \in CoordPoints
        /\ \A c \in Core : pc[c] \in CorePoints
    BY <1>1 DEF CorePoints, CoordPoints
  <2>3. quantum \in [Worker -> 0 .. n] /\ ops \in [Core -> 0 .. MaxOps]
    OBVIOUS
  <2>4. /\ divider \in [Core -> Operand] /\ dividers \in [Core -> Operand]
        /\ divided \in [Core -> Operand]
    OBVIOUS
  <2>5. /\ elapsed \in Nat /\ clock \in Nat /\ calls \in 0 .. MaxCalls
        /\ n \in Quanta \cup {0} /\ home \subseteq Worker /\ arrived \subseteq Worker
    OBVIOUS
  <2>6. promoted \in BOOLEAN /\ poisoned \in BOOLEAN /\ broken \in BOOLEAN /\ timed_out \in BOOLEAN
    OBVIOUS
  <2>7. error \in Reply /\ reply \in Reply
    BY <2>1
  <2> QED BY <1>2, <2>2, <2>3, <2>4, <2>5, <2>6, <2>7 DEF Types, TypeOK
<1>4. CallInv /\ RoundInv
  BY <1>1 DEF CallInv, RoundInv, Panicked
<1>5. ClockInv /\ DividerInv
  BY <1>1, Outcomes DEF ClockInv, OkIsComplete, DividerInv, DividerSurvives, Running, NoReply, Ok
<1>6. CommandInv
  BY <1>1, <1>2 DEF CommandInv, Since, Running
<1>7. StarveInv /\ MergeInv
  BY <1>1 DEF StarveInv, MergeInv, GpioWriteSticks, PadInit
<1> QED BY <1>3, <1>4, <1>5, <1>6, <1>7 DEF RunInv

LEMMA NextInv == RunInv /\ [Next]_vars => RunInv'
  BY TypeStep, CallStep, RoundStep, ClockStep, DividerStep, CommandStep, StarveStep, MergeStep
     DEF RunInv

THEOREM Invariance == Spec => []RunInv
<1> QED BY InitInv, NextInv, PTL DEF Spec

\* Every reachable state is well typed, however calls follow one another and
\* threads end.
THEOREM TypeCorrect == Spec => []TypeOK
<1>1. RunInv => TypeOK
  BY DEF RunInv, Types
<1> QED BY <1>1, Invariance, PTL

\* A call after calls that all succeeded finds everything owned again and the
\* clock, the caller and every worker agree on the quanta: neither assertion
\* of run_quanta_checked can fire.
THEOREM NothingMissingWhenOk == Spec => []OkIsComplete
<1>1. RunInv => OkIsComplete
  BY DEF RunInv, ClockInv
<1> QED BY <1>1, Invariance, PTL

\* A core always finds the divider operand it wrote last, although each call
\* gives it a new bus (save_divider_state, WorkerBus::new).
THEOREM DividerOutlivesItsBus == Spec => []DividerSurvives
<1>1. RunInv => DividerSurvives
  BY DEF RunInv, DividerInv
<1> QED BY <1>1, Invariance, PTL

\* A queued CTRL write is applied by the next drain, and an enabled block
\* misses at most the quantum in which its enable is drained.
THEOREM CommandsWaitOneQuantum == Spec => []CommandsTakeEffect
<1>1. RunInv => CommandsTakeEffect
  <2> SUFFICES ASSUME RunInv, pc[Coord] \notin {"none", "ended", "panicked"},
                      NEW i \in DOMAIN commands
               PROVE  commands[i].quantum >= IF pc[Coord] = "drain"
                                             THEN Now(Coord) - 1 ELSE Now(Coord)
    BY DEF RunInv, StarveInv, CommandsTakeEffect
  <2>1. i \in 1 .. Len(commands)
    BY LenProperties DEF RunInv, Types
  <2> QED BY <2>1 DEF RunInv, CommandInv, Since, Running
<1> QED BY <1>1, Invariance, PTL

\* A pin holds what a core wrote last but where the merge may replace it.
THEOREM WritesStick == Spec => []GpioWriteSticks
<1>1. RunInv => GpioWriteSticks
  BY DEF RunInv, MergeInv
<1> QED BY <1>1, Invariance, PTL

\* A call in which a worker panicked returns the first panic in worker order,
\* whatever the others met at the barrier (first_panic).
THEOREM FirstPanicIsReturned == Spec => PanicIsReported
<1>1. RunInv /\ [Next]_vars
      => [Panicked # {} /\ Idle' =>
             /\ error'.kind = "panic"
             /\ error'.which \in Panicked
             /\ \A w \in Panicked : Index[error'.which] <= Index[w]]_vars
  <2> SUFFICES ASSUME RunInv, Next, Panicked # {}, Idle'
               PROVE  /\ error'.kind = "panic"
                      /\ error'.which \in Panicked
                      /\ \A w \in Panicked : Index[error'.which] <= Index[w]
    OBVIOUS
  <2> USE DEF hostVars, meetVars, coreVars
  <2>1. Join
    <3>1. ~Calls
      BY DEF Calls, Call, Idle, Panicked
    <3>2. ~Coordinate
      <4> SUFFICES ASSUME Coordinate PROVE FALSE
        OBVIOUS
      <4>1. PICK from, to \in CoordPoints \ {"none"} : CoordStep(from, to)
        BY DEF Coordinate, CoordPoints
      <4> QED BY <4>1 DEF CoordStep, Goto, Idle, RunInv, Types
    <3>3. \A c \in Core : ~CoreRuns(c)
      BY DEF CoreRuns, CoreAccess, WriteGpioOut, WriteGpioOe, WritePioCtrl, WriteDivider,
             Idle, Panicked
    <3>4. ASSUME NEW w \in Worker, Meets(w) \/ Panic(w) PROVE FALSE
      <4>1. w \in Running
        BY <3>4 DEF Meets, Running, Last, Enter, Arrive, Released, SentAway, Timeout, Panic
      <4> QED BY <3>4, <4>1, Moves DEF RunInv, Meets, Idle
    <3> QED BY <3>1, <3>2, <3>3, <3>4 DEF Next
  <2>2. Outcome # Ok /\ error' = Outcome
    BY <2>1, Outcomes DEF Join
  <2> QED BY <2>2, Outcomes
<1> QED BY <1>1, Invariance, PTL DEF Spec, PanicIsReported
=============================================================================
