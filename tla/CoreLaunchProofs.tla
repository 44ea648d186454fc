--------------------------- MODULE CoreLaunchProofs ---------------------------
(***************************************************************************)
(* Proofs about CoreLaunch for any FIFO depth, quantum, stray words and    *)
(* replies.  AttemptInv ties the handshake's state to the words it has     *)
(* taken; WakeInv is the test and the sleep of the blocking pop with the   *)
(* event flag between them; LoopInv follows the launch loop and the FSM    *)
(* that answers it, command by command, from whatever state the FSM was    *)
(* in.  The last holds only where core 1's firmware leaves its interrupt   *)
(* line disabled: wake_checks lets a pending line undo halt_core1.         *)
(***************************************************************************)
EXTENDS CoreLaunch, SequenceTheorems, TLAPS

Types ==
    /\ TypeOK
    /\ fifo \in [Core -> Seq(Word)]
    /\ code[1] \in {"start", "app", "pop", "pop_wfe"}
    /\ code[0] \in {"drain", "push", "sev"} => cmd # NotLaunching
    /\ cmd # NotLaunching => code[0] \notin {"start", "app"}

\* What the FSM has taken so far is what core 0 wrote last.
Taken == <<0, 0, 1, vtor, sp>>

AttemptInv ==
    /\ attempt \in Seq(Word) /\ Len(attempt) \in seq .. 6
    /\ \A i \in 1 .. seq : attempt[Len(attempt) - seq + i] = Taken[i]
    /\ ~armed => seq = 0

\* Between the test and the sleep, and in the sleep, a word has its event.
Wake(c) ==
    /\ code[c] = "pop_wfe" => ~wfe_waiting[c]
    /\ fifo[c] # <<>> /\ (code[c] = "pop_wfe" \/ (code[c] = "pop" /\ wfe_waiting[c]))
          => event_flag[c]

WakeInv == \A c \in Core : Wake(c)

\* The launch of this call has been made, and its last echo is on its way ...
Started ==
    /\ cmd = 5 /\ code[0] \in {"sev", "pop", "pop_wfe"}
    /\ fresh /\ launched = Args
    /\ fifo[0] # <<>> /\ Head(fifo[0]) = Args[3]

\* ... or core 1 is halted and the FSM is where the loop's last words took it.
KeptArgs == (seq >= 4 => vtor = Args[1]) /\ (seq = 5 => sp = Args[2])

Asking ==
    \/ cmd = 0
    \/ cmd \in {1, 2} /\ seq <= 2
    \/ cmd \in 3 .. 5 /\ seq = cmd /\ KeptArgs

Answered ==
    \/ cmd \in {0, 1} /\ seq <= 2 /\ fifo[0] = <<0>>
    \/ cmd = 2 /\ seq = 0 /\ fifo[0] = <<0>>
    \/ cmd \in 2 .. 4 /\ seq = cmd + 1 /\ KeptArgs /\ fifo[0] = <<Commands[cmd + 1]>>

Waiting ==
    /\ armed /\ halted[1]
    /\ \/ code[0] = "drain" /\ cmd \in {0, 1} /\ Asking
       \/ code[0] = "push" /\ fifo[0] = <<>> /\ Asking
       \/ code[0] \in {"sev", "pop", "pop_wfe"} /\ Answered

Loop == cmd # NotLaunching => Started \/ Waiting

LoopInv == ~irq[1] /\ Loop

-----------------------------------------------------------------------------
(* Types.                                                                  *)

\* The state but for fifo and code, which the steps change in few ways.
DataTypes ==
    /\ pc \in {"core0", "core1", "tail"} /\ left \in 0 .. StepQuantum /\ ran \in BOOLEAN
    /\ halted \in [Core -> BOOLEAN] /\ wfe_waiting \in [Core -> BOOLEAN]
    /\ event_flag \in [Core -> BOOLEAN] /\ irq \in [Core -> BOOLEAN]
    /\ armed \in BOOLEAN /\ seq \in 0 .. 5 /\ vtor \in Word /\ sp \in Word
    /\ cmd \in 0 .. NotLaunching /\ fresh \in BOOLEAN

FifoTypes == fifo \in [Core -> Seq(Word)] /\ \A c \in Core : Len(fifo[c]) <= FifoDepth

CodeTypes ==
    /\ code \in [Core -> Code]
    /\ code[1] \in {"start", "app", "pop", "pop_wfe"}
    /\ code[0] \in {"drain", "push", "sev"} => cmd # NotLaunching
    /\ cmd # NotLaunching => code[0] \notin {"start", "app"}

LEMMA TypesParts == Types <=> DataTypes /\ FifoTypes /\ CodeTypes
<1>1. Types => DataTypes /\ FifoTypes /\ CodeTypes
  BY DEF Types, TypeOK, DataTypes, FifoTypes, CodeTypes
<1>2. ASSUME DataTypes, FifoTypes, CodeTypes PROVE Types
  <2>1. DOMAIN fifo = Core
    BY <1>2 DEF FifoTypes
  <2>2. ASSUME NEW c \in Core PROVE Len(fifo[c]) <= FifoDepth /\ ToSet(fifo[c]) \subseteq Word
    <3>1. fifo[c] \in Seq(Word) /\ Len(fifo[c]) <= FifoDepth
      BY <1>2 DEF FifoTypes
    <3> QED BY <3>1, LenProperties, ElementOfSeq DEF ToSet
  <2> QED BY <1>2, <2>1, <2>2 DEF Types, TypeOK, DataTypes, FifoTypes, CodeTypes
<1> QED BY <1>1, <1>2

LEMMA OtherCore == \A c \in Core : Other(c) \in Core /\ Other(c) # c
  BY DEF Other, Core

LEMMA Words ==
    /\ \A k \in 0 .. 5 : Commands[k + 1] \in Word
    /\ Commands[1] = 0 /\ Commands[2] = 0 /\ Commands[3] = 1
    /\ Commands[4] = 2 /\ Commands[5] = 3 /\ Commands[6] = 4
    /\ Args[1] = 2 /\ Args[2] = 3 /\ Args[3] = 4
<1> DEFINE zeros == <<0, 0, 1>>
<1>1. /\ zeros \in Seq(Word) /\ Len(zeros) = 3 /\ Args \in Seq(Word) /\ Len(Args) = 3
      /\ zeros[1] = 0 /\ zeros[2] = 0 /\ zeros[3] = 1
      /\ Args[1] = 2 /\ Args[2] = 3 /\ Args[3] = 4
  BY DEF Args, Word
<1>2. Commands = zeros \o Args
  BY DEF Commands
<1> HIDE DEF zeros
<1>3. ASSUME NEW i \in 1 .. 6
      PROVE  Commands[i] = IF i <= 3 THEN zeros[i] ELSE Args[i - 3]
  <2> DEFINE both == zeros \o Args
  <2>1. both[i] = IF i <= Len(zeros) THEN zeros[i] ELSE Args[i - Len(zeros)]
    <3>1. i \in 1 .. Len(zeros) + Len(Args)
      BY <1>1
    <3> QED BY <1>1, <3>1, ConcatProperties
  <2>2. Commands[i] = both[i]
    BY <1>2
  <2> HIDE DEF both
  <2> QED BY <1>1, <2>1, <2>2
<1>4. /\ Commands[1] = 0 /\ Commands[2] = 0 /\ Commands[3] = 1
      /\ Commands[4] = 2 /\ Commands[5] = 3 /\ Commands[6] = 4
  BY <1>1, <1>3
<1>5. \A k \in 0 .. 5 : k + 1 \in {1, 2, 3, 4, 5, 6}
  OBVIOUS
<1> QED BY <1>1, <1>4, <1>5 DEF Word

LEMMA TurnTypes ==
    ASSUME DataTypes, NEW c \in Core, NEW stepped \in BOOLEAN, Turn(c, stepped)
    PROVE  pc' \in {"core0", "core1", "tail"} /\ left' \in 0 .. StepQuantum /\ ran' \in BOOLEAN
<1>1. CASE c = 0
  BY <1>1 DEF Turn, DataTypes
<1>2. CASE c = 1
  <2>1. left' \in 0 .. StepQuantum
    BY <1>2, LaunchAssumption DEF Turn, DataTypes
  <2> QED BY <1>2, <2>1 DEF Turn
<1> QED BY <1>1, <1>2 DEF Core

LEMMA TailOf ==
    ASSUME NEW s \in Seq(Word), s # <<>>
    PROVE  Tail(s) \in Seq(Word) /\ Len(Tail(s)) <= Len(s) /\ Head(s) = s[1] /\ Len(s) \in Nat
  BY HeadTailProperties, LenProperties

\* A push appends the word and sets the flag, or drops it where there is no room.
LEMMA Pushed ==
    ASSUME FifoTypes, event_flag \in [Core -> BOOLEAN],
           NEW c \in Core, NEW w \in Word, PushTo(c, w)
    PROVE  /\ FifoTypes' /\ event_flag' \in [Core -> BOOLEAN]
           /\ fifo'[c] = IF Room(c) THEN Append(fifo[c], w) ELSE fifo[c]
           /\ event_flag'[c] = (event_flag[c] \/ Room(c))
           /\ \A d \in Core \ {c} : fifo'[d] = fifo[d] /\ event_flag'[d] = event_flag[d]
<1>1. /\ fifo' = [fifo EXCEPT ![c] = IF Room(c) THEN Append(@, w) ELSE @]
      /\ event_flag' = [event_flag EXCEPT ![c] = @ \/ Room(c)]
  BY DEF PushTo
<1>2. /\ fifo'[c] = IF Room(c) THEN Append(fifo[c], w) ELSE fifo[c]
      /\ \A d \in Core \ {c} : fifo'[d] = fifo[d] /\ event_flag'[d] = event_flag[d]
  BY <1>1 DEF FifoTypes
<1>3. event_flag' \in [Core -> BOOLEAN] /\ event_flag'[c] = (event_flag[c] \/ Room(c))
  BY <1>1 DEF Room
<1>4. fifo[c] \in Seq(Word) /\ Len(fifo[c]) \in Nat /\ Len(fifo[c]) <= FifoDepth
  BY LenProperties DEF FifoTypes
<1>5. fifo'[c] \in Seq(Word) /\ Len(fifo'[c]) <= FifoDepth
  BY <1>2, <1>4, AppendProperties, LaunchAssumption DEF Room
<1> QED BY <1>1, <1>2, <1>3, <1>5 DEF FifoTypes

\* A FIFO_WR launches core 1, or is answered by the FSM, or reaches the other
\* core.
LEMMA FifoWrites ==
    ASSUME Types, NEW c \in Core, NEW w \in Word, NEW next \in Code, FifoWr(c, w, next)
    PROVE  \/ /\ c = 0 /\ armed /\ HandshakeStep(w) /\ seq = 5 /\ Accepts(w) /\ Launch(w)
              /\ code' = [code EXCEPT ![0] = next, ![1] = "start"]
           \/ /\ c = 0 /\ armed /\ HandshakeStep(w) /\ ~(seq = 5 /\ Accepts(w))
              /\ PushTo(0, IF Accepts(w) THEN w ELSE 0) /\ seq' = NextSeq(w)
              /\ vtor' = (IF seq = 3 /\ Accepts(w) THEN w ELSE vtor)
              /\ sp' = (IF seq = 4 /\ Accepts(w) THEN w ELSE sp)
              /\ UNCHANGED <<armed, halted, launched, fresh>>
              /\ code' = [code EXCEPT ![0] = next]
           \/ /\ ~(c = 0 /\ armed) /\ PushTo(Other(c), w)
              /\ UNCHANGED <<handshake, halted, launch>>
              /\ code' = [code EXCEPT ![c] = next]
<1>1. CASE c = 0 /\ armed
  <2>1. HandshakeStep(w) /\ code' = [code EXCEPT ![0] = next, ![1] = IF armed' THEN @ ELSE "start"]
    BY <1>1 DEF FifoWr
  <2>2. CASE seq = 5 /\ Accepts(w)
    BY <1>1, <2>1, <2>2 DEF HandshakeStep, Launch
  <2>3. CASE ~(seq = 5 /\ Accepts(w))
    <3>1. armed' /\ code \in [Core -> Code]
      BY <1>1, <2>1, <2>3, TypesParts DEF HandshakeStep, CodeTypes
    <3>2. code' = [code EXCEPT ![0] = next]
      <4> DEFINE answered == [code EXCEPT ![0] = next]
      <4>1. code' = [answered EXCEPT ![1] = answered[1]]
        BY <2>1, <3>1
      <4>2. DOMAIN answered = Core
        BY <3>1
      <4> QED BY <4>1, <4>2
    <3> QED BY <1>1, <2>1, <2>3, <3>2 DEF HandshakeStep, Echo
  <2> QED BY <2>2, <2>3
<1>2. CASE ~(c = 0 /\ armed)
  BY <1>2 DEF FifoWr, Becomes
<1> QED BY <1>1, <1>2

\* The FSM's and the FIFOs' types are kept by a FIFO_WR.
LEMMA FifoWrTypes ==
    ASSUME Types, NEW c \in Core, NEW w \in Word, NEW next \in Code, FifoWr(c, w, next)
    PROVE  /\ FifoTypes' /\ event_flag' \in [Core -> BOOLEAN]
           /\ halted' \in [Core -> BOOLEAN] /\ armed' \in BOOLEAN
           /\ seq' \in 0 .. 5 /\ vtor' \in Word /\ sp' \in Word /\ fresh' \in BOOLEAN
           /\ code' \in [Core -> Code] /\ code'[c] = next
           /\ \A d \in Core \ {c} : code'[d] = code[d] \/ (d = 1 /\ code'[d] = "start")
<1>1. DataTypes /\ FifoTypes /\ CodeTypes /\ 0 \in Core /\ 1 \in Core /\ 0 \in Word
  BY TypesParts DEF Core, Word
<1>2. CASE c = 0 /\ Launch(w) /\ code' = [code EXCEPT ![0] = next, ![1] = "start"]
  <2>1. /\ fifo' = [fifo EXCEPT ![0] = IF Room(0) THEN Append(@, w) ELSE @]
        /\ event_flag' = [event_flag EXCEPT ![0] = @ \/ Room(0), ![1] = FALSE]
        /\ halted' = [halted EXCEPT ![1] = FALSE]
        /\ armed' = FALSE /\ seq' = 0 /\ vtor' = 0 /\ sp' = 0 /\ fresh' = TRUE
    BY <1>2 DEF Launch
  <2>2. halted' \in [Core -> BOOLEAN]
    BY <1>1, <2>1 DEF DataTypes
  <2>3. event_flag' \in [Core -> BOOLEAN]
    BY <1>1, <2>1 DEF DataTypes
  <2>4. fifo[0] \in Seq(Word) /\ Len(fifo[0]) \in Nat /\ Len(fifo[0]) <= FifoDepth
    BY <1>1, LenProperties DEF FifoTypes
  <2>5. fifo'[0] \in Seq(Word) /\ Len(fifo'[0]) <= FifoDepth
    BY <1>1, <2>1, <2>4, AppendProperties, LaunchAssumption DEF Room, FifoTypes
  <2>6. FifoTypes'
    BY <1>1, <2>1, <2>5 DEF FifoTypes
  <2>7. code' \in [Core -> Code] /\ code'[0] = next /\ code'[1] = "start"
    BY <1>1, <1>2 DEF CodeTypes, Code, Core
  <2>8. \A d \in Core \ {c} : d = 1
    BY <1>2 DEF Core
  <2>9. armed' \in BOOLEAN /\ fresh' \in BOOLEAN /\ vtor' \in Word /\ sp' \in Word
    BY <1>1, <2>1
  <2>10. seq' \in 0 .. 5
    BY <2>1
  <2> QED BY <1>2, <2>2, <2>3, <2>6, <2>7, <2>8, <2>9, <2>10
<1>3. ASSUME c = 0, PushTo(0, IF Accepts(w) THEN w ELSE 0), seq' = NextSeq(w),
             ~(seq = 5 /\ Accepts(w)),
             vtor' = (IF seq = 3 /\ Accepts(w) THEN w ELSE vtor),
             sp' = (IF seq = 4 /\ Accepts(w) THEN w ELSE sp),
             UNCHANGED <<armed, halted, launched, fresh>>,
             code' = [code EXCEPT ![0] = next]
      PROVE  /\ FifoTypes' /\ event_flag' \in [Core -> BOOLEAN]
             /\ halted' \in [Core -> BOOLEAN] /\ armed' \in BOOLEAN
             /\ seq' \in 0 .. 5 /\ vtor' \in Word /\ sp' \in Word /\ fresh' \in BOOLEAN
             /\ code' \in [Core -> Code] /\ code'[c] = next
             /\ \A d \in Core \ {c} : code'[d] = code[d]
  <2>1. FifoTypes' /\ event_flag' \in [Core -> BOOLEAN]
    BY <1>1, <1>3, Pushed DEF DataTypes
  <2>2. seq' \in 0 .. 5
    BY <1>1, <1>3 DEF NextSeq, DataTypes
  <2>3. vtor' \in Word /\ sp' \in Word
    BY <1>1, <1>3 DEF DataTypes
  <2> QED BY <1>1, <1>3, <2>1, <2>2, <2>3 DEF DataTypes, CodeTypes
<1>4. CASE /\ PushTo(Other(c), w) /\ UNCHANGED <<handshake, halted, launch>>
           /\ code' = [code EXCEPT ![c] = next]
  <2>1. FifoTypes' /\ event_flag' \in [Core -> BOOLEAN]
    BY <1>1, <1>4, OtherCore, Pushed DEF DataTypes
  <2> QED BY <1>1, <1>4, <2>1 DEF DataTypes, CodeTypes, handshake, launch
<1> QED BY <1>2, <1>3, <1>4, FifoWrites

\* A word that is read leaves the FIFO of the core that reads it.
LEMMA Popped ==
    ASSUME FifoTypes, NEW c \in Core, fifo[c] # <<>>,
           fifo' = [fifo EXCEPT ![c] = Tail(@)]
    PROVE  FifoTypes' /\ fifo'[c] = Tail(fifo[c]) /\ \A d \in Core \ {c} : fifo'[d] = fifo[d]
<1>1. fifo[c] \in Seq(Word) /\ Len(fifo[c]) <= FifoDepth
  BY DEF FifoTypes
<1>2. Tail(fifo[c]) \in Seq(Word) /\ Len(Tail(fifo[c])) <= FifoDepth
  <2>1. Len(Tail(fifo[c])) <= Len(fifo[c]) /\ Tail(fifo[c]) \in Seq(Word) /\ Len(fifo[c]) \in Nat
    BY <1>1, TailOf
  <2>2. Len(Tail(fifo[c])) \in Nat
    BY <2>1, LenProperties
  <2> QED BY <1>1, <2>1, <2>2, LaunchAssumption
<1> QED BY <1>1, <1>2 DEF FifoTypes

LEMMA CodeBecomes ==
    ASSUME CodeTypes, NEW c \in Core, NEW next \in Code, code' = [code EXCEPT ![c] = next],
           c = 1 => cmd' = cmd /\ next \in {"start", "app", "pop", "pop_wfe"},
           c = 0 => /\ next \in {"drain", "push", "sev"} => cmd' # NotLaunching
                    /\ cmd' # NotLaunching => next \notin {"start", "app"}
    PROVE  CodeTypes'
<1>1. CASE c = 0
  BY <1>1 DEF CodeTypes, Core
<1>2. CASE c = 1
  BY <1>2 DEF CodeTypes, Core
<1> QED BY <1>1, <1>2 DEF Core

LEMMA TypeStep == Types /\ [Next]_vars => Types'
<1> SUFFICES ASSUME Types, [Next]_vars PROVE Types'
  OBVIOUS
<1> USE DEF handshake, launch, bounds
<1>1. DataTypes /\ FifoTypes /\ CodeTypes /\ 0 \in Core /\ 1 \in Core
  BY TypesParts DEF Core
<1>2. Types' <=> DataTypes' /\ FifoTypes' /\ CodeTypes'
  BY TypesParts, PTL
<1>a. ASSUME NEW c \in Core, Steps(c)
      PROVE  pc' \in {"core0", "core1", "tail"} /\ left' \in 0 .. StepQuantum /\ ran' \in BOOLEAN
  BY <1>1, <1>a, TurnTypes DEF Steps
<1>3. ASSUME Reset \/ HaltCore1 PROVE Types'
  <2>1. CASE Reset
    <3>1. DataTypes'
      <4>1. /\ halted' \in [Core -> BOOLEAN] /\ wfe_waiting' \in [Core -> BOOLEAN]
            /\ event_flag' \in [Core -> BOOLEAN] /\ irq' \in [Core -> BOOLEAN]
        BY <2>1 DEF Reset
      <4>2. seq' \in 0 .. 5 /\ vtor' \in Word /\ sp' \in Word /\ cmd' \in 0 .. NotLaunching
        BY <2>1 DEF Reset, Word, NotLaunching
      <4>3. armed' \in BOOLEAN /\ fresh' \in BOOLEAN
        BY <2>1 DEF Reset
      <4> QED BY <1>1, <2>1, <4>1, <4>2, <4>3 DEF Reset, DataTypes
    <3>2. FifoTypes'
      BY <2>1, EmptySeq, LaunchAssumption DEF Reset, FifoTypes
    <3>3. CodeTypes'
      BY <2>1 DEF Reset, CodeTypes, Code, Core
    <3> QED BY <1>2, <3>1, <3>2, <3>3
  <2>2. CASE HaltCore1
    <3>1. DataTypes'
      BY <1>1, <2>2 DEF HaltCore1, DataTypes
    <3> QED BY <1>1, <1>2, <2>2, <3>1 DEF HaltCore1, FifoTypes, CodeTypes
  <2> QED BY <1>3, <2>1, <2>2
<1>4. ASSUME NEW c \in Core, Skip(c) \/ TakeIrq(c) PROVE Types'
  <2>1. pc' \in {"core0", "core1", "tail"} /\ left' \in 0 .. StepQuantum /\ ran' \in BOOLEAN
    <3>1. \E stepped \in BOOLEAN : Turn(c, stepped)
      BY <1>4 DEF Skip, TakeIrq, Steps
    <3> QED BY <1>1, <3>1, TurnTypes
  <2>2. irq' \in [Core -> BOOLEAN]
    BY <1>1, <1>4 DEF Skip, TakeIrq, DataTypes
  <2>3. DataTypes'
    BY <1>1, <1>4, <2>1, <2>2 DEF Skip, TakeIrq, DataTypes
  <2> QED BY <1>1, <1>2, <1>4, <2>3 DEF Skip, TakeIrq, FifoTypes, CodeTypes
<1>5. ASSUME NEW c \in Core, Start(c) \/ AppOther(c) \/ PopCall(c) \/ PopNoWord(c) PROVE Types'
  <2>1. Steps(c) /\ UNCHANGED <<halted, wfe_waiting, event_flag, irq, fifo, handshake, cmd,
                                launch, bounds>>
    BY <1>5 DEF Start, AppOther, App, PopCall, PopNoWord
  <2>2. DataTypes' /\ FifoTypes'
    BY <1>1, <1>a, <2>1 DEF DataTypes, FifoTypes
  <2>3. CodeTypes'
    <3>1. CASE Start(c)
      BY <1>1, <2>1, <3>1, CodeBecomes DEF Start, Becomes, Code, CodeTypes
    <3>2. CASE AppOther(c)
      BY <1>1, <2>1, <3>2 DEF AppOther, CodeTypes
    <3>3. CASE PopCall(c)
      BY <1>1, <2>1, <3>3, CodeBecomes DEF PopCall, App, Becomes, Code, CodeTypes
    <3>4. CASE PopNoWord(c)
      BY <1>1, <2>1, <3>4, CodeBecomes DEF PopNoWord, Becomes, Code, CodeTypes
    <3> QED BY <1>5, <3>1, <3>2, <3>3, <3>4
  <2> QED BY <1>2, <2>2, <2>3
<1>6. ASSUME NEW c \in Core, AppWr(c) PROVE Types'
  <2>1. PICK w \in Word : FifoWr(c, w, "app")
    BY <1>6, LaunchAssumption DEF AppWr
  <2>2. Steps(c) /\ code[c] = "app" /\ UNCHANGED <<wfe_waiting, irq, cmd>>
    BY <1>6 DEF AppWr, App
  <2>3. "app" \in Code
    BY DEF Code
  <2>4. DataTypes' /\ FifoTypes'
    BY <1>1, <1>a, <2>1, <2>2, <2>3, FifoWrTypes DEF DataTypes
  <2>5. /\ code' \in [Core -> Code] /\ code'[c] = "app"
        /\ \A d \in Core \ {c} : code'[d] = code[d] \/ (d = 1 /\ code'[d] = "start")
    BY <2>1, <2>3, FifoWrTypes
  <2>6. CodeTypes'
    BY <1>1, <2>2, <2>5 DEF CodeTypes
  <2> QED BY <1>2, <2>4, <2>6
<1>7. ASSUME NEW c \in Core, AppRd(c) PROVE Types'
  <2>1. Steps(c) /\ UNCHANGED <<halted, wfe_waiting, event_flag, irq, handshake, code, cmd, launch>>
    BY <1>7 DEF AppRd, App
  <2>2. FifoTypes'
    <3>1. CASE fifo[c] = <<>>
      <4>1. fifo' = fifo
        BY <1>1, <1>7, <3>1 DEF AppRd, FifoTypes
      <4> QED BY <1>1, <4>1 DEF FifoTypes
    <3>2. CASE fifo[c] # <<>>
      BY <1>1, <1>7, <3>2, Popped DEF AppRd
    <3> QED BY <3>1, <3>2
  <2> QED BY <1>1, <1>2, <1>a, <2>1, <2>2 DEF DataTypes, CodeTypes
<1>8. ASSUME NEW c \in Core, AppWfe(c) \/ PopWfe(c) PROVE Types'
  <2>1. Steps(c) /\ WaitForEvent(c) /\ UNCHANGED <<halted, irq, fifo, handshake, cmd, launch>>
    BY <1>8 DEF AppWfe, App, PopWfe
  <2>2. event_flag' \in [Core -> BOOLEAN] /\ wfe_waiting' \in [Core -> BOOLEAN]
    BY <1>1, <2>1 DEF WaitForEvent, DataTypes
  <2>3. DataTypes' /\ FifoTypes'
    BY <1>1, <1>a, <2>1, <2>2 DEF DataTypes, FifoTypes
  <2>4. CodeTypes'
    <3>1. CASE AppWfe(c)
      BY <1>1, <2>1, <3>1 DEF AppWfe, CodeTypes
    <3>2. CASE PopWfe(c)
      BY <1>1, <2>1, <3>2, CodeBecomes DEF PopWfe, Becomes, Code, CodeTypes
    <3> QED BY <1>8, <3>1, <3>2
  <2> QED BY <1>2, <2>3, <2>4
<1>9. ASSUME NEW c \in Core, AppWfi(c) PROVE Types'
  <2>1. halted' \in [Core -> BOOLEAN] /\ Steps(c)
    BY <1>1, <1>9 DEF AppWfi, App, DataTypes
  <2> QED BY <1>1, <1>2, <1>9, <1>a, <2>1 DEF AppWfi, DataTypes, FifoTypes, CodeTypes
<1>10. ASSUME NEW c \in Core, PopWord(c) PROVE Types'
  <2>1. /\ code[c] = "pop" /\ fifo[c] # <<>> /\ Steps(c)
        /\ fifo' = [fifo EXCEPT ![c] = Tail(@)]
        /\ UNCHANGED <<halted, wfe_waiting, event_flag, irq, handshake, launch>>
        /\ ~Launching(c) => cmd' = cmd
        /\ Launching(c) => cmd' \in {0, cmd + 1}
    BY <1>10 DEF PopWord
  <2>2. cmd' \in 0 .. NotLaunching
    BY <1>1, <2>1 DEF Launching, NotLaunching, DataTypes
  <2>3. DataTypes' /\ FifoTypes'
    BY <1>1, <1>a, <2>1, <2>2, Popped DEF DataTypes
  <2>4. PICK next \in Code :
           /\ code' = [code EXCEPT ![c] = next]
           /\ IF ~Launching(c) \/ cmd' = NotLaunching THEN next = "app"
              ELSE next \in {"drain", "push"}
    BY <1>10 DEF PopWord, Becomes, Code
  <2>5. CodeTypes'
    <3>1. c = 1 => cmd' = cmd /\ next = "app"
      BY <2>1, <2>4 DEF Launching
    <3>2. c = 0 => /\ next \in {"drain", "push", "sev"} => cmd' # NotLaunching
                   /\ cmd' # NotLaunching => next \notin {"start", "app"}
      BY <2>1, <2>4 DEF Launching
    <3> QED BY <1>1, <2>4, <3>1, <3>2, CodeBecomes
  <2> QED BY <1>2, <2>3, <2>5
<1>11. CASE LaunchCall
  <2>1. /\ Steps(0) /\ cmd' = 0 /\ fresh' = FALSE /\ code' = [code EXCEPT ![0] = "drain"]
        /\ UNCHANGED <<halted, wfe_waiting, event_flag, irq, fifo, handshake>>
    BY <1>11 DEF LaunchCall, App, Becomes
  <2>2. cmd' \in 0 .. NotLaunching /\ cmd' # NotLaunching /\ "drain" \in Code
    BY <2>1 DEF NotLaunching, Code
  <2>3. DataTypes' /\ FifoTypes'
    BY <1>1, <1>a, <2>1, <2>2 DEF DataTypes, FifoTypes
  <2>4. CodeTypes'
    BY <1>1, <2>1, <2>2 DEF CodeTypes
  <2> QED BY <1>2, <2>3, <2>4
<1>12. CASE DrainWord \/ PushWait
  <2>1. Steps(0) /\ UNCHANGED <<halted, wfe_waiting, event_flag, irq, handshake, code, cmd, launch>>
    BY <1>12 DEF DrainWord, PushWait
  <2>2. FifoTypes'
    <3>1. CASE DrainWord
      BY <1>1, <3>1, Popped DEF DrainWord
    <3>2. CASE PushWait
      BY <1>1, <3>2 DEF PushWait, FifoTypes
    <3> QED BY <1>12, <3>1, <3>2
  <2> QED BY <1>1, <1>2, <1>a, <2>1, <2>2 DEF DataTypes, CodeTypes
<1>13. CASE DrainDone \/ PushSev
  <2>1. /\ Steps(0) /\ UNCHANGED <<halted, wfe_waiting, irq, fifo, handshake, cmd, launch>>
        /\ event_flag' = [c \in Core |-> TRUE] /\ code[0] \in {"drain", "sev"}
        /\ \E next \in {"push", "pop"} : code' = [code EXCEPT ![0] = next]
    BY <1>13 DEF DrainDone, PushSev, Becomes
  <2>2. DataTypes' /\ FifoTypes'
    BY <1>1, <1>a, <2>1 DEF DataTypes, FifoTypes
  <2>3. CodeTypes'
    BY <1>1, <2>1, CodeBecomes DEF CodeTypes, Code
  <2> QED BY <1>2, <2>2, <2>3
<1>14. CASE PushWord
  <2>1. /\ Steps(0) /\ code[0] = "push" /\ FifoWr(0, Commands[cmd + 1], "sev")
        /\ UNCHANGED <<wfe_waiting, irq, cmd>>
    BY <1>14 DEF PushWord
  <2>2. cmd # NotLaunching /\ cmd \in 0 .. 5
    BY <1>1, <2>1 DEF CodeTypes, DataTypes, NotLaunching
  <2>3. Commands[cmd + 1] \in Word /\ "sev" \in Code
    BY <2>2, Words DEF Code
  <2>4. DataTypes' /\ FifoTypes'
    BY <1>1, <1>a, <2>1, <2>3, FifoWrTypes DEF DataTypes
  <2>5. /\ code' \in [Core -> Code] /\ code'[0] = "sev"
        /\ \A d \in Core \ {0} : code'[d] = code[d] \/ (d = 1 /\ code'[d] = "start")
    BY <1>1, <2>1, <2>3, FifoWrTypes
  <2>6. CodeTypes'
    BY <1>1, <2>1, <2>2, <2>5 DEF CodeTypes
  <2> QED BY <1>2, <2>4, <2>6
<1>15. CASE TailOfStep
  <2>1. PICK raised \in BOOLEAN : WakeChecks(raised)
    BY <1>15 DEF TailOfStep
  <2>2. /\ irq' \in [Core -> BOOLEAN] /\ event_flag' \in [Core -> BOOLEAN]
        /\ wfe_waiting' \in [Core -> BOOLEAN] /\ halted' \in [Core -> BOOLEAN]
    BY <1>1, <2>1 DEF WakeChecks, DataTypes
  <2>3. pc' = "core0" /\ left' \in 0 .. StepQuantum
    BY <1>15, LaunchAssumption DEF TailOfStep
  <2> QED BY <1>1, <1>2, <1>15, <2>2, <2>3 DEF TailOfStep, DataTypes, FifoTypes, CodeTypes
<1>16. CASE UNCHANGED vars
  BY <1>1, <1>2, <1>16 DEF vars, DataTypes, FifoTypes, CodeTypes
<1> QED BY <1>3, <1>4, <1>5, <1>6, <1>7, <1>8, <1>9, <1>10, <1>11, <1>12, <1>13, <1>14, <1>15, <1>16
        DEF Next, Emulate, Firmware, LaunchLoop

-----------------------------------------------------------------------------
(* The handshake's state and the words it has taken.                       *)

LEMMA FsmSteps ==
    ASSUME Types, [Next]_vars
    PROVE  \/ UNCHANGED <<attempt, armed, seq, vtor, sp, launched>>
           \/ Reset \/ HaltCore1
           \/ armed /\ \E w \in Word : HandshakeStep(w)
<1> USE DEF handshake, launch, bounds
<1>1. ASSUME NEW c \in Core, NEW w \in Word, NEW next \in Code, FifoWr(c, w, next)
      PROVE  UNCHANGED <<attempt, armed, seq, vtor, sp, launched>> \/ (armed /\ HandshakeStep(w))
  BY <1>1 DEF FifoWr
<1>2. ASSUME NEW c \in Core, AppWr(c)
      PROVE  \E w \in Word : FifoWr(c, w, "app") /\ "app" \in Code
  BY <1>2, LaunchAssumption DEF AppWr, Code
<1>3. ASSUME PushWord
      PROVE  \E w \in Word : FifoWr(0, w, "sev") /\ "sev" \in Code /\ 0 \in Core
  <2>1. cmd \in 0 .. 5 /\ FifoWr(0, Commands[cmd + 1], "sev")
    BY <1>3 DEF PushWord, Types, TypeOK, NotLaunching
  <2> QED BY <2>1, Words DEF Code, Core
<1>4. ASSUME NEW c \in Core, Skip(c) \/ TakeIrq(c) \/ Start(c) \/ AppRd(c) \/ AppWfe(c) \/ AppWfi(c)
                             \/ AppOther(c) \/ PopCall(c) \/ PopNoWord(c) \/ PopWfe(c) \/ PopWord(c)
      PROVE  UNCHANGED <<attempt, armed, seq, vtor, sp, launched>>
  BY <1>4 DEF Skip, TakeIrq, Start, AppRd, AppWfe, AppWfi, AppOther, PopCall, PopNoWord, PopWfe, PopWord
<1>5. LaunchCall \/ DrainWord \/ DrainDone \/ PushWait \/ PushSev \/ TailOfStep \/ UNCHANGED vars
      => UNCHANGED <<attempt, armed, seq, vtor, sp, launched>>
  BY DEF LaunchCall, DrainWord, DrainDone, PushWait, PushSev, TailOfStep, vars
<1> QED BY <1>1, <1>2, <1>3, <1>4, <1>5 DEF Next, Emulate, Firmware, LaunchLoop

\* The history keeps the last six words: t is s and w, without the first of
\* seven.
Keeps(s, w, t) ==
    /\ Len(s) \in Nat /\ t \in Seq(Word)
    /\ Len(t) = IF Len(s) < 6 THEN Len(s) + 1 ELSE 6
    /\ t[Len(t)] = w
    /\ \A i \in 1 .. Len(t) - 1 : t[i] = s[i + Len(s) + 1 - Len(t)]

LEMMA LastSix ==
    ASSUME NEW s \in Seq(Word), NEW w \in Word, Len(s) <= 6
    PROVE  Keeps(s, w, IF Len(Append(s, w)) > 6 THEN Tail(Append(s, w)) ELSE Append(s, w))
<1>1. Len(s) \in Nat
  BY LenProperties
<1>9. Len(s) < 6 \/ Len(s) = 6
  <2>1. \A n \in Nat : n <= 6 => n < 6 \/ n = 6
    OBVIOUS
  <2> QED BY <1>1, <2>1, Zenon
<1>2. PICK all \in Seq(Word) : all = Append(s, w)
  BY AppendProperties
<1>3. /\ all # <<>> /\ Len(all) = Len(s) + 1
      /\ all[Len(s) + 1] = w /\ \A i \in 1 .. Len(s) : all[i] = s[i]
  BY <1>2, AppendProperties
<1>4. /\ Tail(all) \in Seq(Word) /\ Len(Tail(all)) = Len(s)
      /\ \A i \in 1 .. Len(s) : Tail(all)[i] = all[i + 1]
  <2>1. Len(Tail(all)) = Len(s)
    BY <1>1, <1>3, HeadTailProperties
  <2> QED BY <1>3, <2>1, HeadTailProperties
<1>5. ASSUME NEW t \in Seq(Word), Len(s) < 6, t = all PROVE Keeps(s, w, t)
  <2>1. ASSUME NEW i \in 1 .. Len(t) - 1 PROVE t[i] = s[i + Len(s) + 1 - Len(t)]
    <3>1. i \in 1 .. Len(s) /\ i + Len(s) + 1 - Len(t) = i
      BY <1>1, <1>3, <1>5
    <3> QED BY <1>3, <1>5, <3>1
  <2> QED BY <1>1, <1>3, <1>5, <2>1 DEF Keeps
<1>6. ASSUME NEW t \in Seq(Word), Len(s) = 6, Len(t) = 6, \A i \in 1 .. 6 : t[i] = all[i + 1]
      PROVE  Keeps(s, w, t)
  <2>1. ASSUME NEW i \in 1 .. Len(t) - 1 PROVE t[i] = s[i + Len(s) + 1 - Len(t)]
    <3>1. i \in 1 .. 5
      BY <1>6
    <3>2. i + Len(s) + 1 - Len(t) = i + 1 /\ i \in 1 .. 6 /\ i + 1 \in 1 .. Len(s)
      BY <1>6, <3>1
    <3> QED BY <1>3, <1>6, <3>2
  <2>2. t[Len(t)] = w
    <3>1. 6 \in 1 .. 6 /\ 6 + 1 = Len(s) + 1
      BY <1>6
    <3> QED BY <1>3, <1>6, <3>1
  <2> QED BY <1>6, <2>1, <2>2 DEF Keeps
<1>7. CASE Len(s) < 6
  <2>1. Keeps(s, w, all) /\ ~(Len(all) > 6)
    BY <1>1, <1>3, <1>5, <1>7
  <2> QED BY <1>2, <2>1
<1>8. CASE Len(s) = 6
  <2>1. Len(Tail(all)) = 6 /\ \A i \in 1 .. 6 : Tail(all)[i] = all[i + 1]
    BY <1>4, <1>8
  <2>2. Keeps(s, w, Tail(all))
    BY <1>4, <1>6, <1>8, <2>1, Zenon
  <2>3. Len(all) > 6
    BY <1>3, <1>8
  <2> QED BY <1>2, <2>2, <2>3
<1> QED BY <1>9, <1>7, <1>8

LEMMA LastWords ==
    ASSUME AttemptInv, NEW w \in Word, HandshakeStep(w)
    PROVE  Keeps(attempt, w, attempt')
<1>1. attempt \in Seq(Word) /\ Len(attempt) <= 6
  BY LenProperties DEF AttemptInv
<1>2. attempt' = IF Len(Append(attempt, w)) > 6 THEN Tail(Append(attempt, w))
                 ELSE Append(attempt, w)
  BY DEF HandshakeStep
<1>3. Keeps(attempt, w, IF Len(Append(attempt, w)) > 6 THEN Tail(Append(attempt, w))
                        ELSE Append(attempt, w))
  BY <1>1, LastSix
<1> QED BY <1>2, <1>3

\* An accepted word is the next of the attempt.
LEMMA WordTaken ==
    ASSUME AttemptInv, seq \in 0 .. 5, NEW w \in Word, HandshakeStep(w), Accepts(w)
    PROVE  /\ Len(attempt') \in seq + 1 .. 6 /\ attempt' \in Seq(Word)
           /\ \A i \in 1 .. seq : attempt'[Len(attempt') - (seq + 1) + i] = Taken[i]
           /\ attempt'[Len(attempt')] = w
<1> DEFINE L == Len(attempt)
           M == Len(attempt')
<1>1. /\ L \in Nat /\ attempt' \in Seq(Word) /\ M = IF L < 6 THEN L + 1 ELSE 6
      /\ attempt'[M] = w /\ \A i \in 1 .. M - 1 : attempt'[i] = attempt[i + L + 1 - M]
  BY LastWords DEF Keeps
<1>2. L >= seq /\ L <= 6 /\ \A i \in 1 .. seq : attempt[L - seq + i] = Taken[i]
  BY DEF AttemptInv
<1> HIDE DEF L, M
<1>3. M >= seq + 1 /\ M <= 6 /\ M \in Nat
  BY <1>1, <1>2
<1>4. ASSUME NEW i \in 1 .. seq PROVE attempt'[M - (seq + 1) + i] = Taken[i]
  <2>1. M - (seq + 1) + i \in 1 .. M - 1
    BY <1>3
  <2>2. (M - (seq + 1) + i) + L + 1 - M = L - seq + i
    BY <1>1, <1>3
  <2> QED BY <1>1, <1>2, <2>1, <2>2
<1> QED BY <1>1, <1>3, <1>4 DEF M

LEMMA AttemptStep == Types /\ AttemptInv /\ [Next]_vars => AttemptInv'
<1> SUFFICES ASSUME Types, AttemptInv, [Next]_vars PROVE AttemptInv'
  OBVIOUS
<1>1. seq \in 0 .. 5
  BY DEF Types, TypeOK
<1>2. CASE UNCHANGED <<attempt, armed, seq, vtor, sp, launched>>
  BY <1>2 DEF AttemptInv, Taken
<1>3. CASE Reset
  BY <1>3, EmptySeq DEF Reset, AttemptInv
<1>4. CASE HaltCore1
  <2>1. CASE armed
    BY <1>4, <2>1 DEF HaltCore1, AttemptInv, Taken
  <2>2. CASE ~armed
    BY <1>4, <2>2, EmptySeq DEF HaltCore1, AttemptInv
  <2> QED BY <2>1, <2>2
<1>5. ASSUME armed, NEW w \in Word, HandshakeStep(w) PROVE AttemptInv'
  <2>1. CASE seq = 5 /\ Accepts(w)
    <3>1. seq' = 0
      BY <1>5, <2>1 DEF HandshakeStep, Launch
    <3>2. attempt' \in Seq(Word) /\ Len(attempt') \in 0 .. 6
      BY <1>1, <1>5, <2>1, WordTaken
    <3> QED BY <3>1, <3>2 DEF AttemptInv
  <2>2. CASE seq # 5 /\ Accepts(w)
    <3>1. /\ seq' = seq + 1 /\ armed' = armed
          /\ vtor' = (IF seq = 3 THEN w ELSE vtor) /\ sp' = (IF seq = 4 THEN w ELSE sp)
      BY <1>5, <2>2 DEF HandshakeStep, NextSeq
    <3>2. /\ Len(attempt') \in seq' .. 6 /\ attempt' \in Seq(Word)
          /\ \A i \in 1 .. seq : attempt'[Len(attempt') - seq' + i] = Taken[i]
          /\ attempt'[Len(attempt') - seq' + seq'] = w
      <4>1. /\ Len(attempt') \in seq + 1 .. 6 /\ attempt' \in Seq(Word)
            /\ \A i \in 1 .. seq : attempt'[Len(attempt') - (seq + 1) + i] = Taken[i]
            /\ attempt'[Len(attempt')] = w
        BY <1>1, <1>5, <2>2, WordTaken
      <4>2. Len(attempt') - (seq + 1) + (seq + 1) = Len(attempt')
        BY <1>1, <4>1
      <4> QED BY <3>1, <4>1, <4>2
    <3>3. \A i \in 1 .. seq : Taken'[i] = Taken[i]
      <4>1. \A i \in 1 .. seq : i \in {1, 2, 3, 4, 5} /\ i <= seq
        BY <1>1
      <4> QED BY <1>1, <3>1, <4>1 DEF Taken
    <3>4. Taken'[seq'] = w
      <4>1. seq \in {0, 1, 2, 3, 4}
        BY <1>1, <2>2
      <4> QED BY <2>2, <3>1, <4>1 DEF Taken, Accepts
    <3>5. \A i \in 1 .. seq' : i \in 1 .. seq \/ i = seq'
      BY <1>1, <3>1
    <3>6. \A i \in 1 .. seq' : attempt'[Len(attempt') - seq' + i] = Taken'[i]
      BY <3>2, <3>3, <3>4, <3>5
    <3> QED BY <1>5, <3>1, <3>2, <3>6 DEF AttemptInv
  <2>3. CASE ~Accepts(w)
    <3>1. seq' = 0 /\ armed' = armed
      BY <1>5, <2>3 DEF HandshakeStep, NextSeq
    <3>2. attempt' \in Seq(Word) /\ Len(attempt') \in 0 .. 6
      <4>1. /\ Len(attempt) \in Nat /\ attempt' \in Seq(Word)
            /\ Len(attempt') = IF Len(attempt) < 6 THEN Len(attempt) + 1 ELSE 6
        BY <1>5, LastWords DEF Keeps
      <4> QED BY <4>1
    <3> QED BY <1>5, <3>1, <3>2 DEF AttemptInv
  <2> QED BY <2>1, <2>2, <2>3
<1> QED BY <1>2, <1>3, <1>4, <1>5, FsmSteps

-----------------------------------------------------------------------------
(* The blocking pop.                                                       *)

\* A step that takes no event from a core and puts it neither to sleep nor to
\* its test, and that comes with an event if it brings the first word.
LEMMA WakeKept ==
    ASSUME NEW d \in Core, Wake(d), code'[d] = code[d],
           wfe_waiting'[d] => wfe_waiting[d],
           event_flag[d] => event_flag'[d],
           fifo'[d] # <<>> => fifo[d] # <<>> \/ event_flag'[d]
    PROVE  Wake(d)'
  BY DEF Wake

LEMMA WakeElsewhere ==
    ASSUME NEW d \in Core,
           code'[d] \notin {"pop", "pop_wfe"} \/ (code'[d] = "pop" /\ ~wfe_waiting'[d])
    PROVE  Wake(d)'
  BY DEF Wake

LEMMA WakeFifoWr ==
    ASSUME Types, WakeInv, NEW c \in Core, NEW w \in Word, NEW next \in {"app", "sev"},
           FifoWr(c, w, next), UNCHANGED wfe_waiting
    PROVE  WakeInv'
<1>1. FifoTypes /\ CodeTypes /\ event_flag \in [Core -> BOOLEAN] /\ next \in Code /\ 0 \in Word
  BY TypesParts DEF DataTypes, Code, Word
<1>2. SUFFICES ASSUME NEW d \in Core PROVE Wake(d)'
  BY DEF WakeInv
<1>3. Wake(d)
  BY DEF WakeInv
<1>4. code'[c] = next /\ \A e \in Core \ {c} : code'[e] = code[e] \/ code'[e] = "start"
  BY <1>1, FifoWrTypes
<1>5. CASE d = c
  BY <1>4, <1>5, WakeElsewhere
<1>6. ASSUME d # c, NEW e \in Core, NEW v \in Word, PushTo(e, v), code'[d] = code[d] PROVE Wake(d)'
  <2>1. /\ fifo'[e] = (IF Room(e) THEN Append(fifo[e], v) ELSE fifo[e])
        /\ event_flag'[e] = (event_flag[e] \/ Room(e))
        /\ \A f \in Core \ {e} : fifo'[f] = fifo[f] /\ event_flag'[f] = event_flag[f]
    BY <1>1, <1>6, Pushed
  <2>2. fifo'[d] # <<>> => fifo[d] # <<>> \/ event_flag'[d]
    BY <2>1
  <2>3. event_flag[d] => event_flag'[d]
    BY <2>1
  <2> QED BY <1>3, <1>6, <2>2, <2>3, WakeKept
<1>7. CASE d # c
  <2>1. \/ code'[d] = "start"
        \/ code'[d] = code[d] /\ \E e \in Core, v \in Word : PushTo(e, v)
    <3>1. CASE Launch(w) /\ c = 0 /\ code' = [code EXCEPT ![0] = next, ![1] = "start"]
      BY <1>1, <1>7, <3>1 DEF Core, CodeTypes
    <3>2. CASE /\ c = 0 /\ PushTo(0, IF Accepts(w) THEN w ELSE 0)
               /\ code' = [code EXCEPT ![0] = next]
      <4>1. code'[d] = code[d] /\ 0 \in Core
        BY <1>1, <1>7, <3>2 DEF Core, CodeTypes
      <4> QED BY <1>1, <3>2, <4>1
    <3>3. CASE PushTo(Other(c), w) /\ code' = [code EXCEPT ![c] = next]
      <4>1. code'[d] = code[d]
        BY <1>1, <1>7, <3>3 DEF CodeTypes
      <4> QED BY <3>3, <4>1, OtherCore
    <3> QED BY <1>1, <3>1, <3>2, <3>3, FifoWrites
  <2> QED BY <1>6, <1>7, <2>1, WakeElsewhere
<1> QED BY <1>5, <1>7

LEMMA WakeStep == Types /\ WakeInv /\ [Next]_vars => WakeInv'
<1> SUFFICES ASSUME Types, WakeInv, [Next]_vars PROVE WakeInv'
  OBVIOUS
<1> USE DEF handshake, launch, bounds
<1>1. /\ DataTypes /\ FifoTypes /\ CodeTypes /\ 0 \in Core /\ 1 \in Core
      /\ \A d \in Core : Wake(d)
  BY TypesParts DEF Core, WakeInv
<1>2. (\A d \in Core : Wake(d)') => WakeInv'
  BY DEF WakeInv
<1>a. ASSUME NEW c \in Core, Steps(c) PROVE ~wfe_waiting[c]
  BY <1>a DEF Steps, CanRun
<1>3. ASSUME UNCHANGED wfe_waiting, UNCHANGED code, UNCHANGED event_flag,
             \A d \in Core : fifo'[d] # <<>> => fifo[d] # <<>>
      PROVE  WakeInv'
  BY <1>1, <1>2, <1>3, WakeKept
<1>4. CASE Reset
  BY <1>2, <1>4, WakeElsewhere DEF Reset
<1>5. ASSUME NEW c \in Core, Skip(c) \/ TakeIrq(c) \/ AppOther(c) \/ AppWfi(c) \/ HaltCore1 \/ PushWait
      PROVE  WakeInv'
  <2>1. UNCHANGED <<wfe_waiting, code, event_flag, fifo>>
    BY <1>5 DEF Skip, TakeIrq, AppOther, AppWfi, HaltCore1, PushWait
  <2> QED BY <1>3, <2>1
<1>6. ASSUME NEW c \in Core, AppRd(c) \/ (c = 0 /\ DrainWord) PROVE WakeInv'
  <2>1. UNCHANGED <<wfe_waiting, code, event_flag>>
    BY <1>6 DEF AppRd, DrainWord
  <2>2. fifo' = [fifo EXCEPT ![c] = IF @ = <<>> THEN @ ELSE Tail(@)]
    BY <1>6 DEF AppRd, DrainWord
  <2>3. \A d \in Core : fifo'[d] # <<>> => fifo[d] # <<>>
    BY <1>1, <2>2 DEF FifoTypes
  <2> QED BY <1>3, <2>1, <2>3
<1>7. ASSUME NEW c \in Core, Start(c) \/ PopCall(c) PROVE WakeInv'
  <2>1. /\ ~wfe_waiting[c] /\ UNCHANGED <<wfe_waiting, event_flag, fifo>>
        /\ \E next \in {"app", "pop"} : code' = [code EXCEPT ![c] = next]
    BY <1>7, <1>a DEF Start, PopCall, App, Becomes
  <2>2. code'[c] \in {"app", "pop"} /\ \A d \in Core \ {c} : code'[d] = code[d]
    BY <1>1, <2>1 DEF CodeTypes
  <2>3. \A d \in Core \ {c} : Wake(d)'
    BY <1>1, <2>1, <2>2, WakeKept
  <2>4. Wake(c)'
    BY <2>1, <2>2, WakeElsewhere
  <2> QED BY <1>2, <2>3, <2>4
<1>8. ASSUME NEW c \in Core, AppWr(c) PROVE WakeInv'
  <2>1. PICK w \in Word : FifoWr(c, w, "app")
    BY <1>8, LaunchAssumption DEF AppWr
  <2> QED BY <1>8, <2>1, WakeFifoWr DEF AppWr
<1>9. CASE PushWord
  <2>1. Commands[cmd + 1] \in Word
    <3>1. cmd \in 0 .. 5
      BY <1>1, <1>9 DEF PushWord, CodeTypes, DataTypes, NotLaunching
    <3> QED BY <3>1, Words
  <2> QED BY <1>1, <1>9, <2>1, WakeFifoWr DEF PushWord
<1>10. ASSUME NEW c \in Core, AppWfe(c) \/ PopWfe(c) PROVE WakeInv'
  <2>1. /\ ~wfe_waiting[c] /\ WaitForEvent(c) /\ UNCHANGED fifo
        /\ \/ code[c] = "app" /\ UNCHANGED code
           \/ code[c] = "pop_wfe" /\ code' = [code EXCEPT ![c] = "pop"]
    BY <1>10, <1>a DEF AppWfe, App, PopWfe, Becomes
  <2>2. \A d \in Core \ {c} : Wake(d)'
    BY <1>1, <2>1, WakeKept DEF WaitForEvent, CodeTypes, DataTypes
  <2>3. Wake(c)'
    <3>1. CASE code[c] = "app" /\ UNCHANGED code
      BY <3>1, WakeElsewhere
    <3>2. CASE code[c] = "pop_wfe" /\ code' = [code EXCEPT ![c] = "pop"]
      <4>1. code'[c] = "pop" /\ wfe_waiting'[c] = ~event_flag[c] /\ fifo'[c] = fifo[c]
        BY <1>1, <2>1, <3>2 DEF WaitForEvent, CodeTypes, DataTypes
      <4>2. fifo[c] # <<>> => event_flag[c]
        BY <1>1, <3>2 DEF Wake
      <4> QED BY <4>1, <4>2 DEF Wake
    <3> QED BY <2>1, <3>1, <3>2
  <2> QED BY <1>2, <2>2, <2>3
<1>11. ASSUME NEW c \in Core, PopNoWord(c) PROVE WakeInv'
  <2>1. /\ ~wfe_waiting[c] /\ fifo[c] = <<>> /\ UNCHANGED <<wfe_waiting, event_flag, fifo>>
        /\ code' = [code EXCEPT ![c] = "pop_wfe"]
    BY <1>11, <1>a DEF PopNoWord, Becomes
  <2>2. \A d \in Core \ {c} : Wake(d)'
    BY <1>1, <2>1, WakeKept DEF CodeTypes
  <2>3. Wake(c)'
    BY <2>1 DEF Wake
  <2> QED BY <1>2, <2>2, <2>3
<1>12. ASSUME NEW c \in Core, PopWord(c) PROVE WakeInv'
  <2>1. /\ UNCHANGED <<wfe_waiting, event_flag>> /\ fifo' = [fifo EXCEPT ![c] = Tail(@)]
        /\ \E next \in {"app", "drain", "push"} : code' = [code EXCEPT ![c] = next]
    BY <1>12 DEF PopWord, Becomes
  <2>2. code'[c] \in {"app", "drain", "push"} /\ \A d \in Core \ {c} : code'[d] = code[d]
    BY <1>1, <2>1 DEF CodeTypes
  <2>3. \A d \in Core \ {c} : fifo'[d] = fifo[d]
    BY <1>1, <2>1 DEF FifoTypes
  <2>4. \A d \in Core \ {c} : Wake(d)'
    BY <1>1, <2>1, <2>2, <2>3, WakeKept
  <2>5. Wake(c)'
    BY <2>2, WakeElsewhere
  <2> QED BY <1>2, <2>4, <2>5
<1>13. CASE LaunchCall \/ DrainDone \/ PushSev
  <2>1. /\ ~wfe_waiting[0] /\ UNCHANGED <<wfe_waiting, fifo>>
        /\ UNCHANGED event_flag \/ event_flag' = [c \in Core |-> TRUE]
        /\ \E next \in {"drain", "push", "pop"} : code' = [code EXCEPT ![0] = next]
    BY <1>1, <1>13, <1>a DEF LaunchCall, App, DrainDone, PushSev, Becomes
  <2>2. code'[0] \in {"drain", "push", "pop"} /\ \A d \in Core \ {0} : code'[d] = code[d]
    BY <1>1, <2>1 DEF CodeTypes
  <2>3. \A d \in Core \ {0} : Wake(d)'
    BY <1>1, <2>1, <2>2, WakeKept
  <2>4. Wake(0)'
    BY <1>1, <2>1, <2>2, WakeElsewhere
  <2> QED BY <1>2, <2>3, <2>4
<1>14. CASE TailOfStep
  <2>1. PICK raised \in BOOLEAN : WakeChecks(raised)
    BY <1>14 DEF TailOfStep
  <2>2. UNCHANGED <<code, fifo>>
    BY <1>14 DEF TailOfStep
  <2>3. ASSUME NEW d \in Core PROVE Wake(d)'
    <3>1. wfe_waiting'[d] => wfe_waiting[d] /\ ~event_flag[d]
      BY <2>1 DEF WakeChecks
    <3>2. event_flag'[d] = (event_flag[d] /\ ~wfe_waiting[d])
      BY <2>1 DEF WakeChecks
    <3> QED BY <1>1, <2>2, <3>1, <3>2 DEF Wake
  <2> QED BY <1>2, <2>3
<1>15. CASE UNCHANGED vars
  BY <1>3, <1>15 DEF vars
<1> QED BY <1>1, <1>4, <1>5, <1>6, <1>7, <1>8, <1>9, <1>10, <1>11, <1>12, <1>13, <1>14, <1>15
        DEF Next, Emulate, Firmware, LaunchLoop

-----------------------------------------------------------------------------
(* The launch loop.                                                        *)

\* Nothing but the host's and the tail's steps and core 1's own wakes core 1
\* from a halt that the FSM still has to end.
LEMMA LoopKept ==
    ASSUME Loop, UNCHANGED <<cmd, launched, fresh, armed, seq, vtor, sp>>,
           code'[0] = code[0], fifo'[0] = fifo[0], halted[1] => halted'[1]
    PROVE  Loop'
  BY DEF Loop, Started, Waiting, Asking, Answered, KeptArgs

LEMMA HeadAppended ==
    ASSUME NEW s \in Seq(Word), NEW w \in Word, s # <<>>
    PROVE  Append(s, w) # <<>> /\ Head(Append(s, w)) = Head(s)
<1>1. Len(s) >= 1
  BY EmptySeq, LenProperties
<1>2. PICK all \in Seq(Word) : all = Append(s, w)
  BY AppendProperties
<1>3. Len(all) = Len(s) + 1 /\ all[1] = s[1]
  BY <1>1, <1>2, AppendProperties
<1>4. all # <<>> /\ Head(all) = all[1] /\ Head(s) = s[1]
  BY <1>2, HeadTailProperties, AppendProperties
<1> QED BY <1>2, <1>3, <1>4

\* Outside the loop nothing is to be kept.
LEMMA LoopOutside == cmd' = NotLaunching => Loop'
  BY DEF Loop

\* The line never reaches core 1's NVIC.
LEMMA IrqStep ==
    ASSUME Types, ~irq[1], 1 \notin IrqUsers, [Next]_vars
    PROVE  ~irq'[1]
<1> USE DEF handshake, launch, bounds
<1>1. irq \in [Core -> BOOLEAN] /\ 1 \in Core
  BY DEF Types, TypeOK, Core
<1>2. CASE TailOfStep
  BY <1>1, <1>2 DEF TailOfStep, WakeChecks
<1>3. ASSUME NEW c \in Core, TakeIrq(c) PROVE ~irq'[1]
  BY <1>1, <1>3 DEF TakeIrq
<1>4. CASE Reset
  BY <1>1, <1>4 DEF Reset
<1>5. ASSUME NEW c \in Core, Skip(c) \/ Start(c) \/ AppWr(c) \/ AppRd(c) \/ AppWfe(c) \/ AppWfi(c)
                             \/ AppOther(c) \/ PopCall(c) \/ PopNoWord(c) \/ PopWfe(c) \/ PopWord(c)
      PROVE  UNCHANGED irq
  BY <1>5 DEF Skip, Start, AppWr, AppRd, AppWfe, AppWfi, AppOther, PopCall, PopNoWord, PopWfe, PopWord
<1>6. HaltCore1 \/ LaunchCall \/ LaunchLoop \/ UNCHANGED vars => UNCHANGED irq
  BY DEF HaltCore1, LaunchCall, LaunchLoop, DrainWord, DrainDone, PushWait, PushWord, PushSev, vars
<1> QED BY <1>2, <1>3, <1>4, <1>5, <1>6 DEF Next, Emulate, Firmware

LEMMA One ==
    ASSUME NEW w \in Word
    PROVE  /\ Append(<<>>, w) = <<w>> /\ <<w>> # <<>> /\ Head(<<w>>) = w /\ Tail(<<w>>) = <<>>
           /\ Len(<<>>) = 0
  OBVIOUS

\* A command is answered by the FSM, whatever it was in the middle of, or by
\* the launch.
LEMMA LoopPush ==
    ASSUME Types, Loop, PushWord
    PROVE  Loop'
<1>1. /\ DataTypes /\ FifoTypes /\ CodeTypes /\ 0 \in Core /\ 1 \in Core /\ 0 \in Word
      /\ FifoDepth \in Nat \ {0}
  BY TypesParts, LaunchAssumption DEF Core, Word
<1>2. /\ code[0] = "push" /\ UNCHANGED cmd /\ FifoWr(0, Commands[cmd + 1], "sev")
  BY DEF PushWord
<1>3. /\ cmd \in 0 .. 5 /\ armed /\ halted[1] /\ fifo[0] = <<>> /\ Asking
      /\ cmd # NotLaunching
  BY <1>1, <1>2 DEF Loop, Started, Waiting, CodeTypes, DataTypes, NotLaunching
<1>4. PICK w \in Word : w = Commands[cmd + 1]
  BY <1>3, Words
<1>5. /\ cmd \in {0, 1} => w = 0
      /\ (cmd = 2 => w = 1) /\ (cmd = 3 => w = 2)
      /\ (cmd = 4 => w = 3) /\ (cmd = 5 => w = 4)
  BY <1>4, Words
<1>6. code'[0] = "sev" /\ FifoWr(0, w, "sev")
  BY <1>1, <1>2, <1>4, FifoWrTypes DEF Code
<1>7. CASE HandshakeStep(w) /\ seq = 5 /\ Accepts(w) /\ Launch(w)
  <2>1. cmd = 5 /\ KeptArgs /\ w = Args[3]
    <3>1. w # 0
      BY <1>7 DEF Accepts
    <3> QED BY <1>3, <1>5, <1>7, <3>1, Words DEF Asking
  <2>2. launched' = <<vtor, sp, w>> /\ vtor = 2 /\ sp = 3 /\ w = 4
    BY <1>7, <2>1, Words DEF Launch, KeptArgs
  <2>3. fifo'[0] = <<w>>
    <3>1. fifo'[0] = Append(fifo[0], w)
      BY <1>1, <1>3, <1>7, One DEF Launch, Room, FifoTypes
    <3> QED BY <1>3, <3>1, One
  <2>4. fresh' = TRUE
    BY <1>7 DEF Launch
  <2>5. launched' = Args
    BY <2>2 DEF Args
  <2> QED BY <1>2, <1>6, <2>1, <2>3, <2>4, <2>5, One DEF Loop, Started
<1>8. ASSUME HandshakeStep(w), ~(seq = 5 /\ Accepts(w)),
             PushTo(0, IF Accepts(w) THEN w ELSE 0), seq' = NextSeq(w),
             vtor' = (IF seq = 3 /\ Accepts(w) THEN w ELSE vtor),
             sp' = (IF seq = 4 /\ Accepts(w) THEN w ELSE sp),
             UNCHANGED <<armed, halted, launched, fresh>>
      PROVE  Loop'
  <2>1. fifo'[0] = <<IF Accepts(w) THEN w ELSE 0>>
    <3> DEFINE v == IF Accepts(w) THEN w ELSE 0
    <3>1. v \in Word /\ PushTo(0, v) /\ Room(0)
      BY <1>1, <1>3, <1>8, One DEF Room
    <3>2. fifo'[0] = Append(fifo[0], v)
      BY <1>1, <3>1, Pushed DEF DataTypes
    <3> QED BY <1>3, <3>1, <3>2, One
  <2>2. CASE cmd \in {0, 1}
    <3>1. w = 0 /\ fifo'[0] = <<0>>
      BY <1>5, <2>1, <2>2
    <3>2. seq' <= 2
      BY <1>1, <1>8, <2>2, <3>1 DEF NextSeq, Accepts, DataTypes
    <3>3. Answered'
      BY <1>2, <2>2, <3>1, <3>2 DEF Answered
    <3> QED BY <1>3, <1>6, <1>8, <3>3 DEF Loop, Waiting
  <2>3. CASE cmd = 2 /\ seq # 2
    <3>1. w = 1 /\ seq \in {0, 1}
      BY <1>1, <1>3, <1>5, <2>3 DEF Asking, DataTypes
    <3>2. ~Accepts(w)
      BY <3>1 DEF Accepts
    <3>3. fifo'[0] = <<0>> /\ seq' = 0
      BY <1>8, <2>1, <3>2 DEF NextSeq
    <3>4. Answered'
      BY <1>2, <2>3, <3>3 DEF Answered
    <3> QED BY <1>3, <1>6, <1>8, <3>4 DEF Loop, Waiting
  <2>4. CASE seq = cmd /\ cmd \in {2, 3, 4}
    <3>1. Accepts(w)
      BY <1>5, <2>4 DEF Accepts
    <3>2. fifo'[0] = <<w>> /\ seq' = seq + 1
      BY <1>8, <2>1, <3>1 DEF NextSeq
    <3>3. KeptArgs'
      BY <1>3, <1>5, <1>8, <2>4, <3>1, <3>2, Words DEF KeptArgs, Asking
    <3>4. Answered'
      <4>1. cmd' \in 2 .. 4 /\ seq' = cmd' + 1
        BY <1>2, <2>4, <3>2
      <4>2. fifo'[0] = <<Commands[cmd' + 1]>>
        BY <1>2, <1>4, <3>2
      <4> QED BY <3>3, <4>1, <4>2 DEF Answered
    <3> QED BY <1>3, <1>6, <1>8, <3>4 DEF Loop, Waiting
  <2>5. CASE cmd = 5
    <3>1. seq = 5 /\ w = 4
      BY <1>3, <1>5, <2>5 DEF Asking
    <3> QED BY <1>8, <3>1 DEF Accepts
  <2>6. cmd \in {3, 4} => seq = cmd
    BY <1>3 DEF Asking
  <2> QED BY <1>3, <2>2, <2>3, <2>4, <2>5, <2>6
<1> QED
  <2>1. \/ HandshakeStep(w) /\ seq = 5 /\ Accepts(w) /\ Launch(w)
        \/ /\ HandshakeStep(w) /\ ~(seq = 5 /\ Accepts(w))
           /\ PushTo(0, IF Accepts(w) THEN w ELSE 0) /\ seq' = NextSeq(w)
           /\ vtor' = (IF seq = 3 /\ Accepts(w) THEN w ELSE vtor)
           /\ sp' = (IF seq = 4 /\ Accepts(w) THEN w ELSE sp)
           /\ UNCHANGED <<armed, halted, launched, fresh>>
    BY <1>1, <1>3, <1>6, FifoWrites DEF Code
  <2> QED BY <1>7, <1>8, <2>1

\* The echo takes the loop to its next command, or back to its first.
LEMMA LoopPop ==
    ASSUME Types, Loop, PopWord(0), cmd # NotLaunching
    PROVE  /\ Loop'
           /\ cmd' = NotLaunching => fresh /\ launched = Args
<1>1. /\ DataTypes /\ FifoTypes /\ CodeTypes /\ 0 \in Core
  BY TypesParts DEF Core
<1>2. /\ code[0] = "pop" /\ fifo'[0] = Tail(fifo[0])
      /\ cmd' = IF Head(fifo[0]) = Commands[cmd + 1] THEN cmd + 1 ELSE 0
      /\ code'[0] = IF cmd' = NotLaunching THEN "app"
                    ELSE IF Commands[cmd' + 1] = 0 THEN "drain" ELSE "push"
      /\ UNCHANGED <<halted, armed, seq, vtor, sp, launched, fresh>>
  BY <1>1 DEF PopWord, Becomes, Launching, FifoTypes, CodeTypes, handshake, launch
<1>3. CASE Started
  BY <1>2, <1>3, Words DEF Started, Loop, NotLaunching
<1>4. CASE Waiting /\ Answered
  <2>1. CASE cmd \in {0, 1} /\ seq <= 2 /\ fifo[0] = <<0>>
    <3>1. cmd' = cmd + 1 /\ fifo'[0] = <<>>
      BY <1>2, <2>1, Words, One DEF Word
    <3>2. code'[0] = IF cmd' = 1 THEN "drain" ELSE "push"
      BY <1>2, <2>1, <3>1, Words DEF NotLaunching
    <3>3. Asking' /\ cmd' \in {1, 2}
      BY <1>2, <2>1, <3>1 DEF Asking
    <3> QED BY <1>2, <1>4, <3>1, <3>2, <3>3 DEF Loop, Waiting, NotLaunching
  <2>2. CASE cmd = 2 /\ seq = 0 /\ fifo[0] = <<0>>
    <3>1. cmd' = 0
      BY <1>2, <2>2, Words, One DEF Word
    <3>2. code'[0] = "drain" /\ Asking'
      BY <1>2, <3>1, Words DEF NotLaunching, Asking
    <3> QED BY <1>2, <1>4, <3>1, <3>2 DEF Loop, Waiting, NotLaunching
  <2>3. CASE cmd \in 2 .. 4 /\ seq = cmd + 1 /\ KeptArgs /\ fifo[0] = <<Commands[cmd + 1]>>
    <3>1. cmd' = cmd + 1 /\ fifo'[0] = <<>>
      <4>1. PICK w \in Word : w = Commands[cmd + 1]
        BY <2>3, Words
      <4> QED BY <1>2, <2>3, <4>1, One
    <3>2. code'[0] = "push" /\ cmd' \in 3 .. 5
      BY <1>2, <2>3, <3>1, Words DEF NotLaunching
    <3>3. Asking'
      BY <1>2, <2>3, <3>1, <3>2 DEF Asking, KeptArgs
    <3> QED BY <1>2, <1>4, <3>1, <3>2, <3>3 DEF Loop, Waiting, NotLaunching
  <2> QED BY <1>4, <2>1, <2>2, <2>3 DEF Answered
<1> QED BY <1>2, <1>3, <1>4 DEF Loop, Waiting

LEMMA LoopStep ==
    ASSUME Types, LoopInv, 1 \notin IrqUsers, [Next]_vars
    PROVE  LoopInv'
<1> USE DEF handshake, launch, bounds
<1>1. /\ DataTypes /\ FifoTypes /\ CodeTypes /\ 0 \in Core /\ 1 \in Core /\ ~irq[1] /\ Loop
  BY TypesParts DEF Core, LoopInv
<1>2. ~irq'[1]
  BY <1>1, IrqStep
<1>3. SUFFICES Loop'
  BY <1>2 DEF LoopInv
<1>4. CASE Reset
  BY <1>4, LoopOutside DEF Reset
<1>5. ASSUME Steps(1), UNCHANGED <<cmd, launched, fresh, armed, seq, vtor, sp>>, code'[0] = code[0],
             fifo'[0] = fifo[0] \/ \E w \in Word : fifo'[0] = Append(fifo[0], w)
      PROVE  Loop'
  <2>1. ~Waiting
    BY <1>5 DEF Steps, CanRun, Waiting
  <2>2. fifo[0] # <<>> => fifo'[0] # <<>> /\ Head(fifo'[0]) = Head(fifo[0])
    <3>1. fifo[0] \in Seq(Word)
      BY <1>1 DEF FifoTypes
    <3> QED BY <1>5, <3>1, HeadAppended
  <2> QED BY <1>1, <1>5, <2>1, <2>2 DEF Loop, Started
<1>6. ASSUME NEW c \in Core, Skip(c) \/ TakeIrq(c) \/ AppOther(c) \/ HaltCore1 \/ PushWait
      PROVE  Loop'
  <2>1. /\ UNCHANGED <<cmd, launched, fresh, seq, vtor, sp, code, fifo>>
        /\ halted[1] => halted'[1]
        /\ armed' = armed \/ HaltCore1
    BY <1>1, <1>6 DEF Skip, TakeIrq, AppOther, HaltCore1, PushWait, DataTypes
  <2> QED BY <1>1, <2>1 DEF Loop, Started, Waiting, Asking, Answered, KeptArgs, HaltCore1
<1>7. ASSUME NEW c \in Core, AppWr(c) PROVE Loop'
  <2>1. PICK w \in Word : FifoWr(c, w, "app")
    BY <1>7, LaunchAssumption DEF AppWr
  <2>2. Steps(c) /\ code[c] = "app" /\ UNCHANGED cmd
    BY <1>7 DEF AppWr, App
  <2>3. CASE c = 0
    BY <1>1, <2>2, <2>3, LoopOutside DEF CodeTypes
  <2>4. CASE c = 1
    <3>1. PushTo(0, w) /\ UNCHANGED <<handshake, halted, launch>> /\ code' = [code EXCEPT ![1] = "app"]
      BY <2>1, <2>4 DEF FifoWr, Other, Becomes
    <3>2. fifo'[0] = fifo[0] \/ fifo'[0] = Append(fifo[0], w)
      BY <1>1, <3>1, Pushed DEF DataTypes
    <3>3. code'[0] = code[0]
      BY <1>1, <3>1 DEF CodeTypes
    <3> QED BY <1>5, <2>2, <2>4, <3>1, <3>2, <3>3
  <2> QED BY <2>3, <2>4 DEF Core
<1>8. ASSUME NEW c \in Core, Start(c) \/ AppRd(c) \/ AppWfe(c) \/ AppWfi(c) \/ PopCall(c)
      PROVE  Loop'
  <2>1. /\ Steps(c) /\ code[c] \in {"start", "app"}
        /\ UNCHANGED <<cmd, launched, fresh, armed, seq, vtor, sp>>
    BY <1>8 DEF Start, AppRd, AppWfe, AppWfi, PopCall, App
  <2>2. CASE c = 0
    BY <1>1, <2>1, <2>2, LoopOutside DEF CodeTypes
  <2>3. CASE c = 1
    <3>1. code'[0] = code[0] /\ fifo'[0] = fifo[0]
      BY <1>1, <1>8, <2>3 DEF Start, AppRd, AppWfe, AppWfi, PopCall, Becomes, CodeTypes, FifoTypes
    <3> QED BY <1>5, <2>1, <2>3, <3>1
  <2> QED BY <2>2, <2>3 DEF Core
<1>9. ASSUME NEW c \in Core, PopNoWord(c) \/ PopWfe(c) PROVE Loop'
  <2>1. /\ Steps(c) /\ UNCHANGED <<cmd, launched, fresh, armed, seq, vtor, sp, halted, fifo>>
        /\ code[c] \in {"pop", "pop_wfe"}
        /\ \E next \in {"pop", "pop_wfe"} : code' = [code EXCEPT ![c] = next]
    BY <1>9 DEF PopNoWord, PopWfe, Becomes
  <2>2. CASE c = 0
    <3>1. code'[0] \in {"pop", "pop_wfe"}
      BY <1>1, <2>1, <2>2 DEF CodeTypes
    <3> QED BY <1>1, <2>1, <2>2, <3>1
            DEF Loop, Started, Waiting, Asking, Answered, KeptArgs
  <2>3. CASE c = 1
    <3>1. code'[0] = code[0]
      BY <1>1, <2>1, <2>3 DEF CodeTypes
    <3> QED BY <1>5, <2>1, <2>3, <3>1
  <2> QED BY <2>2, <2>3 DEF Core
<1>10. ASSUME NEW c \in Core, PopWord(c) PROVE Loop'
  <2>1. CASE c = 0 /\ cmd # NotLaunching
    BY <1>1, <1>10, <2>1, LoopPop
  <2>2. CASE c = 0 /\ cmd = NotLaunching
    BY <1>10, <2>2, LoopOutside DEF PopWord, Launching
  <2>3. CASE c = 1
    <3>1. /\ Steps(1) /\ UNCHANGED <<cmd, launched, fresh, armed, seq, vtor, sp>>
          /\ code'[0] = code[0] /\ fifo'[0] = fifo[0]
      BY <1>1, <1>10, <2>3 DEF PopWord, Launching, Becomes, CodeTypes, FifoTypes
    <3> QED BY <1>5, <3>1
  <2> QED BY <2>1, <2>2, <2>3 DEF Core
<1>11. CASE LaunchCall
  <2>1. /\ cmd' = 0 /\ code'[0] = "drain" /\ armed' /\ halted'[1]
    BY <1>1, <1>11 DEF LaunchCall, Becomes, CodeTypes
  <2> QED BY <2>1 DEF Loop, Waiting, Asking
<1>12. CASE DrainWord \/ DrainDone
  <2>1. /\ UNCHANGED <<cmd, launched, fresh, armed, seq, vtor, sp, halted>>
        /\ code[0] = "drain" /\ code'[0] = IF fifo[0] = <<>> THEN "push" ELSE "drain"
        /\ fifo[0] = <<>> => fifo'[0] = <<>>
    BY <1>1, <1>12 DEF DrainWord, DrainDone, Becomes, CodeTypes
  <2> QED BY <1>1, <2>1 DEF Loop, Started, Waiting, Asking, Answered, KeptArgs
<1>13. CASE PushWord
  BY <1>1, <1>13, LoopPush
<1>14. CASE PushSev
  <2>1. /\ UNCHANGED <<cmd, launched, fresh, armed, seq, vtor, sp, halted, fifo>>
        /\ code[0] = "sev" /\ code'[0] = "pop"
    BY <1>1, <1>14 DEF PushSev, Becomes, CodeTypes
  <2> QED BY <1>1, <2>1 DEF Loop, Started, Waiting, Asking, Answered, KeptArgs
<1>15. CASE TailOfStep
  <2>1. PICK raised \in BOOLEAN : WakeChecks(raised)
    BY <1>15 DEF TailOfStep
  <2>2. halted'[1] = halted[1]
    BY <1>1, <2>1 DEF WakeChecks, DataTypes
  <2> QED BY <1>1, <1>15, <2>2, LoopKept DEF TailOfStep
<1>16. CASE UNCHANGED vars
  BY <1>1, <1>16, LoopKept DEF vars
<1> QED BY <1>1, <1>4, <1>6, <1>7, <1>8, <1>9, <1>10, <1>11, <1>12, <1>13, <1>14, <1>15, <1>16
        DEF Next, Emulate, Firmware, LaunchLoop

\* Where the loop ends, other than by a reset.
LEMMA LoopEnds ==
    ASSUME Types, Loop, host_calls \in Nat, [Next]_vars,
           cmd # NotLaunching, cmd' = NotLaunching, host_calls' = host_calls
    PROVE  fresh /\ launched = Args
<1> USE DEF handshake, launch, bounds
<1>1. ~Reset
  BY DEF Reset
<1>2. ASSUME NEW c \in Core, PopWord(c)
      PROVE  c = 0
  BY <1>2 DEF PopWord, Launching
<1>3. ASSUME NEW c \in Core,
             Skip(c) \/ TakeIrq(c) \/ Start(c) \/ AppWr(c) \/ AppRd(c) \/ AppWfe(c) \/ AppWfi(c)
             \/ AppOther(c) \/ PopCall(c) \/ PopNoWord(c) \/ PopWfe(c)
      PROVE  UNCHANGED cmd
  BY <1>3 DEF Skip, TakeIrq, Start, AppWr, AppRd, AppWfe, AppWfi, AppOther, PopCall, PopNoWord, PopWfe
<1>4. ~LaunchCall
  BY DEF LaunchCall, NotLaunching
<1>5. HaltCore1 \/ LaunchLoop \/ TailOfStep \/ UNCHANGED vars => UNCHANGED cmd
  BY DEF HaltCore1, LaunchLoop, DrainWord, DrainDone, PushWait, PushWord, PushSev, TailOfStep, vars
<1>6. PopWord(0)
  BY <1>1, <1>2, <1>3, <1>4, <1>5 DEF Next, Emulate, Firmware
<1> QED BY <1>6, LoopPop

LEMMA HostStep == host_calls \in Nat /\ [Next]_vars => host_calls' \in Nat
<1> USE DEF handshake, launch, bounds
<1>1. Reset \/ HaltCore1 => host_calls' = host_calls + 1
  BY DEF Reset, HaltCore1
<1>2. ASSUME NEW c \in Core,
             Skip(c) \/ TakeIrq(c) \/ Firmware(c)
      PROVE  UNCHANGED host_calls
  BY <1>2 DEF Firmware, Skip, TakeIrq, Start, AppWr, AppRd, AppWfe, AppWfi, AppOther, PopCall,
              PopNoWord, PopWfe, PopWord
<1>3. LaunchCall \/ LaunchLoop \/ TailOfStep \/ UNCHANGED vars => UNCHANGED host_calls
  BY DEF LaunchCall, LaunchLoop, DrainWord, DrainDone, PushWait, PushWord, PushSev, TailOfStep, vars
<1> QED BY <1>1, <1>2, <1>3 DEF Next, Emulate

-----------------------------------------------------------------------------
(* The theorems.                                                           *)

LaunchInv == Types /\ AttemptInv /\ WakeInv /\ host_calls \in Nat

LEMMA InitInv == Init => LaunchInv /\ LoopInv
<1> SUFFICES ASSUME Init PROVE LaunchInv /\ LoopInv
  OBVIOUS
<1>1. DataTypes
  <2>1. /\ halted \in [Core -> BOOLEAN] /\ wfe_waiting \in [Core -> BOOLEAN]
        /\ event_flag \in [Core -> BOOLEAN] /\ irq \in [Core -> BOOLEAN]
    BY DEF Init
  <2>2. /\ seq \in 0 .. 5 /\ vtor \in Word /\ sp \in Word /\ cmd \in 0 .. NotLaunching
        /\ left \in 0 .. StepQuantum
    BY LaunchAssumption DEF Init, Word, NotLaunching
  <2>3. /\ pc \in {"core0", "core1", "tail"} /\ ran \in BOOLEAN /\ armed \in BOOLEAN
        /\ fresh \in BOOLEAN
    BY DEF Init
  <2> QED BY <2>1, <2>2, <2>3 DEF DataTypes
<1>2. FifoTypes
  BY EmptySeq, LaunchAssumption DEF Init, FifoTypes
<1>3. CodeTypes
  BY DEF Init, CodeTypes, Code, Core
<1>4. AttemptInv
  BY EmptySeq DEF Init, AttemptInv
<1>5. WakeInv
  BY DEF Init, WakeInv, Wake
<1>6. LoopInv
  BY DEF Init, LoopInv, Loop, Core
<1>7. host_calls \in Nat
  BY DEF Init
<1> QED BY <1>1, <1>2, <1>3, <1>4, <1>5, <1>6, <1>7, TypesParts DEF LaunchInv

\* The FSM's state is the words core 0 wrote last, and the blocking pop's
\* event is kept, whatever the firmware and the host do.
THEOREM Invariance == Spec => []LaunchInv
<1>1. Init => LaunchInv
  BY InitInv
<1>2. LaunchInv /\ [Next]_vars => LaunchInv'
  BY TypeStep, AttemptStep, WakeStep, HostStep DEF LaunchInv
<1> QED BY <1>1, <1>2, PTL DEF Spec

\* The emulator's state has its types, and the FIFOs of any depth their
\* capacity.
THEOREM TypeCorrect == Spec => []TypeOK
<1>1. LaunchInv => TypeOK
  BY DEF LaunchInv, Types
<1> QED BY <1>1, Invariance, PTL

\* A core parked in multicore_fifo_pop_blocking with a word in its FIFO has an
\* event waiting for it.
THEOREM NoWordSlipsIn == Spec => []WordWakes
<1>1. LaunchInv => WordWakes
  BY DEF LaunchInv, WakeInv, Wake, WordWakes
<1> QED BY <1>1, Invariance, PTL

\* Core 1 is only ever launched by the protocol's six words, written one after
\* the other while the FSM stayed armed, and with the values they carried.
THEOREM OneAttemptLaunches == Spec => LaunchIsOneAttempt
<1>1. ASSUME LaunchInv, [Next]_vars, Launches
      PROVE  attempt' = <<0, 0, 1>> \o launched'
  <2>1. /\ Types /\ AttemptInv /\ seq \in 0 .. 5 /\ vtor \in Word /\ sp \in Word
    BY <1>1 DEF LaunchInv, Types, TypeOK
  <2>2. PICK w \in Word : HandshakeStep(w)
    BY <1>1, <2>1, FsmSteps DEF Launches, Reset, HaltCore1
  <2>3. seq = 5 /\ Accepts(w) /\ launched' = <<vtor, sp, w>>
    BY <1>1, <2>2 DEF HandshakeStep, Launch, Launches
  <2>4. /\ Len(attempt') = 6 /\ attempt' \in Seq(Word) /\ attempt'[6] = w
        /\ \A i \in 1 .. 5 : attempt'[i] = Taken[i]
    <3>1. /\ Len(attempt') \in 5 + 1 .. 6 /\ attempt' \in Seq(Word)
          /\ \A i \in 1 .. 5 : attempt'[Len(attempt') - (5 + 1) + i] = Taken[i]
          /\ attempt'[Len(attempt')] = w
      BY <2>1, <2>2, <2>3, WordTaken
    <3>2. Len(attempt') = 6
      BY <3>1
    <3>3. \A i \in 1 .. 5 : 6 - (5 + 1) + i = i
      OBVIOUS
    <3> QED BY <3>1, <3>2, <3>3
  <2> DEFINE zeros == <<0, 0, 1>>
             three == <<vtor, sp, w>>
  <2>5. /\ zeros \in Seq(Word) /\ Len(zeros) = 3 /\ three \in Seq(Word) /\ Len(three) = 3
        /\ zeros[1] = 0 /\ zeros[2] = 0 /\ zeros[3] = 1
        /\ three[1] = vtor /\ three[2] = sp /\ three[3] = w
    BY <2>1 DEF Word
  <2>6. /\ Taken[1] = 0 /\ Taken[2] = 0 /\ Taken[3] = 1 /\ Taken[4] = vtor /\ Taken[5] = sp
    BY DEF Taken
  <2> HIDE DEF zeros, three
  <2>7. /\ zeros \o three \in Seq(Word) /\ Len(zeros \o three) = 6
        /\ \A i \in 1 .. 6 : (zeros \o three)[i] = IF i <= 3 THEN zeros[i] ELSE three[i - 3]
    <3>1. /\ zeros \o three \in Seq(Word) /\ Len(zeros \o three) = Len(zeros) + Len(three)
          /\ \A i \in 1 .. Len(zeros) + Len(three) :
                (zeros \o three)[i] = IF i <= Len(zeros) THEN zeros[i] ELSE three[i - Len(zeros)]
      BY <2>5, ConcatProperties
    <3> QED BY <2>5, <3>1
  <2>8. \A i \in 1 .. 6 : attempt'[i] = (zeros \o three)[i]
    <3>1. \A i \in 1 .. 6 : i \in {1, 2, 3, 4, 5, 6}
      OBVIOUS
    <3> QED BY <2>4, <2>5, <2>6, <2>7, <3>1
  <2>9. attempt' = zeros \o three
    BY <2>4, <2>7, <2>8, SeqEqual
  <2> QED BY <2>3, <2>9 DEF zeros, three
<1>2. LaunchInv /\ [Next]_vars => [Launches => attempt' = <<0, 0, 1>> \o launched']_vars
  BY <1>1
<1> QED BY <1>2, Invariance, PTL DEF Spec, LaunchIsOneAttempt

\* When multicore_launch_core1_raw returns, core 1 was launched during this
\* call and with this call's arguments, wherever an earlier attempt left the
\* FSM: as long as core 1's firmware leaves its interrupt line disabled.
THEOREM LaunchReturnsItsArgs ==
    ASSUME 1 \notin IrqUsers
    PROVE  Spec => LaunchAgreement
<1>1. Init => LaunchInv /\ LoopInv
  BY InitInv
<1>2. LaunchInv /\ LoopInv /\ [Next]_vars => (LaunchInv /\ LoopInv)'
  BY TypeStep, AttemptStep, WakeStep, HostStep, LoopStep DEF LaunchInv
<1>3. LaunchInv /\ LoopInv /\ [Next]_vars
      => [cmd # NotLaunching /\ cmd' = NotLaunching /\ host_calls' = host_calls
          => fresh /\ launched = Args]_vars
  BY LoopEnds DEF LaunchInv, LoopInv
<1> QED BY <1>1, <1>2, <1>3, PTL DEF Spec, LaunchAgreement
===============================================================================
