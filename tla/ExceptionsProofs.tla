-------------------------- MODULE ExceptionsProofs --------------------------
(***************************************************************************)
(* Proofs about Exceptions for any set of interrupts, priorities, vector   *)
(* tables and bounds.  The argument is about the order of the modes on the *)
(* stack: Thread below PendSV, SysTick and the interrupts, these below     *)
(* SVCall, and HardFault on top.  A frame that a bad vector left repeats   *)
(* the mode below it; every other one goes up.                             *)
(***************************************************************************)
EXTENDS Exceptions, SequenceTheorems, WellFoundedInduction, TLAPS

Rank(m) == IF m = Thread THEN 0
           ELSE IF m = SVCall THEN 2 ELSE IF m = HardFault THEN 3 ELSE 1

From(fs) == {fs[i].from : i \in 1 .. Len(fs)}

\* The modes on the stack, with b for the exceptions without a vector.
Rising(fs, b) ==
    \A i \in 1 .. Len(fs) : \A j \in 1 .. i :
        /\ Rank(fs[j].from) =< Rank(fs[i].from)
        /\ fs[i].to \notin b => Rank(fs[j].from) < Rank(fs[i].to)

Outermost(fs) == \A i \in 1 .. Len(fs) : fs[i].to \in Async => fs[i].from = Thread

Based(fs, m) == IF fs = <<>> THEN m = Thread ELSE fs[1].from = Thread

Nest(s, b) ==
    /\ s \in State
    /\ s.active = ({s.ipsr} \cup From(s.frames)) \ {Thread}
    /\ s.ipsr \notin b
    /\ \A m \in From(s.frames) : m \notin b /\ Rank(m) =< Rank(s.ipsr)
    /\ Rising(s.frames, b)
    /\ Outermost(s.frames)
    /\ Based(s.frames, s.ipsr)

ExceptionsInv == TypeOK /\ Nest(cpu, bad) /\ cpu.pending_fault # "Svc"

-----------------------------------------------------------------------------
(* Sets of natural numbers have a least element, however large they are.   *)

\* From the well-foundedness of < on the natural numbers.
LEMMA LeastNatural ==
    ASSUME NEW S \in SUBSET Nat, S # {}
    PROVE  \E x \in S : \A y \in S : x =< y
<1> DEFINE R == OpToRel(<, Nat)
<1>1. PICK x \in S : \A y \in S : ~(<<y, x>> \in R)
  BY NatLessThanWellFounded, WFMin, S # {}
<1>2. \A y \in Nat : y < x => <<y, x>> \in R
  BY DEF OpToRel
<1>3. \A y \in S : ~(y < x)
  BY <1>1, <1>2
<1> QED BY <1>3

-----------------------------------------------------------------------------
(* Modes.                                                                  *)

LEMMA Modes ==
    /\ Thread \in Mode /\ Exception \subseteq Mode /\ Thread \notin Exception
    /\ HardFault \in Exception /\ SVCall \in Exception /\ HardFault # SVCall
    /\ Async \subseteq Exception /\ HardFault \notin Async /\ SVCall \notin Async
    /\ \A m \in Mode : Rank(m) \in Nat
  BY ExceptionsAssumption
  DEF Mode, Exception, Async, System, Thread, HardFault, SVCall, Rank

LEMMA Ranks ==
    /\ Rank(Thread) = 0 /\ Rank(SVCall) = 2 /\ Rank(HardFault) = 3
    /\ \A e \in Async : Rank(e) = 1
    /\ \A m \in SvcFrom : Rank(m) =< 1
    /\ \A m \in Mode \ {HardFault} : Rank(m) < 3
  BY ExceptionsAssumption, SvcAssumption
  DEF Mode, Exception, Async, System, Thread, HardFault, SVCall, Rank

-----------------------------------------------------------------------------
(* The stack.                                                              *)

\* A frame is pushed for e from mode m.
LEMMA PushStack ==
    ASSUME NEW fs \in Seq(Frame), NEW m \in Mode, NEW e \in Exception, NEW b,
           \A l \in From(fs) : Rank(l) =< Rank(m),
           Rising(fs, b), Outermost(fs), Based(fs, m),
           e \notin b => Rank(m) < Rank(e),
           e \in Async => m = Thread
    PROVE  LET gs == Append(fs, [from |-> m, to |-> e])
           IN  /\ gs \in Seq(Frame) /\ gs # <<>>
               /\ From(gs) = From(fs) \cup {m}
               /\ Rising(gs, b) /\ Outermost(gs) /\ gs[1].from = Thread
<1> DEFINE f  == [from |-> m, to |-> e]
           gs == Append(fs, f)
<1>1. f \in Frame /\ f.from = m /\ f.to = e
  BY DEF Frame
<1> HIDE DEF f
<1>2. /\ gs \in Seq(Frame) /\ gs # <<>> /\ Len(gs) = Len(fs) + 1
      /\ \A i \in 1 .. Len(fs) : gs[i] = fs[i]
      /\ gs[Len(fs) + 1] = f
  BY <1>1, AppendProperties
<1>3. Len(fs) \in Nat /\ \A i \in 1 .. Len(fs) : fs[i] \in Frame
  BY LenProperties, ElementOfSeq
<1> HIDE DEF gs
<1>4. From(gs) = From(fs) \cup {m}
  BY <1>1, <1>2, <1>3 DEF From
<1>5. \A i \in 1 .. Len(gs) : Rank(gs[i].from) =< Rank(m)
  BY <1>1, <1>2, <1>3, Modes DEF From
<1>6. Rising(gs, b)
  <2> SUFFICES ASSUME NEW i \in 1 .. Len(gs), NEW j \in 1 .. i
               PROVE  /\ Rank(gs[j].from) =< Rank(gs[i].from)
                      /\ gs[i].to \notin b => Rank(gs[j].from) < Rank(gs[i].to)
    BY DEF Rising
  <2>1. CASE i =< Len(fs)
    BY <1>2, <1>3, <2>1 DEF Rising
  <2>2. CASE i = Len(fs) + 1
    <3>1. gs[i].from = m /\ gs[i].to = e /\ Rank(gs[j].from) =< Rank(m)
      BY <1>1, <1>2, <1>3, <1>5, <2>2
    <3>2. gs[j].from \in Mode
      <4>1. gs[j] \in Frame
        BY <1>2, <1>3, ElementOfSeq
      <4> QED BY <4>1 DEF Frame
    <3> QED BY <3>1, <3>2, Modes
  <2> QED BY <1>2, <1>3, <2>1, <2>2
<1>7. Outermost(gs)
  BY <1>1, <1>2, <1>3 DEF Outermost
<1>8. gs[1].from = Thread
  <2>1. CASE fs = <<>>
    BY <1>1, <1>2, <2>1 DEF Based
  <2>2. CASE fs # <<>>
    BY <1>2, <1>3, <2>2, EmptySeq DEF Based
  <2> QED BY <2>1, <2>2
<1> QED BY <1>2, <1>4, <1>6, <1>7, <1>8 DEF gs, f

LEMMA FrontOf ==
    ASSUME NEW S, NEW s \in Seq(S), s # <<>>
    PROVE  /\ Front(s) \in Seq(S) /\ Len(Front(s)) = Len(s) - 1
           /\ \A i \in 1 .. Len(s) - 1 : Front(s)[i] = s[i]
<1>1. PICK k \in Nat : Len(s) = k + 1
  BY EmptySeq
<1>2. \A i \in 1 .. k : s[i] \in S
  BY <1>1, ElementOfSeq
<1>3. Front(s) = SubSeq(s, 1, k)
  BY <1>1 DEF Front
<1>4. k - 1 + 1 = k /\ (1 =< k \/ k = 0) /\ \A i \in 1 .. k : 1 + i - 1 = i
  OBVIOUS
<1>5. /\ SubSeq(s, 1, k) \in Seq(S)
      /\ Len(SubSeq(s, 1, k)) = IF 1 =< k THEN k - 1 + 1 ELSE 0
      /\ \A i \in 1 .. k - 1 + 1 : SubSeq(s, 1, k)[i] = s[1 + i - 1]
  BY <1>2, SubSeqProperties
<1>6. Len(SubSeq(s, 1, k)) = k
  BY <1>4, <1>5
<1>7. \A i \in 1 .. k : SubSeq(s, 1, k)[i] = s[i]
  BY <1>4, <1>5
<1> QED BY <1>1, <1>3, <1>5, <1>6, <1>7

\* The top frame is popped: nothing below it is what it was pushed for.
LEMMA PopStack ==
    ASSUME NEW fs \in Seq(Frame), fs # <<>>, NEW b,
           Rising(fs, b), Outermost(fs), fs[1].from = Thread,
           Last(fs).to \notin b
    PROVE  LET gs == Front(fs)
               m  == Last(fs).from
           IN  /\ gs \in Seq(Frame) /\ m \in Mode
               /\ From(fs) = From(gs) \cup {m}
               /\ Last(fs).to \notin From(fs)
               /\ \A l \in From(gs) : Rank(l) =< Rank(m)
               /\ Rising(gs, b) /\ Outermost(gs) /\ Based(gs, m)
<1> DEFINE gs == Front(fs)
           n  == Len(fs)
           m  == Last(fs).from
<1>1. n \in Nat \ {0} /\ \A i \in 1 .. n : fs[i] \in Frame
  BY EmptySeq, ElementOfSeq
<1>2. /\ gs \in Seq(Frame) /\ Len(gs) = n - 1
      /\ \A i \in 1 .. n - 1 : gs[i] = fs[i]
  BY FrontOf
<1>3. Last(fs) = fs[n] /\ m \in Mode
  BY <1>1 DEF Last, Frame
<1> HIDE DEF gs, n
<1>4. From(fs) = From(gs) \cup {m}
  BY <1>1, <1>2, <1>3 DEF From, n
<1>5. \A j \in 1 .. n : /\ Rank(fs[j].from) =< Rank(m)
                        /\ Rank(fs[j].from) < Rank(Last(fs).to)
  BY <1>1, <1>3 DEF Rising, n
<1>6. Last(fs).to \notin From(fs)
  <2> SUFFICES ASSUME NEW j \in 1 .. n, Last(fs).to = fs[j].from PROVE FALSE
    BY DEF From, n
  <2>1. fs[j].from \in Mode
    BY <1>1 DEF Frame
  <2>2. Rank(fs[j].from) \in Nat
    BY <2>1, Modes
  <2> QED BY <1>5, <2>2
<1>7. \A l \in From(gs) : Rank(l) =< Rank(m)
  BY <1>1, <1>2, <1>5 DEF From
<1>8. Rising(gs, b) /\ Outermost(gs)
  BY <1>1, <1>2 DEF Rising, Outermost, n
<1>9. Based(gs, m)
  <2>1. CASE n = 1
    <3>1. gs = <<>>
      BY <1>2, <2>1, EmptySeq
    <3> QED BY <1>3, <2>1, <3>1 DEF Based
  <2>2. CASE n # 1
    <3>1. gs # <<>> /\ gs[1] = fs[1]
      BY <1>1, <1>2, <2>2, EmptySeq
    <3> QED BY <3>1 DEF Based
  <2> QED BY <2>1, <2>2
<1> QED BY <1>2, <1>3, <1>4, <1>6, <1>7, <1>8, <1>9 DEF gs

-----------------------------------------------------------------------------
(* Entry, return and faults.                                               *)

\* What a step changes beside the stack does not matter.
LEMMA SameNest ==
    ASSUME NEW s, NEW t \in State, NEW b, Nest(s, b),
           t.ipsr = s.ipsr, t.frames = s.frames, t.active = s.active
    PROVE  Nest(t, b)
  BY DEF Nest

LEMMA EnterNest ==
    ASSUME NEW s, Nest(s, bad), NEW e \in Exception,
           e \in Async => s.ipsr = Thread,
           e = SVCall => s.ipsr \in SvcFrom
    PROVE  /\ Nest(Enter(s, e), bad)
           /\ Enter(s, e).pending_fault \in {s.pending_fault, "HardFault"}
<1> DEFINE fs == s.frames
           m  == s.ipsr
           gs == Append(fs, [from |-> m, to |-> e])
<1>1. s \in State /\ fs \in Seq(Frame) /\ m \in Mode
  BY DEF Nest, State
<1>2. CASE e = HardFault /\ m = HardFault
  <2>1. Enter(s, e) = [s EXCEPT !.halted = TRUE]
    BY <1>2 DEF Enter
  <2>2. /\ [s EXCEPT !.halted = TRUE] \in State
        /\ [s EXCEPT !.halted = TRUE].ipsr = s.ipsr
        /\ [s EXCEPT !.halted = TRUE].frames = s.frames
        /\ [s EXCEPT !.halted = TRUE].active = s.active
        /\ [s EXCEPT !.halted = TRUE].pending_fault = s.pending_fault
    BY <1>1 DEF State
  <2> QED BY <2>1, <2>2, SameNest
<1>3. CASE ~(e = HardFault /\ m = HardFault)
  <2>1. Rank(m) < Rank(e)
    <3>1. e = HardFault \/ e = SVCall \/ e \in Async
      BY DEF Exception
    <3>2. CASE e = HardFault
      BY <1>1, <1>3, <3>2, Ranks
    <3>3. CASE e = SVCall
      <4>1. Rank(m) =< 1 /\ Rank(e) = 2 /\ Rank(m) \in Nat
        BY <1>1, <3>3, Ranks, Modes
      <4> QED BY <4>1
    <3>4. CASE e \in Async
      BY <3>4, Ranks
    <3> QED BY <3>1, <3>2, <3>3, <3>4
  <2>2. /\ gs \in Seq(Frame) /\ gs # <<>>
        /\ From(gs) = From(fs) \cup {m}
        /\ Rising(gs, bad) /\ Outermost(gs) /\ gs[1].from = Thread
    <3>1. \A l \in From(fs) : Rank(l) =< Rank(m)
      BY DEF Nest
    <3>2. Rising(fs, bad) /\ Outermost(fs) /\ Based(fs, m)
      BY DEF Nest
    <3> QED BY <1>1, <2>1, <3>1, <3>2, PushStack
  <2> DEFINE p == [s EXCEPT !.frames = gs]
  <2>3. /\ p \in State /\ p.ipsr = m /\ p.frames = gs /\ p.active = s.active
        /\ p.pending_fault = s.pending_fault
    BY <1>1, <2>2 DEF State
  <2> HIDE DEF p, gs
  <2>4. CASE e \notin bad
    <3> DEFINE t == [p EXCEPT !.ipsr = e, !.active = @ \cup {e}]
    <3>1. /\ t \in State /\ t.ipsr = e /\ t.frames = gs
          /\ t.active = s.active \cup {e} /\ t.pending_fault = s.pending_fault
      BY <2>3, Modes DEF State
    <3>2. Enter(s, e) = t
      BY <1>3, <2>4 DEF Enter, p, gs
    <3> HIDE DEF t
    <3>3. t.active = ({e} \cup From(gs)) \ {Thread}
      BY <2>2, <3>1, Modes DEF Nest
    <3>4. \A l \in From(gs) : l \notin bad /\ Rank(l) =< Rank(e)
      <4>1. \A l \in From(fs) : l \notin bad /\ Rank(l) =< Rank(m) /\ Rank(l) \in Nat
        <5>1. From(fs) \subseteq Mode
          <6> SUFFICES ASSUME NEW i \in 1 .. Len(fs) PROVE fs[i].from \in Mode
            BY DEF From
          <6>1. fs[i] \in Frame
            BY <1>1, ElementOfSeq
          <6> QED BY <6>1 DEF Frame
        <5> QED BY <5>1, Modes DEF Nest
      <4>2. m \notin bad /\ Rank(m) \in Nat /\ Rank(e) \in Nat
        BY <1>1, Modes DEF Nest
      <4> QED BY <2>1, <2>2, <4>1, <4>2
    <3> QED BY <2>2, <2>4, <3>1, <3>2, <3>3, <3>4 DEF Nest, Based
  <2>5. CASE e \in bad
    <3>1. PICK h \in BOOLEAN, q \in {s.pending_fault, "HardFault"} :
             Enter(s, e) = [p EXCEPT !.halted = h, !.pending_fault = q]
      BY <1>3, <2>3, <2>5 DEF Enter, p, gs, State
    <3> DEFINE t == [p EXCEPT !.halted = h, !.pending_fault = q]
    <3>2. /\ t \in State /\ t.ipsr = m /\ t.frames = gs
          /\ t.active = s.active /\ t.pending_fault = q
      BY <1>1, <2>3 DEF State, Fault
    <3> HIDE DEF t
    <3>3. \A l \in From(gs) : l \notin bad /\ Rank(l) =< Rank(m)
      BY <1>1, <2>2, Modes DEF Nest
    <3> QED BY <2>2, <3>1, <3>2, <3>3 DEF Nest, Based, t
  <2> QED BY <2>4, <2>5
<1> QED BY <1>2, <1>3

\* The choice of the most urgent exception is a choice among the candidates.
LEMMA HighestIn ==
    ASSUME NEW s \in State, Candidates(s) # {}
    PROVE  Highest(s) \in Async
<1> DEFINE C == Candidates(s)
           P == {Priority[e] : e \in C}
<1>1. C \subseteq Async /\ C \subseteq Nat /\ P \subseteq Nat
  <2>1. C \subseteq Async
    BY DEF Candidates, State
  <2>2. Async \subseteq Nat
    BY ExceptionsAssumption DEF Async, System
  <2>3. \A e \in Async : Priority[e] \in Nat
    BY ExceptionsAssumption
  <2> QED BY <2>1, <2>2, <2>3
<1>2. PICK x \in P : \A y \in P : x =< y
  <2> P # {}
    OBVIOUS
  <2> QED BY <1>1, LeastNatural
<1> DEFINE D == {e \in C : Priority[e] = x}
<1>3. PICK d \in D : \A y \in D : d =< y
  <2> D # {} /\ D \subseteq Nat
    BY <1>1, <1>2
  <2> QED BY LeastNatural
<1>4. \A f \in C \ {d} : Before(d, f)
  <2> SUFFICES ASSUME NEW f \in C \ {d} PROVE Before(d, f)
    OBVIOUS
  <2>1. Priority[d] = x /\ x =< Priority[f] /\ d \in Nat /\ f \in Nat
        /\ x \in Nat /\ Priority[f] \in Nat
    BY <1>1, <1>2, <1>3
  <2>2. CASE Priority[f] = x
    BY <1>3, <2>1, <2>2 DEF Before
  <2>3. CASE Priority[f] # x
    BY <2>1, <2>3 DEF Before
  <2> QED BY <2>2, <2>3
<1>5. d \in C /\ \E e \in C : \A f \in C \ {e} : Before(e, f)
  BY <1>3, <1>4
<1>6. Highest(s) \in C
  BY <1>5 DEF Highest
<1> QED BY <1>1, <1>6

\* An exception is taken in thread mode: nothing else leaves the active set
\* empty.
LEMMA TakeNest ==
    ASSUME NEW s, Nest(s, bad)
    PROVE  /\ Nest(TakeAny(s), bad)
           /\ TakeAny(s).pending_fault \in {s.pending_fault, "HardFault"}
<1>1. CASE ~CanTake(s)
  BY <1>1 DEF TakeAny
<1>2. CASE CanTake(s)
  <2> DEFINE t == [s EXCEPT !.pend = @ \ {Highest(s)}]
  <2>1. s \in State /\ Highest(s) \in Async
    BY <1>2, HighestIn DEF CanTake, Nest
  <2>2. /\ t \in State /\ t.ipsr = s.ipsr /\ t.frames = s.frames
        /\ t.active = s.active /\ t.pending_fault = s.pending_fault
    BY <2>1 DEF State
  <2>3. TakeAny(s) = Enter(t, Highest(s))
    BY <1>2 DEF TakeAny
  <2> HIDE DEF t
  <2>4. Nest(t, bad)
    BY <2>2, SameNest
  <2>5. t.ipsr = Thread
    BY <1>2, <2>2 DEF CanTake, Nest
  <2>6. Highest(s) \in Exception /\ Highest(s) # SVCall
    BY <2>1, Modes
  <2> QED BY <2>2, <2>3, <2>4, <2>5, <2>6, EnterNest
<1> QED BY <1>1, <1>2

\* The exception that returns is on the stack once, so that it is the only one
\* that leaves the active set.
LEMMA ExitNest ==
    ASSUME NEW s, Nest(s, bad), s.ipsr # Thread, Last(s.frames).to = s.ipsr
    PROVE  /\ Nest(Exit(s), bad)
           /\ Exit(s).pending_fault \in {s.pending_fault, "HardFault"}
<1> DEFINE fs == s.frames
           gs == Front(fs)
           m  == Last(fs).from
           t  == [s EXCEPT !.ipsr = m, !.frames = gs, !.active = @ \ {s.ipsr}]
<1>1. s \in State /\ fs \in Seq(Frame) /\ fs # <<>> /\ fs[1].from = Thread
  BY DEF Nest, State, Based
<1>2. Last(fs).to \notin bad /\ Rising(fs, bad) /\ Outermost(fs)
  BY DEF Nest
<1>3. /\ gs \in Seq(Frame) /\ m \in Mode
      /\ From(fs) = From(gs) \cup {m}
      /\ s.ipsr \notin From(fs)
      /\ \A l \in From(gs) : Rank(l) =< Rank(m)
      /\ Rising(gs, bad) /\ Outermost(gs) /\ Based(gs, m)
  BY <1>1, <1>2, PopStack
<1> HIDE DEF m, gs
<1>4. /\ t \in State /\ t.ipsr = m /\ t.frames = gs
      /\ t.active = s.active \ {s.ipsr} /\ t.pending_fault = s.pending_fault
  BY <1>1, <1>3 DEF State
<1>5. Exit(s) = TakeAny(t)
  <2>1. t = [s EXCEPT !.ipsr = Last(s.frames).from, !.frames = Front(@),
                      !.active = @ \ {s.ipsr}]
    BY <1>1 DEF m, gs, State
  <2> QED BY <2>1 DEF Exit
<1> HIDE DEF t
<1>6. t.active = ({m} \cup From(gs)) \ {Thread}
  <2>1. s.active = ({s.ipsr} \cup From(fs)) \ {Thread}
    BY DEF Nest
  <2> QED BY <1>3, <1>4, <2>1
<1>7. m \notin bad /\ \A l \in From(gs) : l \notin bad
  BY <1>3 DEF Nest
<1>8. Nest(t, bad)
  BY <1>3, <1>4, <1>6, <1>7 DEF Nest
<1> QED BY <1>4, <1>5, <1>8, TakeNest

LEMMA DeliverNest ==
    ASSUME NEW s, Nest(s, bad), s.pending_fault = "Svc" => s.ipsr \in SvcFrom
    PROVE  Nest(Deliver(s), bad) /\ Deliver(s).pending_fault # "Svc"
<1>1. CASE s.pending_fault = "none"
  BY <1>1 DEF Deliver
<1>2. CASE s.pending_fault # "none"
  <2> DEFINE t == [s EXCEPT !.pending_fault = "none"]
             e == IF s.pending_fault = "Svc" /\ ~primask THEN SVCall ELSE HardFault
  <2>1. s \in State
    BY DEF Nest
  <2>2. /\ t \in State /\ t.ipsr = s.ipsr /\ t.frames = s.frames
        /\ t.active = s.active /\ t.pending_fault = "none"
    BY <2>1 DEF State, Fault
  <2>3. Deliver(s) = Enter(t, e)
    BY <1>2 DEF Deliver
  <2>4. /\ e \in Exception /\ e \notin Async
        /\ e = SVCall => t.ipsr \in SvcFrom
    BY <2>2, Modes
  <2> HIDE DEF t, e
  <2>5. Nest(t, bad)
    BY <2>2, SameNest
  <2>6. Nest(Enter(t, e), bad) /\ Enter(t, e).pending_fault \in {t.pending_fault, "HardFault"}
    BY <2>4, <2>5, EnterNest
  <2> QED BY <2>2, <2>3, <2>6
<1> QED BY <1>1, <1>2

-----------------------------------------------------------------------------
(* The steps.                                                              *)

LEMMA ExecuteNest ==
    ASSUME NEW s, Nest(s, bad), s.pending_fault = "Svc" => s.ipsr \in SvcFrom,
           Execute(s)
    PROVE  /\ Nest(cpu', bad) /\ cpu'.pending_fault # "Svc"
           /\ bad' = bad /\ raises' = raises
  BY DeliverNest DEF Execute

LEMMA InitInv == Init => ExceptionsInv
<1> SUFFICES ASSUME Init PROVE ExceptionsInv
  OBVIOUS
<1>1. cpu \in State /\ cpu.frames = <<>>
  BY EmptySeq, Modes DEF Init, State, Fault
<1>2. From(cpu.frames) = {} /\ Len(cpu.frames) = 0
  BY <1>1, EmptySeq DEF From
<1>3. bad \subseteq Exception
  BY ExceptionsAssumption DEF Init
<1>4. Nest(cpu, bad)
  BY <1>1, <1>2, <1>3, Modes DEF Init, Nest, Rising, Outermost, Based
<1>5. TypeOK
  <2>1. 0 \in 0 .. MaxOps /\ 0 \in 0 .. MaxRaise
    BY ExceptionsAssumption
  <2>2. /\ bad \in Vectors /\ primask \in BOOLEAN /\ ops = 0 /\ raises = 0
        /\ enabled \subseteq Irq /\ raised \subseteq Irq
    BY DEF Init
  <2> QED BY <1>1, <2>1, <2>2 DEF TypeOK
<1> QED BY <1>4, <1>5 DEF ExceptionsInv, Init

LEMMA NextInv == ExceptionsInv /\ [Next]_vars => ExceptionsInv'
<1> SUFFICES ASSUME ExceptionsInv, [Next]_vars PROVE ExceptionsInv'
  OBVIOUS
<1> USE ExceptionsAssumption
<1>1. TypeOK /\ Nest(cpu, bad) /\ cpu \in State /\ cpu.pending_fault # "Svc"
  BY DEF ExceptionsInv, Nest
<1> DEFINE Good == Nest(cpu', bad') /\ cpu'.pending_fault # "Svc"
<1>a. ASSUME Good, bad' = bad, primask' \in BOOLEAN, enabled' \subseteq Irq,
             raised' \subseteq Irq, ops' \in 0 .. MaxOps, raises' \in 0 .. MaxRaise
      PROVE  ExceptionsInv'
  BY <1>1, <1>a DEF ExceptionsInv, TypeOK, Nest
<1>b. ASSUME NEW s, Execute(s), Nest(s, bad),
             s.pending_fault = "Svc" => s.ipsr \in SvcFrom,
             primask' \in BOOLEAN, enabled' \subseteq Irq,
             raised' \subseteq Irq, ops' \in 0 .. MaxOps
      PROVE  ExceptionsInv'
  BY <1>1, <1>a, <1>b, ExecuteNest DEF TypeOK
<1>c. Special => ops' \in 0 .. MaxOps
  BY <1>1 DEF Special, TypeOK
<1>d. ASSUME NEW t \in State, t.ipsr = cpu.ipsr, t.frames = cpu.frames,
             t.active = cpu.active
      PROVE  Nest(t, bad)
  BY <1>1, <1>d, SameNest
<1> HIDE DEF Good
<1>2. CASE Take
  <2>1. Nest(cpu', bad) /\ cpu'.pending_fault # "Svc"
    BY <1>1, <1>2, TakeNest DEF Take
  <2> QED BY <1>1, <1>2, <1>a, <2>1 DEF Take, TypeOK, Good
<1>3. CASE Other
  BY <1>1, <1>3, <1>b DEF Other, TypeOK
<1>4. CASE Return
  <2>1. Nest(Exit(cpu), bad) /\ Exit(cpu).pending_fault # "Svc"
    BY <1>1, <1>4, ExitNest DEF Return
  <2> QED BY <1>1, <1>4, <1>b, <2>1 DEF Return, TypeOK
<1>5. CASE Acknowledge
  BY <1>1, <1>5, <1>b DEF Acknowledge, TypeOK
<1>6. ASSUME NEW fault \in Fault \ {"none"}, Raise(fault) PROVE ExceptionsInv'
  <2> DEFINE t == [cpu EXCEPT !.pending_fault = fault]
  <2>1. /\ t \in State /\ t.ipsr = cpu.ipsr /\ t.frames = cpu.frames
        /\ t.active = cpu.active /\ t.pending_fault = fault
    BY <1>1 DEF State
  <2>2. Execute(t) /\ (fault = "Svc" => cpu.ipsr \in SvcFrom)
    BY <1>6 DEF Raise
  <2> HIDE DEF t
  <2>3. Nest(t, bad)
    BY <1>d, <2>1
  <2> QED BY <1>1, <1>6, <1>b, <1>c, <2>1, <2>2, <2>3 DEF Raise, TypeOK
<1>7. ASSUME NEW e \in Async, Pend(e) PROVE ExceptionsInv'
  <2> DEFINE t == [cpu EXCEPT !.pend = @ \cup {e}]
  <2>1. /\ t \in State /\ t.ipsr = cpu.ipsr /\ t.frames = cpu.frames
        /\ t.active = cpu.active /\ t.pending_fault = cpu.pending_fault
    BY <1>1 DEF State
  <2>2. Execute(t)
    BY <1>7 DEF Pend
  <2> HIDE DEF t
  <2>3. Nest(t, bad)
    BY <1>d, <2>1
  <2> QED BY <1>1, <1>7, <1>b, <1>c, <2>1, <2>2, <2>3 DEF Pend, TypeOK
<1>8. ASSUME NEW e \in Irq, NEW on \in BOOLEAN, SetEnabled(e, on)
      PROVE  ExceptionsInv'
  <2>1. enabled' \subseteq Irq
    BY <1>1, <1>8 DEF SetEnabled, TypeOK
  <2> QED BY <1>1, <1>8, <1>b, <1>c, <2>1 DEF SetEnabled, TypeOK
<1>9. CASE Mask
  BY <1>1, <1>9, <1>b, <1>c DEF Mask, TypeOK
<1>10. CASE Unmask
  BY <1>1, <1>10, <1>b DEF Unmask, TypeOK
<1>11. CASE Wfi
  <2> DEFINE t == IF cpu.pend \cap enabled = {} THEN Halt(cpu) ELSE cpu
  <2>1. /\ t \in State /\ t.ipsr = cpu.ipsr /\ t.frames = cpu.frames
        /\ t.active = cpu.active /\ t.pending_fault # "Svc"
    BY <1>1 DEF State, Fault, Halt
  <2>2. Execute(t)
    BY <1>11 DEF Wfi
  <2> HIDE DEF t
  <2>3. Nest(t, bad)
    BY <1>d, <2>1
  <2> QED BY <1>1, <1>11, <1>b, <1>c, <2>1, <2>2, <2>3 DEF Wfi, TypeOK
<1>12. ASSUME NEW e \in Irq, RaiseIrq(e) PROVE ExceptionsInv'
  BY <1>1, <1>12, <1>a DEF RaiseIrq, TypeOK, Good
<1>13. CASE TickSysTick
  <2> DEFINE t == [cpu EXCEPT !.pend = @ \cup {15}]
  <2>1. /\ t \in State /\ t.ipsr = cpu.ipsr /\ t.frames = cpu.frames
        /\ t.active = cpu.active /\ t.pending_fault = cpu.pending_fault
    BY <1>1 DEF State, Async, System
  <2>2. cpu' = t /\ Nest(t, bad)
    BY <1>13, <1>d, <2>1 DEF TickSysTick
  <2> HIDE DEF t
  <2>3. raises' \in 0 .. MaxRaise
    BY <1>1, <1>13 DEF TickSysTick, TypeOK
  <2>4. Good /\ bad' = bad
    BY <1>1, <1>13, <2>1, <2>2 DEF TickSysTick, Good
  <2>5. /\ primask' \in BOOLEAN /\ enabled' \subseteq Irq
        /\ raised' \subseteq Irq /\ ops' \in 0 .. MaxOps
    BY <1>1, <1>13 DEF TickSysTick, TypeOK
  <2> QED BY <1>a, <2>3, <2>4, <2>5
<1>14. CASE Drain
  <2> DEFINE t == [cpu EXCEPT !.pend = @ \cup raised]
  <2>1. /\ t \in State /\ t.ipsr = cpu.ipsr /\ t.frames = cpu.frames
        /\ t.active = cpu.active /\ t.pending_fault = cpu.pending_fault
    BY <1>1 DEF State, Async, TypeOK
  <2>2. cpu' = t /\ Nest(t, bad)
    BY <1>14, <1>d, <2>1 DEF Drain
  <2> HIDE DEF t
  <2> QED BY <1>1, <1>14, <1>a, <2>1, <2>2 DEF Drain, TypeOK, Good
<1>15. CASE Wake
  <2> DEFINE t == [cpu EXCEPT !.halted = FALSE]
  <2>1. /\ t \in State /\ t.ipsr = cpu.ipsr /\ t.frames = cpu.frames
        /\ t.active = cpu.active /\ t.pending_fault = cpu.pending_fault
    BY <1>1 DEF State
  <2>2. cpu' = t /\ Nest(t, bad)
    BY <1>15, <1>d, <2>1 DEF Wake
  <2> HIDE DEF t
  <2> QED BY <1>1, <1>15, <1>a, <2>1, <2>2 DEF Wake, TypeOK, Good
<1>16. CASE UNCHANGED vars
  BY <1>1, <1>16, <1>a DEF vars, TypeOK, Good
<1> QED BY <1>2, <1>3, <1>4, <1>5, <1>6, <1>7, <1>8, <1>9, <1>10, <1>11,
           <1>12, <1>13, <1>14, <1>15, <1>16 DEF Next

LEMMA Invariant == Spec => []ExceptionsInv
  BY InitInv, NextInv, PTL DEF Spec

-----------------------------------------------------------------------------
\* The core's state stays well typed: the frames, the active and the pending
\* sets hold exceptions of the machine whatever is entered and returned from.
THEOREM TypeCorrect == Spec => []TypeOK
<1>1. ExceptionsInv => TypeOK
  BY DEF ExceptionsInv
<1> QED BY <1>1, Invariant, PTL

\* mark_active and clear_active keep the bitmap equal to the nest of handlers:
\* each mode is on the stack below the top frame at most once, which is what
\* the order of the modes gives, so no return clears a bit that is still due.
THEOREM BitmapIsNest == Spec => []ActiveIsNest
<1>1. ExceptionsInv => ActiveIsNest
  <2> SUFFICES ASSUME ExceptionsInv PROVE ActiveIsNest
    OBVIOUS
  <2>1. cpu.frames \in Seq(Frame)
    BY DEF ExceptionsInv, TypeOK, State
  <2>2. DOMAIN cpu.frames = 1 .. Len(cpu.frames)
    BY <2>1, LenProperties
  <2> QED BY <2>2 DEF ExceptionsInv, Nest, From, ActiveIsNest
<1> QED BY <1>1, Invariant, PTL

\* An interrupt, PendSV or SysTick is only ever entered from thread mode: by
\* the poll before an instruction, by a tail chain, and past a bad vector.
THEOREM InterruptsDoNotNest == Spec => []HandlersDoNotNest
<1>1. ExceptionsInv => HandlersDoNotNest
  <2> SUFFICES ASSUME ExceptionsInv PROVE HandlersDoNotNest
    OBVIOUS
  <2>1. cpu.frames \in Seq(Frame)
    BY DEF ExceptionsInv, TypeOK, State
  <2>2. DOMAIN cpu.frames = 1 .. Len(cpu.frames)
    BY <2>1, LenProperties
  <2> QED BY <2>2 DEF ExceptionsInv, Nest, Outermost, HandlersDoNotNest
<1> QED BY <1>1, Invariant, PTL
=============================================================================
