-------------------------- MODULE SpscQueueProofs --------------------------
(***************************************************************************)
(* Proofs about SpscQueue for every capacity, index width and set of       *)
(* words.  The first part is arithmetic on the wrapping indices, the       *)
(* second the inductive invariant RingInv, the third the refinement of     *)
(* BoundedFifo.                                                            *)
(***************************************************************************)
EXTENDS SpscQueue, SequenceTheorems, TLAPS

-----------------------------------------------------------------------------
(* Arithmetic.                                                             *)

LEMMA DivMod ==
    ASSUME NEW n \in Nat \ {0}, NEW a \in Int
    PROVE  /\ (a \div n) \in Int
           /\ (a % n) \in 0 .. (n - 1)
           /\ a = (n * (a \div n)) + (a % n)
  OBVIOUS

\* Numbers less than n apart differ modulo n.
LEMMA ModApart ==
    ASSUME NEW n \in Nat \ {0}, NEW a \in Int, NEW b \in Int, a < b, b < a + n
    PROVE  (a % n) # (b % n)
<1> DEFINE p == a \div n
           q == b \div n
<1>1. p \in Int /\ q \in Int /\ a = n * p + (a % n) /\ b = n * q + (b % n)
  BY DivMod
<1> HIDE DEF p, q
<1>2. ASSUME (a % n) = (b % n) PROVE FALSE
  <2>1. b - a = n * (q - p)
    BY <1>1, <1>2, DivMod
  <2>2. CASE q - p >= 1
    BY <2>1, <2>2, <1>1
  <2>3. CASE q - p <= 0
    BY <2>1, <2>3, <1>1
  <2> QED BY <2>2, <2>3, <1>1
<1> QED BY <1>2

\* Reducing a first modulo a multiple of c changes nothing modulo c.
LEMMA ModOfMod ==
    ASSUME NEW c \in Nat \ {0}, NEW n \in Nat \ {0}, (n % c) = 0,
           NEW a \in Int, NEW i \in Int
    PROVE  ((a % n) + i) % c = (a + i) % c
<1> DEFINE p == a \div n
           k == n \div c
           q == ((a % n) + i) \div c
           r == ((a % n) + i) % c
<1>1. p \in Int /\ a = n * p + (a % n) /\ (a % n) \in Int
  BY DivMod
<1>2. k \in Int /\ n = c * k
  BY DivMod
<1>3. q \in Int /\ r \in 0 .. (c - 1) /\ (a % n) + i = c * q + r
  <2> DEFINE m == (a % n) + i
  <2>1. m \in Int
    BY <1>1
  <2>2. (m \div c) \in Int /\ (m % c) \in 0 .. (c - 1) /\ m = c * (m \div c) + (m % c)
    <3> HIDE DEF m
    <3> QED BY <2>1, DivMod
  <2> QED BY <2>2
<1> HIDE DEF p, k, q, r
<1>4. a + i = (k * p + q) * c + r
  <2>1. n * p = (k * p) * c
    BY <1>1, <1>2
  <2>2. a + i = n * p + (c * q + r)
    <3> DEFINE m == a % n
    <3>1. n * p \in Int /\ c * q \in Int /\ m \in Int
      BY <1>1, <1>3
    <3>2. a = n * p + m /\ m + i = c * q + r
      BY <1>1, <1>3
    <3> HIDE DEF m
    <3> QED BY <3>1, <3>2, <1>3
  <2>3. (k * p + q) * c = (k * p) * c + c * q
    BY <1>1, <1>2, <1>3
  <2> QED BY <2>1, <2>2, <2>3, <1>1, <1>2, <1>3
<1>5. k * p + q \in Int
  BY <1>1, <1>2, <1>3
<1>6. \A u \in Int : \A s \in 0 .. (c - 1) : (u * c + s) % c = s
  OBVIOUS
<1>7. (a + i) % c = r
  BY <1>3, <1>4, <1>5, <1>6
<1> QED BY <1>7 DEF r

LEMMA IndexModTypes ==
    /\ Capacity \in Nat \ {0}
    /\ IndexMod \in Nat \ {0}
    /\ Capacity < IndexMod
    /\ IndexMod % Capacity = 0
BY CapacityAssumption

LEMMA SlotType ==
    ASSUME NEW i \in Int
    PROVE  Slot(i) \in Slots
BY IndexModTypes, DivMod DEF Slot, Slots

\* Two indices less than a lap apart have different slots.
LEMMA SlotApart ==
    ASSUME NEW i \in Int, NEW j \in Int, i < j, j < i + Capacity
    PROVE  Slot(i) # Slot(j)
BY IndexModTypes, ModApart DEF Slot

\* The slot of an index is that of the unwrapped index.
LEMMA SlotWrap ==
    ASSUME NEW i \in Int, NEW d \in Int
    PROVE  Slot((i % IndexMod) + d) = Slot(i + d)
BY IndexModTypes, ModOfMod DEF Slot

LEMMA SubValue ==
    ASSUME NEW i \in Index, NEW j \in Index
    PROVE  WrappingSub(i, j) = IF j <= i THEN i - j ELSE i - j + IndexMod
<1>1. \A n \in Nat \ {0} : \A a \in 0 .. (n - 1) : a % n = a
  OBVIOUS
<1>2. \A n \in Nat \ {0} : \A a \in Int : -n <= a /\ a < 0 => a % n = a + n
  OBVIOUS
<1>3. CASE j <= i
  BY <1>1, <1>3, IndexModTypes DEF WrappingSub, Index
<1>4. CASE i < j
  BY <1>2, <1>4, IndexModTypes DEF WrappingSub, Index
<1> QED BY <1>3, <1>4, IndexModTypes DEF Index

LEMMA NextIndex ==
    ASSUME NEW i \in Index
    PROVE  /\ WrappingAdd(i) \in Index
           /\ WrappingAdd(i) = IF i + 1 = IndexMod THEN 0 ELSE i + 1
<1>1. \A n \in Nat \ {0} : n % n = 0 /\ \A a \in 0 .. (n - 1) : a % n = a
  OBVIOUS
<1> QED BY <1>1, IndexModTypes DEF WrappingAdd, Index

\* Moving either end by one.
LEMMA SubNext ==
    ASSUME NEW i \in Index, NEW j \in Index
    PROVE  /\ WrappingSub(i, j) \in Index
           /\ WrappingSub(i, j) = 0 <=> i = j
           /\ WrappingSub(i, j) < IndexMod - 1
                => WrappingSub(WrappingAdd(i), j) = WrappingSub(i, j) + 1
           /\ WrappingSub(i, j) > 0
                => WrappingSub(i, WrappingAdd(j)) = WrappingSub(i, j) - 1
<1>1. WrappingAdd(i) \in Index /\ WrappingAdd(j) \in Index
  BY NextIndex
<1>2. /\ WrappingSub(i, j) = IF j <= i THEN i - j ELSE i - j + IndexMod
      /\ WrappingSub(WrappingAdd(i), j) =
           IF j <= WrappingAdd(i) THEN WrappingAdd(i) - j
                                  ELSE WrappingAdd(i) - j + IndexMod
      /\ WrappingSub(i, WrappingAdd(j)) =
           IF WrappingAdd(j) <= i THEN i - WrappingAdd(j)
                                  ELSE i - WrappingAdd(j) + IndexMod
  BY <1>1, SubValue
<1> QED
  BY <1>1, <1>2, NextIndex, IndexModTypes DEF Index

\* The slot at one end of a stretch, from the other end and its length.
LEMMA HeadSlot ==
    ASSUME NEW i \in Index, NEW j \in Index
    PROVE  Slot(i) = Slot(j + WrappingSub(i, j))
<1>1. WrappingSub(i, j) = i - j \/ WrappingSub(i, j) = i - j + IndexMod
  BY SubValue
<1>2. CASE WrappingSub(i, j) = i - j
  BY <1>2, IndexModTypes DEF Index
<1>3. CASE WrappingSub(i, j) = i - j + IndexMod
  <2>1. (i + IndexMod) % IndexMod = i
    <3>1. \A n \in Nat \ {0} : \A a \in 0 .. (n - 1) : (a + n) % n = a
      OBVIOUS
    <3> QED BY <3>1, IndexModTypes DEF Index
  <2>2. Slot(i + 0) = Slot(i + IndexMod + 0)
    <3>1. i + IndexMod \in Int
      BY IndexModTypes DEF Index
    <3>2. Slot(((i + IndexMod) % IndexMod) + 0) = Slot(i + IndexMod + 0)
      BY <3>1, SlotWrap
    <3> QED BY <3>2, <2>1
  <2>3. j + WrappingSub(i, j) = i + IndexMod
    BY <1>3, IndexModTypes DEF Index
  <2> QED BY <2>2, <2>3, IndexModTypes DEF Index
<1> QED BY <1>1, <1>2, <1>3

\* Stepping over an index and stepping its unwrapped value are the same slot.
LEMMA NextSlot ==
    ASSUME NEW j \in Index, NEW d \in Int
    PROVE  Slot(WrappingAdd(j) + d) = Slot(j + 1 + d)
BY SlotWrap DEF WrappingAdd, Index

-----------------------------------------------------------------------------
(* The inductive invariant.                                                *)

\* The occupancy, and the room and the word that a call in progress has found.
CountInv ==
    /\ Used \in 0 .. Capacity
    /\ push_pc # "idle" => Used < Capacity /\ ~rdy
    /\ pop_pc # "idle" => Used > 0 /\ ~vld

\* Where the payload of a try_push in progress is.
FlightInv ==
    /\ push_pc # "idle" => word \in Word
    /\ in_flight # NoWord => push_pc = "publish" /\ in_flight = word
    /\ push_pc = "publish" /\ in_flight = NoWord => buffer[Slot(head)] = word

\* The slots from tail up to head hold words.
ContentInv == \A d \in 0 .. Used - 1 : buffer[Slot(tail + d)] \in Word

\* A word read is the oldest, and its slot is not touched before it is freed.
TakenInv == pop_pc = "publish" => taken = buffer[Slot(tail)]

RingInv ==
    TypeOK /\ CountInv /\ StatusHolds /\ FlightInv /\ ContentInv /\ TakenInv

LEMMA InitInv == Init => RingInv
<1> SUFFICES ASSUME Init PROVE RingInv
  OBVIOUS
<1>1. head = 0 /\ tail = 0 /\ 0 \in Index
  BY IndexModTypes DEF Init, Index
<1>2. Used = 0
  BY <1>1, SubNext DEF Used
<1>3. TypeOK
  BY <1>1 DEF Init, TypeOK
<1>4. CountInv /\ StatusHolds
  BY <1>2, IndexModTypes DEF Init, CountInv, StatusHolds
<1>5. FlightInv /\ TakenInv
  BY DEF Init, FlightInv, TakenInv
<1>6. ContentInv
  BY <1>2 DEF ContentInv
<1> QED
  BY <1>3, <1>4, <1>5, <1>6 DEF RingInv

\* What a step does to the occupancy.
LEMMA UsedStep ==
    ASSUME RingInv, [Next]_vars
    PROVE  /\ Used \in 0 .. Capacity /\ Used' \in Int
           /\ PushPublish => Used' = Used + 1
           /\ PopPublish => Used' = Used - 1
           /\ Clear => Used' = 0
           /\ PushPublish \/ PopPublish \/ Clear
              \/ UNCHANGED <<head, tail, Used>>
<1> USE DEF RingInv, TypeOK, CountInv
<1>1. Capacity \in Nat /\ IndexMod \in Nat /\ Used < IndexMod - 0 /\ 0 \in Index
  BY IndexModTypes DEF Index
<1>2. PushPublish => Used < IndexMod - 1 /\ Used' = Used + 1
  BY <1>1, SubNext, IndexModTypes DEF PushPublish, consumer, Used
<1>3. PopPublish => Used' = Used - 1
  BY <1>1, SubNext, IndexModTypes DEF PopPublish, producer, Used
<1>4. Clear => Used' = 0
  BY <1>1, SubNext DEF Clear, Used
<1>5. PushFull \/ (\E w \in Word : PushBegin(w)) \/ PushStore \/ ReadRdy
        => UNCHANGED <<head, tail, Used>>
  BY DEF PushFull, PushBegin, PushStore, ReadRdy, consumer, Used
<1>6. PopEmpty \/ PopBegin \/ PopRead \/ ReadVld
        => UNCHANGED <<head, tail, Used>>
  BY DEF PopEmpty, PopBegin, PopRead, ReadVld, producer, Used
<1>7. StoreVisible \/ UNCHANGED vars => UNCHANGED <<head, tail, Used>>
  BY DEF StoreVisible, consumer, vars, Used
<1>8. /\ PushPublish \/ PopPublish \/ Clear
         \/ UNCHANGED <<head, tail, Used>>
  BY <1>5, <1>6, <1>7 DEF Next, Producer, Consumer
<1> QED
  BY <1>1, <1>2, <1>3, <1>4, <1>8

\* The oldest word is at tail.
LEMMA OldestWord ==
    ASSUME RingInv, Used > 0
    PROVE  buffer[Slot(tail)] \in Word
<1>1. 0 \in 0 .. Used - 1 /\ tail + 0 = tail
  BY IndexModTypes DEF RingInv, TypeOK, CountInv, Index
<1>2. buffer[Slot(tail + 0)] \in Word
  BY <1>1 DEF RingInv, ContentInv
<1> QED BY <1>1, <1>2

\* The producer's slot is apart from each of those that hold a word.
LEMMA FreeSlot ==
    ASSUME RingInv, push_pc # "idle"
    PROVE  \A d \in 0 .. Used - 1 : Slot(tail + d) # Slot(head)
<1> SUFFICES ASSUME NEW d \in 0 .. Used - 1
             PROVE  Slot(tail + d) # Slot(head)
  OBVIOUS
<1>1. head \in Index /\ tail \in Index /\ Used \in 0 .. Capacity /\ Used < Capacity
  BY DEF RingInv, TypeOK, CountInv
<1>2. Slot(head) = Slot(tail + Used)
  BY <1>1, HeadSlot DEF Used
<1>3. /\ tail + d \in Int /\ tail + Used \in Int
      /\ tail + d < tail + Used /\ tail + Used < tail + d + Capacity
  BY <1>1, IndexModTypes DEF Index
<1> QED BY <1>2, <1>3, SlotApart

LEMMA TypeStep ==
    ASSUME RingInv, [Next]_vars
    PROVE  TypeOK'
<1> USE DEF RingInv, TypeOK
<1>1. head \in Int /\ tail \in Int /\ 0 \in Index
  BY IndexModTypes DEF Index
<1>2. CASE PushFull
  BY <1>2 DEF PushFull, consumer
<1>11. CASE ReadRdy
  <2>1. rdy' \in BOOLEAN
    BY <1>11 DEF ReadRdy
  <2> QED BY <1>11, <2>1 DEF ReadRdy, consumer
<1>3. CASE (\E w \in Word : PushBegin(w)) \/ PushStore
  BY <1>3 DEF PushBegin, PushStore, consumer
<1>4. CASE StoreVisible
  BY <1>4, <1>1, SlotType DEF StoreVisible, consumer
<1>5. CASE PushPublish
  BY <1>5, NextIndex DEF PushPublish, consumer
<1>6. CASE PopEmpty \/ PopBegin \/ ReadVld
  BY <1>6 DEF PopEmpty, PopBegin, ReadVld, producer
<1>7. CASE PopRead
  BY <1>7, <1>1, SlotType DEF PopRead, producer
<1>8. CASE PopPublish
  <2>1. taken \in Word
    BY <1>8, OldestWord DEF PopPublish, CountInv, TakenInv
  <2> QED BY <1>8, <2>1, NextIndex DEF PopPublish, producer
<1>9. CASE Clear
  BY <1>9, <1>1 DEF Clear
<1>10. CASE UNCHANGED vars
  BY <1>10 DEF vars
<1> QED
  BY <1>2, <1>3, <1>4, <1>5, <1>6, <1>7, <1>8, <1>9, <1>10,
     <1>11
  DEF Next, Producer, Consumer

LEMMA CountStep ==
    ASSUME RingInv, [Next]_vars
    PROVE  CountInv' /\ StatusHolds'
<1> USE IndexModTypes DEF RingInv, CountInv, StatusHolds, TypeOK
<1>1. Used \in 0 .. Capacity /\ Used' \in Int
  BY UsedStep
<1>2. CASE UNCHANGED <<head, tail, Used>>
  <2>1. CASE PushFull \/ (\E w \in Word : PushBegin(w)) \/ PushStore
    BY <1>1, <1>2, <2>1 DEF PushFull, PushBegin, PushStore, consumer
  <2>2. CASE ReadRdy
    BY <1>1, <1>2, <2>2 DEF ReadRdy, consumer
  <2>3. CASE StoreVisible
    BY <1>1, <1>2, <2>3 DEF StoreVisible, consumer
  <2>4. CASE PopEmpty \/ PopRead
    BY <1>1, <1>2, <2>4 DEF PopEmpty, PopRead, producer
  <2>5. CASE PopBegin
    <3>1. Used > 0
      BY <1>1, <2>5, SubNext DEF PopBegin, Used
    <3> QED BY <1>1, <1>2, <2>5, <3>1 DEF PopBegin, producer
  <2>6. CASE ReadVld
    BY <1>1, <1>2, <2>6 DEF ReadVld, producer
  <2>7. CASE PushPublish \/ PopPublish \/ Clear
    BY <1>1, <1>2, <2>7, UsedStep DEF PushPublish, PopPublish, Clear, consumer, producer
  <2>8. CASE UNCHANGED vars
    BY <1>1, <1>2, <2>8 DEF vars
  <2> QED
    BY <2>1, <2>2, <2>3, <2>4, <2>5, <2>6, <2>7, <2>8 DEF Next, Producer, Consumer
<1>3. CASE PushPublish
  <2>1. Used' = Used + 1
    BY <1>3, UsedStep
  <2> QED BY <1>1, <1>3, <2>1 DEF PushPublish, consumer
<1>4. CASE PopPublish
  <2>1. Used' = Used - 1
    BY <1>4, UsedStep
  <2> QED BY <1>1, <1>4, <2>1 DEF PopPublish, producer
<1>5. CASE Clear
  <2>1. Used' = 0
    BY <1>5, UsedStep
  <2> QED BY <1>1, <1>5, <2>1 DEF Clear
<1> QED
  BY <1>2, <1>3, <1>4, <1>5, UsedStep

LEMMA FlightStep ==
    ASSUME RingInv, [Next]_vars
    PROVE  FlightInv'
<1> USE DEF RingInv, FlightInv, TypeOK
<1>1. head \in Int /\ NoWord \notin Word
  BY NoWordAssumption DEF Index
<1>2. CASE PushFull \/ ReadRdy
  BY <1>2 DEF PushFull, ReadRdy, consumer
<1>3. CASE (\E w \in Word : PushBegin(w)) \/ PushStore
  BY <1>1, <1>3 DEF PushBegin, PushStore, consumer
<1>4. CASE StoreVisible
  BY <1>1, <1>4, SlotType DEF StoreVisible, consumer
<1>5. CASE PushPublish \/ Clear
  BY <1>5 DEF PushPublish, Clear, consumer
<1>6. CASE PopEmpty \/ PopBegin \/ PopRead \/ PopPublish \/ ReadVld
  BY <1>6 DEF PopEmpty, PopBegin, PopRead, PopPublish, ReadVld, producer
<1>7. CASE UNCHANGED vars
  BY <1>7 DEF vars
<1> QED
  BY <1>2, <1>3, <1>4, <1>5, <1>6, <1>7 DEF Next, Producer, Consumer

\* What the consumer sees of the words in the ring only changes at its ends.
LEMMA BufferStep ==
    ASSUME RingInv, [Next]_vars
    PROVE  \A d \in 0 .. Used - 1 : buffer'[Slot(tail + d)] = buffer[Slot(tail + d)]
<1>1. CASE StoreVisible
  <2> SUFFICES ASSUME NEW d \in 0 .. Used - 1
               PROVE  buffer'[Slot(tail + d)] = buffer[Slot(tail + d)]
    OBVIOUS
  <2>1. push_pc # "idle"
    BY <1>1 DEF StoreVisible, RingInv, FlightInv
  <2>2. Slot(tail + d) # Slot(head)
    BY <2>1, FreeSlot
  <2>3. tail + d \in Int
    BY DEF RingInv, TypeOK, Index
  <2>4. Slot(tail + d) \in Slots
    BY <2>3, SlotType
  <2> QED BY <1>1, <2>2, <2>4 DEF StoreVisible, RingInv, TypeOK
<1>2. CASE ~StoreVisible
  <2>1. buffer' = buffer
    BY <1>2
    DEF Next, Producer, Consumer, PushFull, PushBegin, PushStore, PushPublish,
        ReadRdy, PopEmpty, PopBegin, PopRead, PopPublish, ReadVld, Clear, vars
  <2> QED BY <2>1
<1> QED BY <1>1, <1>2

\* The head's slot holds the word that is being published.
LEMMA PublishedWord ==
    ASSUME RingInv, PushPublish
    PROVE  buffer'[Slot(tail + Used)] = word /\ word \in Word
<1>1. Slot(head) = Slot(tail + Used)
  BY HeadSlot DEF Used, RingInv, TypeOK
<1> QED BY <1>1 DEF PushPublish, RingInv, FlightInv

LEMMA ContentStep ==
    ASSUME RingInv, [Next]_vars
    PROVE  ContentInv'
<1>1. /\ Used \in 0 .. Capacity /\ Capacity \in Nat
      /\ tail \in Index /\ tail \in Int
  BY IndexModTypes DEF RingInv, CountInv, TypeOK, Index
<1>2. \A d \in 0 .. Used - 1 : buffer'[Slot(tail + d)] \in Word
  BY BufferStep DEF RingInv, ContentInv
<1>3. CASE UNCHANGED <<head, tail, Used>>
  BY <1>2, <1>3 DEF ContentInv
<1>4. CASE PushPublish
  <2>1. Used' = Used + 1 /\ tail' = tail
    BY <1>4, UsedStep DEF PushPublish, consumer
  <2>2. buffer'[Slot(tail + Used)] \in Word
    BY <1>4, PublishedWord
  <2>3. \A d \in 0 .. Used' - 1 : d = Used \/ d \in 0 .. Used - 1
    BY <1>1, <2>1
  <2> QED BY <1>2, <2>1, <2>2, <2>3 DEF ContentInv
<1>5. CASE PopPublish
  <2>1. Used' = Used - 1 /\ tail' = WrappingAdd(tail)
    BY <1>5, UsedStep DEF PopPublish
  <2> SUFFICES ASSUME NEW d \in 0 .. Used' - 1
               PROVE  buffer'[Slot(tail' + d)] \in Word
    BY DEF ContentInv
  <2>2. d + 1 \in 0 .. Used - 1 /\ tail + 1 + d = tail + (d + 1)
    BY <1>1, <2>1
  <2>3. Slot(tail' + d) = Slot(tail + (d + 1))
    BY <1>1, <2>1, <2>2, NextSlot
  <2> QED BY <1>2, <2>2, <2>3
<1>6. CASE Clear
  <2>1. Used' = 0
    BY <1>6, UsedStep
  <2> QED BY <2>1 DEF ContentInv
<1> QED BY <1>3, <1>4, <1>5, <1>6, UsedStep

LEMMA TakenStep ==
    ASSUME RingInv, [Next]_vars
    PROVE  TakenInv'
<1> USE DEF RingInv, TakenInv
<1>1. CASE pop_pc' = "publish" /\ pop_pc # "publish"
  BY <1>1
  DEF Next, Producer, Consumer, PushFull, PushBegin, PushStore, PushPublish,
      ReadRdy, StoreVisible, PopEmpty, PopBegin, PopRead, PopPublish, ReadVld,
      Clear, vars, producer, consumer
<1>2. CASE pop_pc' = "publish" /\ pop_pc = "publish"
  <2>1. UNCHANGED <<tail, taken>>
    BY <1>2
    DEF Next, Producer, Consumer, PushFull, PushBegin, PushStore, PushPublish,
        ReadRdy, StoreVisible, PopEmpty, PopBegin, PopRead, PopPublish,
        ReadVld, Clear, vars, producer, consumer
  <2>2. 0 \in 0 .. Used - 1 /\ tail + 0 = tail
    BY <1>2, IndexModTypes DEF CountInv, TypeOK, Index
  <2>3. buffer'[Slot(tail + 0)] = buffer[Slot(tail + 0)]
    BY <2>2, BufferStep
  <2> QED BY <1>2, <2>1, <2>2, <2>3
<1> QED BY <1>1, <1>2

LEMMA RingInvariant == Spec => []RingInv
<1>1. RingInv /\ [Next]_vars => RingInv'
  BY TypeStep, CountStep, FlightStep, ContentStep, TakenStep DEF RingInv
<1> QED BY <1>1, InitInv, PTL DEF Spec

\* TypeOK for every ring: the indices stay in their width and every word that
\* try_pop returns is one that was pushed.
THEOREM TypeCorrect == Spec => []TypeOK
<1>1. RingInv => TypeOK
  BY DEF RingInv
<1> QED BY <1>1, RingInvariant, PTL

\* The slot a try_push fills is never the one a try_pop is reading.
THEOREM SlotsApartHolds == Spec => []SlotsApart
<1>1. RingInv => SlotsApart
  <2> SUFFICES ASSUME RingInv, push_pc # "idle", pop_pc # "idle"
               PROVE  Slot(head) # Slot(tail)
    BY DEF SlotsApart
  <2>1. 0 \in 0 .. Used - 1 /\ tail + 0 = tail
    BY IndexModTypes DEF RingInv, CountInv, TypeOK, Index
  <2> QED BY <2>1, FreeSlot
<1> QED BY <1>1, RingInvariant, PTL

\* RDY and VLD in FIFO_ST stay true until the reader itself acts on them.
THEOREM StatusHoldsAlways == Spec => []StatusHolds
<1>1. RingInv => StatusHolds
  BY DEF RingInv
<1> QED BY <1>1, RingInvariant, PTL

-----------------------------------------------------------------------------
(* The refinement of BoundedFifo.                                          *)

\* n words of the slots b, from index t on.
Words(b, t, n) == [i \in 1 .. n |-> b[Slot(t + i - 1)]]

LEMMA WordsSeq ==
    ASSUME NEW b, NEW t \in Int, NEW n \in Nat,
           \A d \in 0 .. n - 1 : b[Slot(t + d)] \in Word
    PROVE  /\ Words(b, t, n) \in Seq(Word)
           /\ Len(Words(b, t, n)) = n
           /\ \A i \in 1 .. n : Words(b, t, n)[i] = b[Slot(t + (i - 1))]
<1>1. \A i \in 1 .. n : i - 1 \in 0 .. n - 1 /\ t + i - 1 = t + (i - 1)
  OBVIOUS
<1>2. \A i \in 1 .. n : b[Slot(t + i - 1)] \in Word
  BY <1>1
<1>3. Words(b, t, n) \in [1 .. n -> Word]
  BY <1>2 DEF Words
<1> QED BY <1>1, <1>3 DEF Words

\* The contents before and after a step, as sequences.
LEMMA ContentsSeq ==
    ASSUME RingInv, [Next]_vars
    PROVE  /\ Contents \in Seq(Word) /\ Contents' \in Seq(Word)
           /\ Len(Contents) = Used /\ Len(Contents') = Used'
           /\ Used \in 0 .. Capacity /\ Used' \in Nat /\ Capacity \in Nat
           /\ \A i \in 1 .. Used : Contents[i] = buffer[Slot(tail + (i - 1))]
           /\ \A i \in 1 .. Used' : Contents'[i] = buffer'[Slot(tail' + (i - 1))]
<1>1. TypeOK' /\ CountInv' /\ ContentInv'
  BY TypeStep, CountStep, ContentStep
<1>2. /\ Used \in 0 .. Capacity /\ Used \in Nat /\ tail \in Int
      /\ Used' \in Nat /\ tail' \in Int /\ Capacity \in Nat
  BY <1>1, IndexModTypes DEF RingInv, CountInv, TypeOK, Index
<1>3. Contents = Words(buffer, tail, Used)
  BY DEF Contents, Words
<1>4. Contents' = Words(buffer', tail', Used')
  BY DEF Contents, Words
<1>5. \A d \in 0 .. Used - 1 : buffer[Slot(tail + d)] \in Word
  BY DEF RingInv, ContentInv
<1>6. \A d \in 0 .. Used' - 1 : buffer'[Slot(tail' + d)] \in Word
  BY <1>1 DEF ContentInv
<1> QED BY <1>2, <1>3, <1>4, <1>5, <1>6, WordsSeq

\* A step that moves neither end leaves the contents alone.
LEMMA SameContents ==
    ASSUME RingInv, [Next]_vars, UNCHANGED <<head, tail, Used>>
    PROVE  Contents' = Contents
<1>1. \A i \in 1 .. Used : i - 1 \in 0 .. Used - 1
  BY ContentsSeq
<1>2. \A i \in 1 .. Used : Contents'[i] = Contents[i]
  BY <1>1, ContentsSeq, BufferStep
<1> QED BY <1>2, ContentsSeq, SeqEqual

LEMMA PushedContents ==
    ASSUME RingInv, [Next]_vars, PushPublish
    PROVE  Contents' = Append(Contents, word) /\ word \in Word
<1>1. Used' = Used + 1 /\ tail' = tail
  BY UsedStep DEF PushPublish, consumer
<1>2. buffer'[Slot(tail + Used)] = word /\ word \in Word
  BY PublishedWord
<1>3. \A i \in 1 .. Used : i - 1 \in 0 .. Used - 1
  BY ContentsSeq
<1>4. \A i \in 1 .. Used : Contents'[i] = Contents[i]
  <2> SUFFICES ASSUME NEW i \in 1 .. Used
               PROVE  Contents'[i] = Contents[i]
    OBVIOUS
  <2>1. i \in 1 .. Used'
    BY <1>1, ContentsSeq
  <2>2. Contents'[i] = buffer'[Slot(tail + (i - 1))]
    BY <1>1, <2>1, ContentsSeq
  <2> QED BY <1>3, <2>2, ContentsSeq, BufferStep
<1>5. Contents'[Used + 1] = word
  <2>1. Used + 1 \in 1 .. Used' /\ (Used + 1) - 1 = Used
    BY <1>1, ContentsSeq
  <2>2. Contents'[Used + 1] = buffer'[Slot(tail' + ((Used + 1) - 1))]
    BY <2>1, ContentsSeq
  <2> QED BY <1>1, <1>2, <2>1, <2>2
<1>6. /\ Append(Contents, word) \in Seq(Word)
      /\ Len(Append(Contents, word)) = Used + 1
      /\ Append(Contents, word)[Used + 1] = word
      /\ \A i \in 1 .. Used : Append(Contents, word)[i] = Contents[i]
  BY <1>2, ContentsSeq
<1>7. \A i \in 1 .. Used + 1 : i \in 1 .. Used \/ i = Used + 1
  BY ContentsSeq
<1>8. \A i \in 1 .. Used + 1 : Contents'[i] = Append(Contents, word)[i]
  BY <1>4, <1>5, <1>6, <1>7
<1> QED BY <1>1, <1>2, <1>6, <1>8, ContentsSeq, SeqEqual

LEMMA PoppedContents ==
    ASSUME RingInv, [Next]_vars, PopPublish
    PROVE  /\ Contents # <<>>
           /\ Contents' = Tail(Contents)
           /\ taken = Head(Contents)
<1>1. Used' = Used - 1 /\ tail' = WrappingAdd(tail) /\ Used > 0
      /\ tail \in Index /\ tail \in Int
  BY UsedStep DEF PopPublish, RingInv, CountInv, TypeOK, Index
<1>2. Contents # <<>>
  BY <1>1, ContentsSeq
<1>3. /\ Tail(Contents) \in Seq(Word)
      /\ Len(Tail(Contents)) = Used - 1
      /\ \A i \in 1 .. Used - 1 : Tail(Contents)[i] = Contents[i + 1]
  BY <1>2, ContentsSeq, HeadTailProperties
<1>4. \A i \in 1 .. Used - 1 : Contents'[i] = Contents[i + 1]
  <2> SUFFICES ASSUME NEW i \in 1 .. Used - 1
               PROVE  Contents'[i] = Contents[i + 1]
    OBVIOUS
  <2>1. /\ i \in 1 .. Used' /\ i + 1 \in 1 .. Used /\ i - 1 \in Int
        /\ (i + 1) - 1 = i /\ i \in 0 .. Used - 1
        /\ tail + 1 + (i - 1) = tail + i
    BY <1>1, ContentsSeq
  <2>2. Contents'[i] = buffer'[Slot(WrappingAdd(tail) + (i - 1))]
    BY <1>1, <2>1, ContentsSeq
  <2>3. Slot(WrappingAdd(tail) + (i - 1)) = Slot(tail + i)
    BY <1>1, <2>1, NextSlot
  <2>4. Contents[i + 1] = buffer[Slot(tail + ((i + 1) - 1))]
    BY <2>1, ContentsSeq
  <2> QED BY <2>1, <2>2, <2>3, <2>4, BufferStep
<1>5. taken = Head(Contents)
  <2>1. 1 \in 1 .. Used /\ tail + (1 - 1) = tail
    BY <1>1, ContentsSeq
  <2>2. Contents[1] = buffer[Slot(tail + (1 - 1))]
    BY <2>1, ContentsSeq
  <2> QED BY <1>2, <2>1, <2>2, ContentsSeq DEF PopPublish, RingInv, TakenInv
<1>6. Contents' = Tail(Contents)
  <2>1. \A i \in 1 .. Used - 1 : Contents'[i] = Tail(Contents)[i]
    BY <1>3, <1>4
  <2> QED BY <1>1, <1>3, <2>1, ContentsSeq, SeqEqual
<1> QED BY <1>2, <1>5, <1>6

LEMMA FifoStep ==
    ASSUME RingInv, [Next]_vars
    PROVE  [Queue!Next]_Queue!vars
<1> USE DEF Queue!Next, Queue!vars
<1>1. CASE PushFull
  <2>1. Contents' = Contents /\ Len(Contents) = Capacity
    BY <1>1, SameContents, ContentsSeq DEF PushFull, consumer, Used
  <2> QED BY <1>1, <2>1 DEF PushFull, consumer, Queue!PushFull
<1>2. CASE (\E w \in Word : PushBegin(w)) \/ PushStore \/ ReadRdy
  <2>1. UNCHANGED <<head, tail, Used, pushed, popped>>
    BY <1>2 DEF PushBegin, PushStore, ReadRdy, consumer, Used
  <2> QED BY <2>1, SameContents
<1>3. CASE PushPublish
  <2>1. Used < Capacity
    BY <1>3 DEF PushPublish, RingInv, CountInv
  <2> QED
    BY <1>3, <2>1, PushedContents, ContentsSeq
    DEF PushPublish, consumer, Queue!Push
<1>4. CASE StoreVisible \/ UNCHANGED vars
  <2>1. UNCHANGED <<head, tail, Used, pushed, popped>>
    BY <1>4 DEF StoreVisible, consumer, vars, Used
  <2> QED BY <2>1, SameContents
<1>5. CASE PopEmpty
  <2>1. Used = 0 /\ UNCHANGED <<head, tail, Used, pushed>>
    BY <1>5, SubNext DEF PopEmpty, producer, Used, RingInv, TypeOK
  <2>2. Contents = <<>> /\ Contents' = Contents
    BY <2>1, SameContents, ContentsSeq
  <2> QED BY <1>5, <2>1, <2>2 DEF PopEmpty, Queue!PopEmpty
<1>6. CASE PopBegin \/ PopRead \/ ReadVld
  <2>1. UNCHANGED <<head, tail, Used, pushed, popped>>
    BY <1>6 DEF PopBegin, PopRead, ReadVld, producer, Used
  <2> QED BY <2>1, SameContents
<1>7. CASE PopPublish
  BY <1>7, PoppedContents DEF PopPublish, producer, Queue!Pop
<1>8. CASE Clear
  <2>1. Used' = 0
    BY <1>8, UsedStep
  <2>2. Contents' = <<>>
    BY <2>1, ContentsSeq
  <2> QED BY <1>8, <2>2 DEF Clear, Queue!Clear
<1> QED
  BY <1>1, <1>2, <1>3, <1>4, <1>5, <1>6, <1>7, <1>8 DEF Next, Producer, Consumer

\* The ring is a bounded FIFO: no word is lost, duplicated, reordered or seen
\* before it is written, and a call is refused only when it has to be.
THEOREM RingImplementsFifo == Spec => ImplementsFifo
<1>1. Init => Queue!Init
  <2> SUFFICES ASSUME Init PROVE Queue!Init
    OBVIOUS
  <2>1. Used = 0
    BY IndexModTypes, SubNext DEF Init, Used, Index
  <2>2. Contents = <<>>
    BY <2>1 DEF Contents
  <2> QED BY <2>2 DEF Init, Queue!Init
<1>2. RingInv /\ [Next]_vars => [Queue!Next]_Queue!vars
  BY FifoStep
<1> QED BY <1>1, <1>2, RingInvariant, PTL DEF Spec, ImplementsFifo, Queue!Spec
=============================================================================
