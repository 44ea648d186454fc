----------------------------- MODULE SpscQueue -----------------------------
(***************************************************************************)
(* The lock-free single-producer single-consumer ring of                   *)
(* picoem-common/src/threaded/spsc.rs.  One action is one access to shared *)
(* memory; an index that only its reader writes is read in the same step.  *)
(*                                                                         *)
(* Memory is weak for the payload: the producer's Relaxed store to a slot  *)
(* stays in flight until it becomes visible, and the Release store of head *)
(* waits for it.  The consumer's loads are ordered by its Acquire of head  *)
(* and its Release of tail, so they happen in program order.               *)
(***************************************************************************)
EXTENDS Integers, Sequences

CONSTANTS
    Word,     \* the payloads
    Capacity, \* of the ring: 8 for the SIO FIFOs
    IndexMod  \* head and tail wrap at this value: 2^32 in the code

\* Both are powers of two; what counts is that Capacity divides IndexMod and
\* that a full ring is told from an empty one.
ASSUME CapacityAssumption ==
    /\ Capacity \in Nat \ {0}
    /\ IndexMod \in Nat
    /\ IndexMod > Capacity
    /\ IndexMod % Capacity = 0

VARIABLES
    buffer,    \* the slots, as the consumer sees them; NoWord if never written
    in_flight, \* the payload stored but not yet visible, if any
    head, tail,
    push_pc, word,        \* the producer: where it is, its val
    pop_pc, taken,        \* the consumer: where it is, its val
    rdy, vld,             \* FIFO_ST as the producer, the consumer last read it
    pushed, popped        \* what the last try_push and try_pop returned

producer == <<in_flight, head, push_pc, word, rdy, pushed>>
consumer == <<tail, pop_pc, taken, vld, popped>>
vars == <<buffer, in_flight, head, tail, push_pc, word, pop_pc, taken,
          rdy, vld, pushed, popped>>

Index == 0 .. IndexMod - 1
Slots == 0 .. Capacity - 1
NoWord == "no word"
ASSUME NoWordAssumption == NoWord \notin Word

Slot(i) == i % Capacity                       \* i & mask

\* Fault: an addition that does not wrap.
WrappingAdd_Overflows(i) == i + 1

WrappingAdd(i) == (i + 1) % IndexMod

WrappingSub(i, j) == (i - j) % IndexMod

Used == WrappingSub(head, tail)

Init ==
    /\ buffer = [s \in Slots |-> NoWord]
    /\ in_flight = NoWord
    /\ head = 0 /\ tail = 0
    /\ push_pc = "idle" /\ word = NoWord
    /\ pop_pc = "idle" /\ taken = NoWord
    /\ rdy = FALSE /\ vld = FALSE
    /\ pushed = TRUE /\ popped = <<>>

-----------------------------------------------------------------------------
(* try_push                                                                *)

\* Loads tail.  Full: returns false.
PushFull ==
    /\ push_pc = "idle" /\ Used >= Capacity
    /\ pushed' = FALSE
    /\ rdy' = FALSE
    /\ UNCHANGED <<buffer, in_flight, head, push_pc, word, consumer>>

\* Fault: the test against capacity lets one word too many in.
PushBegin_OverCapacity(w) ==
    /\ push_pc = "idle" /\ Used <= Capacity
    /\ push_pc' = "store" /\ word' = w
    /\ rdy' = FALSE
    /\ UNCHANGED <<buffer, in_flight, head, pushed, consumer>>

\* Loads tail.  There is room.
PushBegin(w) ==
    /\ push_pc = "idle" /\ Used < Capacity
    /\ push_pc' = "store" /\ word' = w
    /\ rdy' = FALSE
    /\ UNCHANGED <<buffer, in_flight, head, pushed, consumer>>

PushStore ==
    /\ push_pc = "store"
    /\ in_flight' = word
    /\ push_pc' = "publish"
    /\ UNCHANGED <<buffer, head, word, rdy, pushed, consumer>>

\* The memory system: the payload becomes visible.
StoreVisible ==
    /\ in_flight # NoWord
    /\ buffer' = [buffer EXCEPT ![Slot(head)] = in_flight]
    /\ in_flight' = NoWord
    /\ UNCHANGED <<head, push_pc, word, rdy, pushed, consumer>>

\* Fault: head is stored Relaxed and may be seen before the payload.
PushPublish_Relaxed ==
    /\ push_pc = "publish"
    /\ head' = WrappingAdd(head)
    /\ push_pc' = "idle" /\ word' = NoWord
    /\ pushed' = TRUE
    /\ UNCHANGED <<buffer, in_flight, rdy, consumer>>

\* Release store of head; returns true.
PushPublish ==
    /\ push_pc = "publish" /\ in_flight = NoWord
    /\ head' = WrappingAdd(head)
    /\ push_pc' = "idle" /\ word' = NoWord
    /\ pushed' = TRUE
    /\ UNCHANGED <<buffer, in_flight, rdy, consumer>>

\* Fault: the comparison with capacity is off by one.
ReadRdy_Inclusive ==
    /\ push_pc = "idle"
    /\ rdy' = (Used <= Capacity)
    /\ UNCHANGED <<buffer, in_flight, head, push_pc, word, pushed, consumer>>

\* is_full, in the producer's read of FIFO_ST.
ReadRdy ==
    /\ push_pc = "idle"
    /\ rdy' = (Used < Capacity)
    /\ UNCHANGED <<buffer, in_flight, head, push_pc, word, pushed, consumer>>

-----------------------------------------------------------------------------
(* try_pop                                                                 *)

\* Loads head.  Empty: returns None.
PopEmpty ==
    /\ pop_pc = "idle" /\ tail = head
    /\ popped' = <<>>
    /\ vld' = FALSE
    /\ UNCHANGED <<buffer, producer, tail, pop_pc, taken>>

\* Loads head.  There is a word.
PopBegin ==
    /\ pop_pc = "idle" /\ tail # head
    /\ pop_pc' = "read"
    /\ vld' = FALSE
    /\ UNCHANGED <<buffer, producer, tail, taken, popped>>

PopRead ==
    /\ pop_pc = "read"
    /\ taken' = buffer[Slot(tail)]
    /\ pop_pc' = "publish"
    /\ UNCHANGED <<buffer, producer, tail, vld, popped>>

\* Release store of tail; returns the word.
PopPublish ==
    /\ pop_pc = "publish"
    /\ tail' = WrappingAdd(tail)
    /\ popped' = <<taken>>
    /\ pop_pc' = "idle" /\ taken' = NoWord
    /\ UNCHANGED <<buffer, producer, vld>>

\* is_empty, in the consumer's read of FIFO_ST.
ReadVld ==
    /\ pop_pc = "idle"
    /\ vld' = (Used # 0)
    /\ UNCHANGED <<buffer, producer, tail, pop_pc, taken, popped>>

-----------------------------------------------------------------------------
\* clear, called in a reset, when no other thread uses the queue.
Clear ==
    /\ push_pc = "idle" /\ pop_pc = "idle"
    /\ head' = 0 /\ tail' = 0
    /\ rdy' = FALSE /\ vld' = FALSE
    /\ UNCHANGED <<buffer, in_flight, push_pc, word, pushed, pop_pc, taken,
                   popped>>

Producer ==
    PushFull \/ (\E w \in Word : PushBegin(w)) \/ PushStore \/ PushPublish
    \/ ReadRdy

Consumer == PopEmpty \/ PopBegin \/ PopRead \/ PopPublish \/ ReadVld

Next == Producer \/ StoreVisible \/ Consumer \/ Clear

Spec == Init /\ [][Next]_vars
-----------------------------------------------------------------------------
(* Properties.                                                             *)

\* Indices, slots and program points have their types.
TypeOK ==
    /\ buffer \in [Slots -> Word \cup {NoWord}]
    /\ in_flight \in Word \cup {NoWord}
    /\ head \in Index /\ tail \in Index
    /\ push_pc \in {"idle", "store", "publish"}
    /\ word \in Word \cup {NoWord}
    /\ pop_pc \in {"idle", "read", "publish"}
    /\ taken \in Word \cup {NoWord}
    /\ rdy \in BOOLEAN /\ vld \in BOOLEAN
    /\ pushed \in BOOLEAN
    /\ popped \in {<<>>} \cup {<<w>> : w \in Word}

\* The slot a try_push is about to fill is never the one a try_pop is reading,
\* on whichever laps of the ring and of the index the two are.
SlotsApart ==
    push_pc # "idle" /\ pop_pc # "idle" => Slot(head) # Slot(tail)

\* A core that read RDY in FIFO_ST can push its next word, and one that read
\* VLD can pop one, however stale the answer is: the peer's accesses since can
\* only have made more room, or brought more words.
StatusHolds == (rdy => Used < Capacity) /\ (vld => Used > 0)

\* The ring is a bounded FIFO whose operations are atomic.
Contents == [i \in 1 .. Used |-> buffer[Slot(tail + i - 1)]]
Queue == INSTANCE BoundedFifo WITH queue <- Contents
ImplementsFifo == Queue!Spec
=============================================================================
