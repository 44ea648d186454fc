---------------------------- MODULE BoundedFifo ----------------------------
(***************************************************************************)
(* What SpscQueue (picoem-common/src/threaded/spsc.rs) promises its two    *)
(* users: a first-in first-out queue of at most Capacity words whose       *)
(* try_push and try_pop take effect at one instant, and which refuses a    *)
(* push only when it is full and a pop only when it is empty.              *)
(***************************************************************************)
EXTENDS Naturals, Sequences

CONSTANTS Word, Capacity

VARIABLES
    queue,  \* the words in the queue, oldest first
    pushed, \* what the last try_push returned
    popped  \* what the last try_pop returned, as a sequence of at most 1 word

vars == <<queue, pushed, popped>>

Init == queue = <<>> /\ pushed = TRUE /\ popped = <<>>

Push(w) ==
    /\ Len(queue) < Capacity
    /\ queue' = Append(queue, w)
    /\ pushed' = TRUE
    /\ UNCHANGED popped

PushFull ==
    /\ Len(queue) = Capacity
    /\ pushed' = FALSE
    /\ UNCHANGED <<queue, popped>>

Pop ==
    /\ queue # <<>>
    /\ queue' = Tail(queue)
    /\ popped' = <<Head(queue)>>
    /\ UNCHANGED pushed

PopEmpty ==
    /\ queue = <<>>
    /\ popped' = <<>>
    /\ UNCHANGED <<queue, pushed>>

Clear ==
    /\ queue' = <<>>
    /\ UNCHANGED <<pushed, popped>>

Next == (\E w \in Word : Push(w)) \/ PushFull \/ Pop \/ PopEmpty \/ Clear

Spec == Init /\ [][Next]_vars
=============================================================================
