----------------------------- MODULE Rendezvous -----------------------------
(***************************************************************************)
(* What picoem-common's barrier promises the worker threads, as a          *)
(* specification of its own: a round is left only when every worker has    *)
(* reached it, rounds are taken in order, and a worker leaves without      *)
(* being released only once the rendezvous is broken, by a worker that     *)
(* panicked or that waited past its deadline.                              *)
(***************************************************************************)
EXTENDS Integers

CONSTANTS Thread

VARIABLES
    arrived,   \* rounds each worker has reached
    released,  \* rounds each worker has left
    broken,    \* a worker panicked or gave up waiting
    left       \* the workers that will not be released any more

vars == <<arrived, released, broken, left>>

Init ==
    /\ arrived = [t \in Thread |-> 0]
    /\ released = [t \in Thread |-> 0]
    /\ broken = FALSE
    /\ left = {}

\* t reaches its next round.
Arrive(t) ==
    /\ t \notin left
    /\ arrived[t] = released[t]
    /\ arrived' = [arrived EXCEPT ![t] = @ + 1]
    /\ UNCHANGED <<released, broken, left>>

\* t leaves a round that every worker has reached.
Release(t) ==
    /\ t \notin left
    /\ released[t] < arrived[t]
    /\ \A u \in Thread : arrived[t] <= arrived[u]
    /\ released' = [released EXCEPT ![t] = arrived[t]]
    /\ UNCHANGED <<arrived, broken, left>>

\* t is the first to fail ...
Break(t) ==
    /\ ~broken
    /\ broken' = TRUE
    /\ left' = left \cup {t}
    /\ UNCHANGED <<arrived, released>>

\* ... and then any other may fail or be sent away.
Leave(t) ==
    /\ broken
    /\ left' = left \cup {t}
    /\ UNCHANGED <<arrived, released, broken>>

Next == \E t \in Thread : Arrive(t) \/ Release(t) \/ Break(t) \/ Leave(t)

Spec == Init /\ [][Next]_vars
=============================================================================
