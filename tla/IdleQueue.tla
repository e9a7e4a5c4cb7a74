------------------------------ MODULE IdleQueue -------------------------------
(***************************************************************************)
(* What lib/conctrl/mpsc_list.hpp promises the schedulers: a queue of idle *)
(* workers.  A worker in hand (one that pop returned, or that was never    *)
(* pushed) may be pushed; pop returns the worker pushed first and gives it *)
(* back into the caller's hand.                                            *)
(***************************************************************************)
EXTENDS Sequences

CONSTANT Workers

VARIABLES
    queue,    \* the idle workers, first pushed first
    inHand    \* the workers outside the list

vars == <<queue, inHand>>

Push(w) ==
    /\ w \in inHand
    /\ queue' = Append(queue, w)
    /\ inHand' = inHand \ {w}

Pop ==
    /\ queue # <<>>
    /\ queue' = Tail(queue)
    /\ inHand' = inHand \union {Head(queue)}

Init == queue = <<>> /\ inHand = Workers

Next == Pop \/ \E w \in Workers : Push(w)

Spec == Init /\ [][Next]_vars

\* A consumer that keeps calling pop gets every worker.
FairSpec == Spec /\ WF_vars(Pop)
===============================================================================
