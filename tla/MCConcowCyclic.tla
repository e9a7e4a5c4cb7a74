---------------------------- MODULE MCConcowCyclic ----------------------------
(* ConcowCyclic for TLC: the threads are model values. *)
EXTENDS ConcowCyclicInductive, TLC

CONSTANTS c1, w1, w2

MCClients == {c1}
MCTwoWorkers == {w1, w2}
MCOneWorker == {w1}

\* Workers run the same code and are never compared.
Symmetry == Permutations({w1, w2})
===============================================================================
