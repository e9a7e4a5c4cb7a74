------------------------------- MODULE MCConcow -------------------------------
(* Concow for TLC: model values for the threads and their symmetry. *)
EXTENDS ConcowOrder, TLC

CONSTANTS c1, c2, w1, w2

MCOneClient == {c1}
MCTwoClients == {c1, c2}
MCOneWorker == {w1}
MCTwoWorkers == {w1, w2}

\* Clients and workers run the same code and are never compared.
Symmetry == Permutations({c1, c2}) \union Permutations({w1, w2})
===============================================================================
