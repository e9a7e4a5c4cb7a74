------------------------------- MODULE MCSeqCow -------------------------------
(* SeqCow for TLC. *)
EXTENDS SeqCow

CONSTANTS c1, c2

MCClients == {c1, c2}
===============================================================================
