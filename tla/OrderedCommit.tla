---------------------------- MODULE OrderedCommit ----------------------------
(***************************************************************************)
(* What the schedulers of lib/conctrl promise their callers, without any   *)
(* pipe, worker or slot.                                                   *)
(*                                                                         *)
(* update() takes the next task id and returns it; the tree handed to      *)
(* query() always holds the effect of a prefix of the updates in id order; *)
(* wait_for_processing(n) returns only when the updates with ids up to n   *)
(* are in that tree.  Ids that are multiples of BufferSize are reserved    *)
(* for checkpoints and carry no update.                                    *)
(***************************************************************************)
EXTENDS Integers

CONSTANT BufferSize   \* BUFFER_SIZE of the scheduler

VARIABLES
    submitted,   \* the number of task ids handed out
    committed,   \* what wait_for_processing compares its argument with
    tree         \* the set of updates the tree of query() holds

vars == <<submitted, committed, tree>>

\* The ids up to n that belong to an update.
UpdatesUpTo(n) == {t \in 1..n : t % BufferSize # 0}

Init ==
    /\ submitted = 0
    /\ committed = 0
    /\ tree = {}

Submit ==
    /\ submitted' = submitted + 1
    /\ UNCHANGED <<committed, tree>>

\* Readers start to see a longer prefix of the updates.
Expose(n) ==
    /\ tree # UpdatesUpTo(n)
    /\ tree \subseteq UpdatesUpTo(n)
    /\ tree' = UpdatesUpTo(n)
    /\ UNCHANGED <<submitted, committed>>

\* Waiters are told of a prefix that readers already see.
Commit(n) ==
    /\ n > committed
    /\ UpdatesUpTo(n) \subseteq tree
    /\ committed' = n
    /\ UNCHANGED <<submitted, tree>>

Next ==
    \/ Submit
    \/ \E n \in 1..submitted : Expose(n) \/ Commit(n)

Spec == Init /\ [][Next]_vars

Progress == \E n \in 1..submitted : Expose(n) \/ Commit(n)

\* Whatever was submitted is committed in the end.
FairSpec == Spec /\ WF_vars(Progress)
==============================================================================
