----------------------------- MODULE ConcowOrder ------------------------------
(***************************************************************************)
(* How far the handlers of a task are, and which versions it reads: what   *)
(* has to hold besides RootInv for HandlersInOrder and RebuildAlone to be  *)
(* provable one step at a time.                                            *)
(***************************************************************************)
EXTENDS ConcowInductive

\* The handlers a task has run when k pipes have seen it: one each, until
\* the one at the boundary sets wait_child.
Level(k) == IF k <= Boundary + 1 THEN k ELSE Boundary + 1

\* While a task has handlers left, its pipes keep it on a level, wait_child
\* says whether it is past the boundary, its stage never runs ahead of its
\* handlers, and it copies a node of an earlier task.
TaskInOrder(t) ==
    LET s == Slot(t) IN
    op[s] # DONE =>
      /\ op[s] < MaxOps
      /\ waitChild[s] = IF op[s] > Boundary THEN 1 ELSE 0
      /\ \A p \in Pipes : t > pdone[p] => op[s] <= Level(p)
      /\ \A p \in Pipes \ {NPipes} : t <= pdone[p] => op[s] >= Level(p + 1)
      /\ t <= pdone[NPipes] => op[s] >= Level(NPipes) + stages[s]
      /\ t <= pdone[0] => pastVer[s] < t

TasksInOrder == \A t \in Published : TaskInOrder(t)

\* local_stage counts the handlers a worker has run.
Progress(w) == IF wpc[w] = "store" THEN wstage[w] ELSE wstage[w] - 1

StagesInOrder ==
    \A w \in Workers :
        HasTask(w) /\ op[Slot(wtid[w])] # DONE =>
            op[Slot(wtid[w])] = Level(NPipes) + Progress(w)

\* The root of a task has the task's version, that of a checkpoint slot an
\* earlier one.  No task older than the last rebuild is left.
VersionsInOrder ==
    /\ \A t \in nCommitted..pdone[0] : t <= nSubmitted =>
         /\ ctxRootVer[Slot(t)] <= t
         /\ IsCheckpoint(t) \/ ctxRootVer[Slot(t)] = t
    /\ lastCheckpoint <= pdone[0]
    /\ \A t \in Published : lastCheckpoint <= t

\* No root, in use or stale, holds what was not submitted.
RootsSubmitted == \A s \in Slots : ctxRoot[s] \subseteq 1..nSubmitted

\* The inductive invariant of HandlersInOrder and RebuildAlone: pipes, stages
\* and handlers of a task keep pace with each other.
OrderInv ==
    /\ RootInv
    /\ TasksInOrder
    /\ StagesInOrder
    /\ VersionsInOrder
    /\ RootsSubmitted
===============================================================================
