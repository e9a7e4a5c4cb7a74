-------------------------- MODULE ConcowOrderProofs ---------------------------
(***************************************************************************)
(* What the scheduler promises and what the tree handlers rely on, proved  *)
(* for every number of clients, workers and pipes and every size of the    *)
(* ring.                                                                   *)
(*                                                                         *)
(* The promise of OrderedCommit: readers of root_ get the updates of a     *)
(* prefix of the ids, waiters are told of a prefix that readers already    *)
(* see.                                                                    *)
(*                                                                         *)
(* The contract of the tree handlers: a handler meets a node only when the *)
(* task that made it has run its own handler of that depth, and a rebuild  *)
(* meets only committed nodes.                                             *)
(***************************************************************************)
EXTENDS ConcowOrder, ConcowProofs

\* The promise of OrderedCommit.

LEMMA RootsInit == Init => RootsInOrder
<1> SUFFICES ASSUME Init PROVE RootsInOrder
  OBVIOUS
<1>1. UpdatesUpTo(0) = {}
  BY DEF UpdatesUpTo
<1>2. pdone[0] = 0 /\ Slot(0) \in Slots
  BY PipesAreIds, SlotInRing DEF Init
<1>3. ctxRoot[Slot(0)] = {}
  BY <1>2 DEF Init
<1> QED
  BY <1>1, <1>2, <1>3 DEF Init, RootsInOrder

\* A step that gives ids, contexts and root_ no new meaning.
LEMMA RootsKept ==
    ASSUME RootInv,
           UNCHANGED <<nCommitted, root, ctxRoot, mpc, mNext>>,
           pdone'[0] = pdone[0],
           nSubmitted' = nSubmitted \/ pdone[0] <= nSubmitted
    PROVE  RootsInOrder'
<1>1. \A t \in nCommitted..pdone[0] :
        t <= nSubmitted' => ctxRoot[Slot(t)] = UpdatesUpTo(t)
  <2>1. nCommitted \in Nat /\ pdone[0] \in Nat /\ nSubmitted \in Nat
    BY PipesAreIds DEF RootInv, IInv, TypeOK
  <2>2. \A t \in nCommitted..pdone[0] : t <= nSubmitted' => t <= nSubmitted
    BY <2>1
  <2> QED
    BY <2>2 DEF RootInv, RootsInOrder
<1> QED
  BY <1>1 DEF RootInv, RootsInOrder, UpdatesUpTo, IsCheckpoint

\* The next id of ENTRY, while it is an update or a checkpoint, follows one
\* whose root is complete.
LEMMA EntryRoots ==
    ASSUME RootInv, TypeOK', Ready(0), Advance(0),
           UNCHANGED <<counters, mpc, mNext>>,
           LET t == Tid(0) IN
           \/ t > nSubmitted /\ ctxRoot' = ctxRoot
           \/ \E r : /\ ctxRoot' = [ctxRoot EXCEPT ![Slot(t)] = r]
                     /\ t <= nSubmitted => r = UpdatesUpTo(t)
    PROVE  RootsInOrder'
<1> USE DEF counters
<1> DEFINE u == Tid(0)
<1>1. /\ u = pdone[0] + 1 /\ pdone[0] \in Nat /\ nCommitted \in Nat
      /\ u \in Nat /\ u > nCommitted /\ u < nCommitted + BufferSize
      /\ Slot(u) \in Slots /\ TypeOK
  BY ReadyId, PipesAreIds, SlotInRing DEF RootInv, IInv, TypeOK, Tid
<1>2. pdone'[0] = u
  BY <1>1, PipesAreIds DEF Advance, TypeOK
<1>3. \A t \in nCommitted..pdone[0] : Slot(t) # Slot(u) /\ Slot(t) \in Slots
  <2> SUFFICES ASSUME NEW t \in nCommitted..pdone[0]
               PROVE  Slot(t) # Slot(u) /\ Slot(t) \in Slots
    OBVIOUS
  <2>1. t \in Nat /\ nCommitted <= t /\ t < u /\ t < nCommitted + BufferSize
    BY <1>1, Constants
  <2> QED
    BY <1>1, <2>1, OtherSlot, SlotInRing
<1>4. \A t \in nCommitted..pdone[0] : ctxRoot'[Slot(t)] = ctxRoot[Slot(t)]
  BY <1>3 DEF TypeOK
<1>5. u <= nSubmitted => ctxRoot'[Slot(u)] = UpdatesUpTo(u)
  BY <1>1 DEF TypeOK
<1>6. \A t \in nCommitted..u :
        t <= nSubmitted => ctxRoot'[Slot(t)] = UpdatesUpTo(t)
  <2> SUFFICES ASSUME NEW t \in nCommitted..u, t <= nSubmitted
               PROVE  ctxRoot'[Slot(t)] = UpdatesUpTo(t)
    OBVIOUS
  <2>1. CASE t = u
    BY <1>5, <2>1
  <2>2. CASE t # u
    <3>1. t \in nCommitted..pdone[0]
      BY <1>1, <2>2
    <3> QED
      BY <1>4, <3>1 DEF RootInv, RootsInOrder
  <2> QED
    BY <2>1, <2>2
<1> QED
  BY <1>2, <1>6 DEF RootInv, RootsInOrder, UpdatesUpTo, IsCheckpoint

\* The id before ENTRY's next one is in the window, with its root.
LEMMA PrevRoot ==
    ASSUME RootInv, Ready(0), Tid(0) <= nSubmitted
    PROVE  /\ ctxRoot[Slot(Tid(0) - 1)] = UpdatesUpTo(Tid(0) - 1)
           /\ Tid(0) \in Nat /\ Tid(0) > 0
           /\ UpdatesUpTo(Tid(0)) = IF IsCheckpoint(Tid(0))
                                    THEN UpdatesUpTo(Tid(0) - 1)
                                    ELSE UpdatesUpTo(Tid(0) - 1) \union {Tid(0)}
<1>1. /\ Tid(0) = pdone[0] + 1 /\ pdone[0] \in Nat /\ nCommitted \in Nat
      /\ Tid(0) > nCommitted /\ nSubmitted \in Nat
  BY ReadyId, PipesAreIds DEF RootInv, IInv, TypeOK, Tid
<1>2. Tid(0) - 1 \in nCommitted..pdone[0] /\ Tid(0) - 1 <= nSubmitted
  BY <1>1
<1> QED
  BY <1>1, <1>2 DEF RootInv, RootsInOrder, UpdatesUpTo, IsCheckpoint

LEMMA EntryRootsStep == RootInv /\ IInv' /\ Entry => RootsInOrder'
<1> SUFFICES ASSUME RootInv, IInv', Entry PROVE RootsInOrder'
  OBVIOUS
<1> USE DEF monitor, ctxs
<1> DEFINE u == Tid(0)
<1>1. TypeOK' /\ IInv
  BY DEF IInv, RootInv
<1>2. CASE EntryCheckpoint
  <2>1. Tid(0) <= nSubmitted => ctxRoot[Slot(u - 1)] = UpdatesUpTo(u)
    BY <1>2, PrevRoot DEF EntryCheckpoint
  <2> QED
    BY <1>1, <1>2, <2>1, EntryRoots DEF EntryCheckpoint
<1>3. CASE EntrySkip
  <2>1. Tid(0) <= nSubmitted => ctxRoot[Slot(u - 1)] = UpdatesUpTo(u)
    BY <1>3, PrevRoot DEF EntrySkip
  <2> QED
    BY <1>1, <1>3, <2>1, EntryRoots DEF EntrySkip
<1>4. CASE EntryTask
  <2>1. sno[Slot(u)] = u
    BY <1>1, <1>4, ReadyId, PipesAreIds, Constants
    DEF EntryTask, IInv, PublishedSlots, PublishedSlot
  <2>2. Tid(0) <= nSubmitted =>
          ctxRoot[Slot(u - 1)] \union {sno[Slot(u)]} = UpdatesUpTo(u)
    BY <1>4, <2>1, PrevRoot DEF EntryTask
  <2> QED
    BY <1>1, <1>4, <2>2, EntryRoots DEF EntryTask
<1>5. CASE EntryBubble
  <2>1. Tid(0) > nSubmitted
    <3>1. EntryMeetsInit /\ u \in Nat /\ nSubmitted \in Nat
      BY <1>1, IInvEntryMeetsInit, PipeTypes, PipesAreIds DEF IInv, TypeOK
    <3> QED
      BY <1>5, <3>1 DEF EntryBubble, EntryMeetsInit
  <2> QED
    BY <1>1, <1>5, <2>1, EntryRoots DEF EntryBubble
<1> QED
  BY <1>2, <1>3, <1>4, <1>5 DEF Entry

LEMMA RootsStep == RootInv /\ [Next]_vars => RootInv'
<1> SUFFICES ASSUME RootInv, [Next]_vars PROVE RootInv'
  OBVIOUS
<1> USE DEF counters, ctxs, pipes, monitor
<1>1. IInv /\ IInv' /\ TypeOK /\ TypeOK'
  BY StepInv DEF RootInv, IInv
<1>2. ASSUME NEW c \in Clients, Claim(c) \/ Submitting(c) PROVE RootsInOrder'
  <2>1. CASE Claim(c) \/ PublishCheckpoint(c)
    <3>1. mpc # "exited"
      BY <1>1, <2>1 DEF Claim, PublishCheckpoint, IInv, StopInOrder
    <3>2. pdone[0] <= nSubmitted
      BY <1>1, <3>1, PipesAreIds DEF IInv, CountersInOrder, TypeOK
    <3> QED
      BY <2>1, <3>2, RootsKept DEF Claim, PublishCheckpoint
  <2>2. CASE Enter(c) \/ Write(c) \/ Publish(c)
    BY <2>2, RootsKept DEF Enter, Write, Publish
  <2> QED
    BY <1>2, <2>1, <2>2 DEF Submitting
<1>3. ASSUME Entry PROVE RootsInOrder'
  BY <1>1, <1>3, EntryRootsStep
<1>4. ASSUME NEW p \in InnerPipes, Inner(p) PROVE RootsInOrder'
  <2>1. pdone'[0] = pdone[0]
    BY <1>1, <1>4, InnerId DEF Inner, InnerTask, InnerPass
  <2> QED
    BY <1>4, <2>1, RootsKept DEF Inner, InnerTask, InnerPass
<1>5. ASSUME Exit PROVE RootsInOrder'
  <2>1. pdone'[0] = pdone[0]
    BY <1>1, <1>5, ExitId DEF Exit, ExitHandOff, ExitDone
  <2> QED
    BY <1>5, <2>1, RootsKept DEF Exit, ExitHandOff, ExitDone
<1>6. ASSUME NEW p \in Pipes, Batch(p) PROVE RootsInOrder'
  BY <1>6, RootsKept DEF Batch, NextBatch, Drain, PipeExit
<1>7. ASSUME NEW w \in Workers, Worker(w) PROVE RootsInOrder'
  BY <1>7, RootsKept
  DEF Worker, Take, Exec, StoreStage, Finish, Push, WorkerExit
<1>8. ASSUME Monitor PROVE RootsInOrder'
  <2>1. CASE ReadCounters \/ ScanInited \/ AdvanceInited \/ NothingCommitted
             \/ AppendBubbles
    <3>1. /\ UNCHANGED <<nSubmitted, nCommitted, root, ctxRoot, pdone, mNext>>
          /\ mpc # "root" /\ mpc' # "root"
      BY <2>1
      DEF ReadCounters, ScanInited, AdvanceInited, NothingCommitted, AppendBubbles
    <3> QED
      BY <3>1 DEF RootInv, RootsInOrder, UpdatesUpTo, IsCheckpoint
  <2>2. CASE ScanCommitted
    BY <2>2 DEF ScanCommitted, RootInv, RootsInOrder, UpdatesUpTo, IsCheckpoint
  <2>3. CASE StoreRoot
    <3>1. mNext \in nCommitted..pdone[0] /\ mNext <= nSubmitted
      BY <1>1, PipesAreIds, Constants DEF IInv, CountersInOrder, TypeOK
    <3>2. root' = UpdatesUpTo(mNext)
      BY <2>3, <3>1 DEF StoreRoot, RootInv, RootsInOrder
    <3> QED
      BY <2>3, <3>2 DEF StoreRoot, RootInv, RootsInOrder, UpdatesUpTo, IsCheckpoint
  <2>4. CASE StoreCommitted
    <3>1. \A t \in mNext..pdone[0] : t \in nCommitted..pdone[0]
      BY <1>1, PipesAreIds DEF IInv, CountersInOrder, TypeOK
    <3> QED
      BY <2>4, <3>1
      DEF StoreCommitted, RootInv, RootsInOrder, UpdatesUpTo, IsCheckpoint
  <2> QED
    BY <1>8, <2>1, <2>2, <2>3, <2>4 DEF Monitor
<1>9. ASSUME Stop \/ StopWorkers PROVE RootsInOrder'
  BY <1>9, RootsKept DEF Stop, StopWorkers
<1>10. ASSUME UNCHANGED vars PROVE RootsInOrder'
  BY <1>10, RootsKept DEF vars
<1> QED
  BY <1>1, <1>2, <1>3, <1>4, <1>5, <1>6, <1>7, <1>8, <1>9, <1>10
  DEF Next, RootInv

\* Every id is where the counters say it is, and every root holds the updates
\* of its prefix.
THEOREM RootInvariance == Spec => []RootInv
<1>1. Init => RootInv
  BY InitInv, RootsInit DEF RootInv
<1>2. RootInv /\ [Next]_vars => RootInv'
  BY RootsStep
<1> QED
  BY <1>1, <1>2, PTL DEF Spec

LEMMA RootInvComplete == RootInv => RootComplete
<1> SUFFICES ASSUME RootInv PROVE RootComplete
  OBVIOUS
<1> DEFINE n == IF mpc = "root" THEN mNext ELSE nCommitted
<1>1. /\ nCommitted \in Nat /\ mNext \in Nat /\ nCommitted <= mNext
      /\ mNext <= mInited /\ mInited \in Nat
  BY DEF RootInv, IInv, CountersInOrder, TypeOK
<1>2. n \in nCommitted..mNext /\ root = UpdatesUpTo(n)
  BY <1>1 DEF RootInv, RootsInOrder
<1>3. \A t \in (nCommitted + 1)..n : op[Slot(t)] = DONE
  <2> SUFFICES ASSUME NEW t \in (nCommitted + 1)..n PROVE op[Slot(t)] = DONE
    OBVIOUS
  <2>1. t \in Nat /\ nCommitted < t /\ t <= mNext /\ t <= mInited
    BY <1>1, <1>2
  <2>2. PublishedSlot(t)
    BY <2>1, InitedPublished DEF RootInv, IInv, PublishedSlots
  <2> QED
    BY <2>1, <2>2 DEF PublishedSlot
<1>4. \A w \in Workers : HasTask(w) => wtid[w] > n
  BY <1>1, <1>2, TaskId DEF RootInv, IInv, WorkersInOrder
<1> QED
  BY <1>2, <1>3, <1>4 DEF RootComplete

\* Readers get a whole prefix of the updates that no worker still works on.
THEOREM ReadersGetPrefix == Spec => []RootComplete
<1>1. RootInv => RootComplete
  BY RootInvComplete
<1> QED
  BY <1>1, RootInvariance, PTL

-------------------------------------------------------------------------------
(* Refinement *)

LEMMA PromiseInit == Init => OC!Init
BY DEF Init, OC!Init

LEMMA PromiseStep == RootInv /\ RootInv' /\ [Next]_vars => [OC!Next]_(OC!vars)
<1> SUFFICES ASSUME RootInv, RootInv', [Next]_vars PROVE [OC!Next]_(OC!vars)
  OBVIOUS
<1> USE DEF counters
<1>1. \A n : OC!UpdatesUpTo(n) = UpdatesUpTo(n)
  BY DEF UpdatesUpTo, OC!UpdatesUpTo, IsCheckpoint
<1>2. /\ nCommitted \in Nat /\ mNext \in Nat /\ nSubmitted \in Nat
      /\ nCommitted <= mNext /\ mNext <= nSubmitted
  BY DEF RootInv, IInv, CountersInOrder, TypeOK
<1>3. ASSUME NEW c \in Clients, Claim(c) \/ PublishCheckpoint(c)
      PROVE  OC!Next
  BY <1>3 DEF Claim, PublishCheckpoint, OC!Next, OC!Submit
<1>4. ASSUME StoreRoot PROVE [OC!Next]_(OC!vars)
  <2>1. mNext \in 1..nSubmitted
    BY <1>2, <1>4 DEF StoreRoot
  <2>2. root = UpdatesUpTo(nCommitted) /\ root' = UpdatesUpTo(mNext)
    BY <1>4 DEF StoreRoot, RootInv, RootsInOrder, UpdatesUpTo, IsCheckpoint
  <2>3. root \subseteq UpdatesUpTo(mNext)
    BY <1>2, <2>2 DEF UpdatesUpTo
  <2>4. CASE root = UpdatesUpTo(mNext)
    BY <1>4, <2>2, <2>4 DEF StoreRoot, OC!vars
  <2>5. CASE root # UpdatesUpTo(mNext)
    <3>1. OC!Expose(mNext)
      BY <1>1, <1>4, <2>2, <2>3, <2>5 DEF StoreRoot, OC!Expose
    <3> QED
      BY <2>1, <3>1 DEF OC!Next
  <2> QED
    BY <2>4, <2>5
<1>5. ASSUME StoreCommitted PROVE [OC!Next]_(OC!vars)
  <2>1. CASE mNext = nCommitted
    BY <1>5, <2>1 DEF StoreCommitted, OC!vars
  <2>2. CASE mNext # nCommitted
    <3>1. mNext \in 1..nSubmitted /\ mNext > nCommitted
      BY <1>2, <2>2
    <3>2. root = UpdatesUpTo(mNext)
      BY <1>5 DEF StoreCommitted, RootInv, RootsInOrder
    <3>3. OC!Commit(mNext)
      BY <1>1, <1>5, <3>1, <3>2 DEF StoreCommitted, OC!Commit
    <3> QED
      BY <3>1, <3>3 DEF OC!Next
  <2> QED
    BY <2>1, <2>2
<1>6. ASSUME UNCHANGED <<nSubmitted, nCommitted, root>>
      PROVE  [OC!Next]_(OC!vars)
  BY <1>6 DEF OC!vars
<1>7. ASSUME NEW c \in Clients, Enter(c) \/ Write(c) \/ Publish(c)
      PROVE  UNCHANGED <<nSubmitted, nCommitted, root>>
  BY <1>7 DEF Enter, Write, Publish
<1>8. ASSUME Entry PROVE UNCHANGED <<nSubmitted, nCommitted, root>>
  BY <1>8 DEF Entry, EntryCheckpoint, EntrySkip, EntryTask, EntryBubble
<1>9. ASSUME NEW p \in InnerPipes, Inner(p)
      PROVE  UNCHANGED <<nSubmitted, nCommitted, root>>
  BY <1>9 DEF Inner, InnerTask, InnerPass
<1>10. ASSUME Exit PROVE UNCHANGED <<nSubmitted, nCommitted, root>>
  BY <1>10 DEF Exit, ExitHandOff, ExitDone
<1>11. ASSUME NEW p \in Pipes, Batch(p)
       PROVE  UNCHANGED <<nSubmitted, nCommitted, root>>
  BY <1>11 DEF Batch, NextBatch, Drain, PipeExit
<1>12. ASSUME NEW w \in Workers, Worker(w)
       PROVE  UNCHANGED <<nSubmitted, nCommitted, root>>
  BY <1>12 DEF Worker, Take, Exec, StoreStage, Finish, Push, WorkerExit
<1>13. ASSUME ReadCounters \/ ScanInited \/ AdvanceInited \/ ScanCommitted
              \/ NothingCommitted \/ AppendBubbles \/ Stop \/ StopWorkers
       PROVE  UNCHANGED <<nSubmitted, nCommitted, root>>
  BY <1>13 DEF ReadCounters, ScanInited, AdvanceInited, ScanCommitted,
               NothingCommitted, AppendBubbles, Stop, StopWorkers
<1>14. ASSUME UNCHANGED vars PROVE UNCHANGED <<nSubmitted, nCommitted, root>>
  BY <1>14 DEF vars
<1> QED
  BY <1>3, <1>4, <1>5, <1>6, <1>7, <1>8, <1>9, <1>10, <1>11, <1>12, <1>13, <1>14
  DEF Next, Submitting, Monitor

\* The pipelined scheduler implements the promise of its interface.
THEOREM KeepsPromise == Spec => OrderedCommitSpec
<1>1. Init => OC!Init
  BY PromiseInit
<1>2. RootInv /\ RootInv' /\ [Next]_vars => [OC!Next]_(OC!vars)
  BY PromiseStep
<1> QED
  BY <1>1, <1>2, RootInvariance, PTL DEF Spec, OrderedCommitSpec, OC!Spec

-------------------------------------------------------------------------------
\* The contract of the tree handlers.

LEMMA LevelBounds ==
    ASSUME NEW k \in Nat
    PROVE  /\ Level(k) \in Nat /\ Level(k) <= k /\ Level(k) <= Boundary + 1
           /\ Level(k) <= Level(k + 1)
           /\ k <= Boundary => Level(k) = k /\ Level(k + 1) = k + 1
           /\ k > Boundary => Level(k + 1) = Boundary + 1
BY Constants DEF Level

\* A step that leaves the slot of a task and its place in the pipes alone.
LEMMA TaskKept ==
    ASSUME NEW t, TaskInOrder(t),
           op'[Slot(t)] = op[Slot(t)],
           waitChild'[Slot(t)] = waitChild[Slot(t)],
           stages'[Slot(t)] = stages[Slot(t)],
           pastVer'[Slot(t)] = pastVer[Slot(t)],
           \A p \in Pipes : /\ t <= pdone'[p] <=> t <= pdone[p]
                            /\ t > pdone'[p] <=> t > pdone[p]
    PROVE  TaskInOrder(t)'
<1>1. 0 \in Pipes /\ NPipes \in Pipes
  BY PipesAreIds
<1> QED
  BY <1>1 DEF TaskInOrder, Level

LEMMA TasksFrame ==
    ASSUME OrderInv, Published' \subseteq Published,
           UNCHANGED <<op, waitChild, stages, pastVer, pdone>>
    PROVE  TasksInOrder'
<1> SUFFICES ASSUME NEW t \in Published PROVE TaskInOrder(t)'
  BY DEF TasksInOrder
<1> QED
  BY TaskKept DEF OrderInv, TasksInOrder

\* A step of no task: who holds a task, and where it is, stays.
LEMMA StagesFrame ==
    ASSUME OrderInv, UNCHANGED <<wtid, wlast, wpc, wstage>>,
           \A w \in Workers : HasTask(w) =>
               op'[Slot(wtid[w])] = op[Slot(wtid[w])]
    PROVE  StagesInOrder'
BY DEF OrderInv, StagesInOrder, HasTask, Progress, Level

LEMMA VersionsFrame ==
    ASSUME OrderInv, UNCHANGED <<ctxRootVer, lastCheckpoint>>,
           pdone'[0] = pdone[0],
           nCommitted' \in Nat, nCommitted' >= nCommitted,
           nSubmitted' = nSubmitted \/ pdone[0] <= nSubmitted,
           \A t \in Published' : t \in Published \/ t > pdone[0]
    PROVE  VersionsInOrder'
<1>1. /\ nCommitted \in Nat /\ pdone[0] \in Nat /\ nSubmitted \in Nat
      /\ lastCheckpoint \in Nat
  BY PipesAreIds DEF OrderInv, RootInv, IInv, TypeOK
<1>2. VersionsInOrder
  BY DEF OrderInv
<1>3. \A t \in nCommitted'..pdone[0] : t <= nSubmitted' =>
         /\ ctxRootVer[Slot(t)] <= t
         /\ IsCheckpoint(t) \/ ctxRootVer[Slot(t)] = t
  <2>1. \A t \in nCommitted'..pdone[0] :
           t \in nCommitted..pdone[0] /\ (t <= nSubmitted' => t <= nSubmitted)
    BY <1>1
  <2> QED
    BY <1>2, <2>1 DEF VersionsInOrder
<1>4. \A t \in Published' : lastCheckpoint <= t
  <2>1. Published' \subseteq Int
    BY DEF Published
  <2> QED
    BY <1>1, <1>2, <2>1 DEF VersionsInOrder
<1> QED
  BY <1>2, <1>3, <1>4 DEF VersionsInOrder, IsCheckpoint

LEMMA RootsFrame ==
    ASSUME OrderInv, UNCHANGED ctxRoot,
           nSubmitted' \in Nat, nSubmitted' >= nSubmitted
    PROVE  RootsSubmitted'
<1>1. nSubmitted \in Nat
  BY DEF OrderInv, RootInv, IInv, TypeOK
<1>2. 1..nSubmitted \subseteq 1..nSubmitted'
  BY <1>1
<1> QED
  BY <1>2 DEF OrderInv, RootsSubmitted

\* A step that moves neither a task nor an id.
LEMMA OrderFrame ==
    ASSUME OrderInv, RootInv', Published' \subseteq Published,
           UNCHANGED <<nSubmitted, ctxs, stages, pdone, lastCheckpoint,
                       wtid, wlast, wpc, wstage>>,
           nCommitted' >= nCommitted
    PROVE  OrderInv'
<1> USE DEF ctxs
<1>1. nCommitted' \in Nat /\ nSubmitted' \in Nat /\ nSubmitted \in Nat
  BY DEF OrderInv, RootInv, IInv, TypeOK
<1>2. TasksInOrder'
  BY TasksFrame
<1>3. StagesInOrder'
  BY StagesFrame
<1>4. VersionsInOrder'
  BY <1>1, VersionsFrame
<1>5. RootsSubmitted'
  BY <1>1, RootsFrame
<1> QED
  BY <1>2, <1>3, <1>4, <1>5 DEF OrderInv

-------------------------------------------------------------------------------
(* Clients *)

\* While a client is in update() the pipes have seen submitted ids only.
LEMMA PipesSubmitted ==
    ASSUME IInv, mpc # "exited"
    PROVE  pdone[0] <= nSubmitted
<1>1. pdone[0] <= pace[0] /\ pace[0] <= mInited /\ mInited <= nSubmitted
  BY DEF IInv, CountersInOrder
<1> QED
  BY <1>1, PipesAreIds DEF IInv, TypeOK

\* An id and the other published ids have different slots.
LEMMA OtherTask ==
    ASSUME IInv, NEW u \in Nat, nCommitted < u, u < nCommitted + BufferSize,
           NEW t \in Published, t # u
    PROVE  Slot(t) # Slot(u) /\ Slot(t) \in Slots /\ t \in Nat
BY SlotsApart

LEMMA ClaimOrder ==
    ASSUME OrderInv, RootInv', NEW c \in Clients, Claim(c)
    PROVE  OrderInv'
<1> USE DEF counters, ctxs, pipes, workers, clients, monitor
<1>1. IInv /\ nSubmitted \in Nat /\ nCommitted \in Nat /\ ctid \in [Clients -> Nat]
  BY DEF OrderInv, RootInv, IInv, TypeOK
<1>2. \A t : Held(t) => Held(t)'
  <2>1. \A d \in Clients : cpc[d] # "idle" => cpc'[d] # "idle" /\ ctid'[d] = ctid[d]
    BY <1>1 DEF Claim, IInv, TypeOK
  <2> QED
    BY <2>1 DEF Held
<1>3. Held(nSubmitted)' /\ nSubmitted' = nSubmitted + 1
  BY <1>1 DEF Claim, Held, IInv, TypeOK
<1>4. Published' \subseteq Published
  BY <1>1, <1>2, <1>3 DEF Published, Claim
<1>5. pdone[0] <= nSubmitted
  BY <1>1, PipesSubmitted DEF Claim, IInv, StopInOrder
<1>6. TasksInOrder' /\ StagesInOrder'
  BY <1>4, TasksFrame, StagesFrame DEF Claim
<1>7. VersionsInOrder' /\ RootsSubmitted'
  BY <1>1, <1>4, <1>5, VersionsFrame, RootsFrame DEF Claim
<1> QED
  BY <1>6, <1>7 DEF OrderInv

LEMMA PublishCheckpointOrder ==
    ASSUME OrderInv, RootInv', NEW c \in Clients, PublishCheckpoint(c)
    PROVE  OrderInv'
<1> USE DEF counters, ctxs, pipes, workers, clients, monitor
<1> DEFINE u == ctid[c]
<1>1. /\ IInv /\ IInv' /\ nSubmitted \in Nat /\ nCommitted \in Nat
      /\ ctid \in [Clients -> Nat] /\ pdone[0] \in Nat
      /\ stages \in [Slots -> Nat]
  BY PipesAreIds DEF OrderInv, RootInv, IInv, TypeOK
<1>2. /\ u \in Nat /\ u > pdone[0] /\ mpc # "exited"
  BY <1>1, ClaimedId DEF PublishCheckpoint
<1>3. \A t : Held(t) => Held(t)' \/ t = u
  <2>1. \A d \in Clients \ {c} : cpc'[d] = cpc[d] /\ ctid'[d] = ctid[d]
    BY DEF PublishCheckpoint, IInv, TypeOK
  <2> QED
    BY <2>1 DEF Held
<1>4. Held(nSubmitted)' /\ nSubmitted' = nSubmitted + 1
  BY <1>1 DEF PublishCheckpoint, Held, IInv, TypeOK
<1>5. Published' \subseteq Published \union {u}
  BY <1>1, <1>3, <1>4 DEF Published, PublishCheckpoint
<1>6. op[0] = DONE /\ op' = op /\ 0 \in Slots
  BY <1>1, Constants DEF PublishCheckpoint, IInv, VacantSlots, Slots
<1>7. pdone[0] <= nSubmitted
  BY <1>1, <1>2, PipesSubmitted
<1>8. TasksInOrder'
  <2> SUFFICES ASSUME NEW t \in Published' PROVE TaskInOrder(t)'
    BY DEF TasksInOrder
  <2>1. CASE Slot(t) = 0
    BY <1>6, <2>1 DEF TaskInOrder
  <2>2. CASE Slot(t) # 0
    <3>1. Slot(u) = 0
      BY <1>1, <1>2, CheckpointSlot DEF PublishCheckpoint, IInv, ClientsInOrder
    <3>2. t \in Published
      BY <1>5, <2>2, <3>1
    <3>3. stages'[Slot(t)] = stages[Slot(t)]
      BY <1>1, <2>2 DEF PublishCheckpoint
    <3> QED
      BY <3>2, <3>3, TaskKept DEF PublishCheckpoint, OrderInv, TasksInOrder
  <2> QED
    BY <2>1, <2>2
<1>9. StagesInOrder'
  BY StagesFrame DEF PublishCheckpoint
<1>10. VersionsInOrder' /\ RootsSubmitted'
  BY <1>1, <1>2, <1>5, <1>7, VersionsFrame, RootsFrame DEF PublishCheckpoint
<1> QED
  BY <1>8, <1>9, <1>10 DEF OrderInv

LEMMA WriteOrder ==
    ASSUME OrderInv, RootInv', NEW c \in Clients, Write(c)
    PROVE  OrderInv'
<1> USE DEF counters, ctxs, pipes, workers, clients, monitor
<1> DEFINE u == ctid[c]
<1>1. /\ IInv /\ nSubmitted \in Nat /\ nCommitted \in Nat
      /\ op \in [Slots -> 0..DONE] /\ waitChild \in [Slots -> {0, 1}]
  BY DEF OrderInv, RootInv, IInv, TypeOK
<1>2. /\ u \in Nat /\ nCommitted < u /\ u < nCommitted + BufferSize
      /\ Held(u) /\ Slot(u) \in Slots
  BY <1>1, ClaimedId, SlotInRing DEF Write, Writing
<1>3. \A t : Held(t)' <=> Held(t)
  <2>1. \A d \in Clients : (cpc'[d] # "idle" <=> cpc[d] # "idle") /\ ctid' = ctid
    BY DEF Write, OrderInv, RootInv, IInv, TypeOK
  <2> QED
    BY <2>1 DEF Held
<1>4. Published' = Published /\ u \notin Published
  BY <1>2, <1>3 DEF Published, Write
<1>5. \A t \in Published :
        op'[Slot(t)] = op[Slot(t)] /\ waitChild'[Slot(t)] = waitChild[Slot(t)]
  <2>1. \A t \in Published : Slot(t) # Slot(u) /\ Slot(t) \in Slots
    BY <1>1, <1>2, <1>4, OtherTask
  <2> QED
    BY <1>1, <2>1 DEF Write
<1>6. TasksInOrder'
  <2> SUFFICES ASSUME NEW t \in Published PROVE TaskInOrder(t)'
    BY <1>4 DEF TasksInOrder
  <2> QED
    BY <1>5, TaskKept DEF Write, OrderInv, TasksInOrder
<1>7. StagesInOrder'
  <2>1. \A w \in Workers : HasTask(w) => wtid[w] \in Published
    BY <1>1, TaskId
  <2> QED
    BY <1>5, <2>1, StagesFrame DEF Write
<1>8. VersionsInOrder' /\ RootsSubmitted'
  BY <1>1, <1>4, VersionsFrame, RootsFrame DEF Write
<1> QED
  BY <1>6, <1>7, <1>8 DEF OrderInv

LEMMA PublishOrder ==
    ASSUME OrderInv, RootInv', NEW c \in Clients, Publish(c)
    PROVE  OrderInv'
<1> USE DEF counters, ctxs, pipes, workers, clients, monitor
<1> DEFINE u == ctid[c]
<1>1. /\ IInv /\ nSubmitted \in Nat /\ nCommitted \in Nat
      /\ stages \in [Slots -> Nat] /\ pdone \in [Pipes -> Nat]
  BY DEF OrderInv, RootInv, IInv, TypeOK
<1>2. /\ u \in Nat /\ nCommitted < u /\ u < nCommitted + BufferSize
      /\ Held(u) /\ u > pdone[0] /\ u \in Vacant /\ VacantSlot(u)
      /\ Slot(u) \in Slots
  BY <1>1, ClaimedId, SlotInRing DEF Publish, Writing
<1>3. \A t : Held(t) => Held(t)' \/ t = u
  <2>1. \A d \in Clients \ {c} : cpc'[d] = cpc[d]
    BY DEF Publish, OrderInv, RootInv, IInv, TypeOK
  <2> QED
    BY <2>1 DEF Held, Publish
<1>4. Published' \subseteq Published \union {u} /\ u \notin Published
  BY <1>2, <1>3 DEF Published, Publish
<1>5. op[Slot(u)] = 0 /\ waitChild[Slot(u)] = 0
  BY <1>2 DEF VacantSlot, Publish
<1>6. \A p \in Pipes : u > pdone[p]
  <2>1. \A p \in Pipes : 0 <= p /\ pdone[p] <= pdone[0]
    BY <1>1, PipesAreIds DEF IInv, CountersInOrder, Pipes
  <2> QED
    BY <1>1, <1>2, <2>1, PipesAreIds
<1>7. TasksInOrder'
  <2> SUFFICES ASSUME NEW t \in Published' PROVE TaskInOrder(t)'
    BY DEF TasksInOrder
  <2>1. CASE t = u
    <3>1. \A p \in Pipes : 0 <= Level(p)
      BY Constants DEF Level, Pipes
    <3>4. \A p \in Pipes : ~(u <= pdone[p])
      BY <1>1, <1>2, <1>6
    <3>2. 0 < MaxOps /\ ~(0 > Boundary)
      BY Constants, HandlersAssumption
    <3> QED
      BY <1>5, <2>1, <3>1, <3>2, <3>4, PipesAreIds DEF TaskInOrder, Publish, Level
  <2>2. CASE t # u
    <3>1. t \in Published
      BY <1>4, <2>2
    <3>2. Slot(t) # Slot(u) /\ Slot(t) \in Slots
      BY <1>1, <1>2, <2>2, <3>1, OtherTask
    <3>3. stages'[Slot(t)] = stages[Slot(t)]
      BY <1>1, <3>2 DEF Publish
    <3> QED
      BY <3>1, <3>3, TaskKept DEF Publish, OrderInv, TasksInOrder
  <2> QED
    BY <2>1, <2>2
<1>8. StagesInOrder'
  BY StagesFrame DEF Publish
<1>9. VersionsInOrder' /\ RootsSubmitted'
  BY <1>1, <1>2, <1>4, VersionsFrame, RootsFrame DEF Publish
<1> QED
  BY <1>7, <1>8, <1>9 DEF OrderInv

-------------------------------------------------------------------------------
(* Pipes *)

\* A pipe that goes on passes one id; nothing else changes its place.
LEMMA AdvanceIds ==
    ASSUME IInv, NEW p \in Pipes, Advance(p)
    PROVE  /\ Tid(p) = pdone[p] + 1 /\ Tid(p) \in Nat
           /\ pdone'[p] = Tid(p)
           /\ \A q \in Pipes \ {p} : pdone'[q] = pdone[q]
           /\ \A t \in Nat \ {Tid(p)} : \A q \in Pipes :
                /\ t <= pdone'[q] <=> t <= pdone[q]
                /\ t > pdone'[q] <=> t > pdone[q]
<1>1. /\ pdone \in [Pipes -> Nat]
      /\ Tid(p) = pdone[p] + 1 /\ Tid(p) \in Nat
  BY DEF IInv, TypeOK, Tid
<1>2. pdone'[p] = Tid(p) /\ \A q \in Pipes \ {p} : pdone'[q] = pdone[q]
  BY <1>1 DEF Advance
<1>3. \A t \in Nat \ {Tid(p)} :
        (t <= pdone'[p] <=> t <= pdone[p]) /\ (t > pdone'[p] <=> t > pdone[p])
  BY <1>1, <1>2
<1> QED
  BY <1>1, <1>2, <1>3

\* The tasks but the one a pipe is at, when it runs no handler of theirs.
LEMMA OtherTasksKept ==
    ASSUME OrderInv, NEW p \in Pipes, Ready(p), Advance(p),
           \A s \in Slots \ {Slot(Tid(p))} :
               /\ op'[s] = op[s] /\ waitChild'[s] = waitChild[s]
               /\ stages'[s] = stages[s] /\ pastVer'[s] = pastVer[s]
    PROVE  \A t \in Published \ {Tid(p)} : TaskInOrder(t)'
<1> SUFFICES ASSUME NEW t \in Published \ {Tid(p)} PROVE TaskInOrder(t)'
  OBVIOUS
<1>1. IInv
  BY DEF OrderInv, RootInv
<1>2. Slot(t) # Slot(Tid(p)) /\ Slot(t) \in Slots /\ t \in Nat
  BY <1>1, ReadyId, OtherTask
<1> QED
  BY <1>1, <1>2, AdvanceIds, TaskKept DEF OrderInv, TasksInOrder

\* The next id of ENTRY, while it is submitted, is published; once it is not,
\* no published id is left.
LEMMA EntryId ==
    ASSUME IInv, Ready(0)
    PROVE  IF Tid(0) <= nSubmitted THEN Tid(0) \in Published
                                   ELSE Published = {}
<1>1. /\ pdone[0] \in Nat /\ pace[0] \in Nat /\ mInited \in Nat
      /\ nSubmitted \in Nat /\ nCommitted \in Nat /\ Tid(0) = pdone[0] + 1
      /\ mInited <= nSubmitted
  BY PipesAreIds DEF IInv, TypeOK, Tid, CountersInOrder
<1>2. CASE Tid(0) <= nSubmitted
  BY <1>1, <1>2, ReadyId, PipesAreIds
<1>3. CASE Tid(0) > nSubmitted
  <2>1. pace[0] > mInited
    BY <1>1, <1>3 DEF Ready
  <2>2. nCommitted = nSubmitted
    BY <1>1, <2>1 DEF IInv, CountersInOrder, StopInOrder
  <2> QED
    BY <1>1, <1>3, <2>2 DEF Published
<1> QED
  BY <1>1, <1>2, <1>3

\* ENTRY passes an id with no handler left to run.
LEMMA EntryPassTasks ==
    ASSUME OrderInv, Ready(0), Advance(0), Published' = Published,
           UNCHANGED <<op, waitChild, stages, pastVer, workers>>,
           IsCheckpoint(Tid(0)) \/ Tid(0) > nSubmitted
    PROVE  TasksInOrder' /\ StagesInOrder'
<1> USE DEF workers
<1> DEFINE u == Tid(0)
<1>1. IInv /\ nSubmitted \in Nat /\ u \in Nat
  BY PipesAreIds, PipeTypes DEF OrderInv, RootInv, IInv, TypeOK
<1>2. u \in Published => op[Slot(u)] = DONE
  <2>1. u > nSubmitted => u \notin Published
    BY <1>1 DEF Published
  <2>2. IsCheckpoint(u) => Slot(u) = 0
    BY <1>1, CheckpointSlot
  <2> QED
    BY <1>1, <2>1, <2>2 DEF IInv, VacantSlots
<1>3. \A t \in Published \ {u} : TaskInOrder(t)'
  BY PipesAreIds, OtherTasksKept
<1>4. \A t \in Published : t = u => TaskInOrder(t)'
  BY <1>2 DEF TaskInOrder
<1>5. TasksInOrder'
  BY <1>3, <1>4 DEF TasksInOrder
<1> QED
  BY <1>5, StagesFrame

LEMMA PrevNotCheckpoint ==
    ASSUME NEW t \in Nat, t > 0, IsCheckpoint(t)
    PROVE  ~IsCheckpoint(t - 1)
<1>1. t - 1 \in Nat /\ t - 1 < t /\ t < (t - 1) + BufferSize
  BY Constants
<1>2. Slot(t - 1) # Slot(t)
  BY <1>1, SlotsDiffer
<1> QED
  BY <1>1, <1>2, CheckpointSlot

\* The version of the root before ENTRY's next id.
LEMMA PrevVersion ==
    ASSUME OrderInv, Ready(0), Tid(0) <= nSubmitted
    PROVE  LET u == Tid(0) IN
           /\ ctxRootVer[Slot(u - 1)] \in Nat /\ ctxRootVer[Slot(u - 1)] < u
           /\ IsCheckpoint(u) => ctxRootVer[Slot(u - 1)] = u - 1
<1> DEFINE u == Tid(0)
<1>1. /\ u = pdone[0] + 1 /\ pdone[0] \in Nat /\ nCommitted \in Nat
      /\ u > nCommitted /\ nSubmitted \in Nat /\ u \in Nat /\ u - 1 \in Nat
      /\ Slot(u - 1) \in Slots
  BY ReadyId, PipesAreIds, PipeTypes
  DEF OrderInv, RootInv, IInv, TypeOK, Tid
<1>2. ctxRootVer[Slot(u - 1)] \in Nat
  BY <1>1 DEF OrderInv, RootInv, IInv, TypeOK
<1>3. u - 1 \in nCommitted..pdone[0] /\ u - 1 <= nSubmitted
  BY <1>1
<1>4. /\ ctxRootVer[Slot(u - 1)] <= u - 1
      /\ IsCheckpoint(u - 1) \/ ctxRootVer[Slot(u - 1)] = u - 1
  BY <1>3 DEF OrderInv, VersionsInOrder
<1>5. IsCheckpoint(u) => ~IsCheckpoint(u - 1)
  BY <1>1, PrevNotCheckpoint
<1> QED
  BY <1>1, <1>2, <1>4, <1>5

\* What ENTRY leaves in the context of its next id.
LEMMA EntryVersions ==
    ASSUME OrderInv, RootInv', Ready(0), Advance(0), Published' = Published,
           UNCHANGED <<nSubmitted, nCommitted>>,
           LET u == Tid(0) IN
           /\ \/ u > nSubmitted /\ ctxRootVer' = ctxRootVer
              \/ \E v : /\ ctxRootVer' = [ctxRootVer EXCEPT ![Slot(u)] = v]
                        /\ u <= nSubmitted =>
                             v <= u /\ (IsCheckpoint(u) \/ v = u)
           /\ \/ lastCheckpoint' = lastCheckpoint
              \/ lastCheckpoint' = u /\ \A t \in Published : u <= t
    PROVE  VersionsInOrder'
<1> DEFINE u == Tid(0)
<1>1. /\ IInv /\ TypeOK /\ pdone[0] \in Nat /\ nCommitted \in Nat
      /\ nSubmitted \in Nat /\ ctxRootVer \in [Slots -> Nat]
      /\ lastCheckpoint \in Nat
      /\ u = pdone[0] + 1 /\ u \in Nat
      /\ u > nCommitted /\ u < nCommitted + BufferSize
      /\ Slot(u) \in Slots /\ pdone'[0] = u
  BY ReadyId, PipesAreIds, SlotInRing, AdvanceIds
  DEF OrderInv, RootInv, IInv, TypeOK, Tid
<1>2. \A t \in nCommitted..pdone[0] : ctxRootVer'[Slot(t)] = ctxRootVer[Slot(t)]
  <2> SUFFICES ASSUME NEW t \in nCommitted..pdone[0]
               PROVE  ctxRootVer'[Slot(t)] = ctxRootVer[Slot(t)]
    OBVIOUS
  <2>1. t \in Nat /\ nCommitted <= t /\ t < u /\ t < nCommitted + BufferSize
    BY <1>1, Constants
  <2>2. Slot(t) # Slot(u) /\ Slot(t) \in Slots
    BY <1>1, <2>1, OtherSlot, SlotInRing
  <2> QED
    BY <1>1, <2>2
<1>3. u <= nSubmitted => /\ ctxRootVer'[Slot(u)] <= u
                         /\ IsCheckpoint(u) \/ ctxRootVer'[Slot(u)] = u
  BY <1>1
<1>4. \A t \in nCommitted..u : t <= nSubmitted =>
        /\ ctxRootVer'[Slot(t)] <= t
        /\ IsCheckpoint(t) \/ ctxRootVer'[Slot(t)] = t
  <2> SUFFICES ASSUME NEW t \in nCommitted..u, t <= nSubmitted
               PROVE  /\ ctxRootVer'[Slot(t)] <= t
                      /\ IsCheckpoint(t) \/ ctxRootVer'[Slot(t)] = t
    OBVIOUS
  <2>1. CASE t = u
    BY <1>3, <2>1
  <2>2. CASE t # u
    <3>1. t \in nCommitted..pdone[0]
      BY <1>1, <2>2
    <3> QED
      BY <1>2, <3>1 DEF OrderInv, VersionsInOrder
  <2> QED
    BY <2>1, <2>2
<1>5. lastCheckpoint' <= u /\ \A t \in Published : lastCheckpoint' <= t
  BY <1>1 DEF OrderInv, VersionsInOrder
<1> QED
  BY <1>1, <1>4, <1>5 DEF VersionsInOrder, IsCheckpoint

\* The root of the id before, with or without a submitted update.
LEMMA EntryRootsSubmitted ==
    ASSUME OrderInv, UNCHANGED nSubmitted,
           NEW s \in Slots, NEW r, r \subseteq 1..nSubmitted,
           ctxRoot' = [ctxRoot EXCEPT ![s] = r]
    PROVE  RootsSubmitted'
BY DEF OrderInv, RootsSubmitted, RootInv, IInv, TypeOK

LEMMA EntryPassOrder ==
    ASSUME OrderInv, RootInv', EntryCheckpoint \/ EntrySkip \/ EntryBubble
    PROVE  OrderInv'
<1> USE DEF counters, ctxs, workers, clients, monitor
<1> DEFINE u == Tid(0)
           prev == Slot(u - 1)
<1>1. /\ IInv /\ nSubmitted \in Nat /\ nCommitted \in Nat /\ u \in Nat
      /\ u - 1 \in Nat /\ Slot(u) \in Slots /\ prev \in Slots
  BY PipesAreIds, PipeTypes DEF OrderInv, RootInv, IInv, TypeOK
<1>2. Ready(0) /\ Advance(0) /\ UNCHANGED <<nSubmitted, nCommitted, cpc, ctid>>
  BY DEF EntryCheckpoint, EntrySkip, EntryBubble
<1>3. Published' = Published
  BY <1>2, IdsKept
<1>4. IsCheckpoint(u) \/ u > nSubmitted
  <2>1. CASE EntryBubble
    BY <1>1, <1>2, <2>1, IInvEntryMeetsInit DEF EntryBubble, EntryMeetsInit
  <2> QED
    BY <2>1 DEF EntryCheckpoint, EntrySkip
<1>5. TasksInOrder' /\ StagesInOrder'
  BY <1>2, <1>3, <1>4, EntryPassTasks DEF EntryCheckpoint, EntrySkip, EntryBubble
<1>6. ctxRoot[prev] \subseteq 1..nSubmitted
  BY <1>1 DEF OrderInv, RootsSubmitted
<1>7. RootsSubmitted'
  <2>1. CASE EntryBubble
    BY <1>1, <2>1, RootsFrame DEF EntryBubble
  <2>2. CASE EntryCheckpoint \/ EntrySkip
    BY <1>1, <1>2, <1>6, <2>2, EntryRootsSubmitted DEF EntryCheckpoint, EntrySkip
  <2> QED
    BY <2>1, <2>2
<1>8. VersionsInOrder'
  <2>1. CASE EntryBubble
    <3>1. u > nSubmitted
      BY <1>4, <2>1 DEF EntryBubble
    <3> QED
      BY <1>2, <1>3, <2>1, <3>1, EntryVersions DEF EntryBubble
  <2>2. CASE EntrySkip
    <3>1. u <= nSubmitted => ctxRootVer[prev] <= u /\ IsCheckpoint(u)
      BY <1>1, <1>2, <2>2, PrevVersion DEF EntrySkip
    <3> QED
      BY <1>2, <1>3, <2>2, <3>1, EntryVersions DEF EntrySkip
  <2>3. CASE EntryCheckpoint
    <3>1. \A t \in Published : u <= t
      <4>1. CASE u <= nSubmitted
        <5>1. nCommitted >= u - 1
          BY <1>2, <2>3, <4>1, PrevVersion DEF EntryCheckpoint
        <5> QED
          BY <1>1, <5>1 DEF Published
      <4>2. CASE ~(u <= nSubmitted)
        BY <1>1, <1>2, <4>2, EntryId
      <4> QED
        BY <4>1, <4>2
    <3>2. 0 <= u /\ IsCheckpoint(u)
      BY <1>1, <2>3 DEF EntryCheckpoint
    <3> QED
      BY <1>2, <1>3, <2>3, <3>1, <3>2, EntryVersions DEF EntryCheckpoint
  <2> QED
    BY <2>1, <2>2, <2>3
<1> QED
  BY <1>5, <1>7, <1>8 DEF OrderInv

LEMMA EntryTaskOrder ==
    ASSUME OrderInv, RootInv', EntryTask
    PROVE  OrderInv'
<1> USE DEF counters, workers, clients, monitor
<1> DEFINE u == Tid(0)
           s == Slot(u)
           prev == Slot(u - 1)
<1>1. /\ IInv /\ nSubmitted \in Nat /\ nCommitted \in Nat /\ u \in Nat
      /\ s \in Slots /\ prev \in Slots /\ pdone \in [Pipes -> Nat]
      /\ op \in [Slots -> 0..DONE] /\ waitChild \in [Slots -> {0, 1}]
      /\ pastVer \in [Slots -> Nat]
  BY PipesAreIds, PipeTypes DEF OrderInv, RootInv, IInv, TypeOK
<1>2. Ready(0) /\ Advance(0) /\ UNCHANGED <<nSubmitted, nCommitted, cpc, ctid>>
  BY DEF EntryTask
<1>3. Published' = Published
  BY <1>2, IdsKept
<1>4. u \in Published /\ u <= nSubmitted /\ u > 0 /\ u > pdone[NPipes]
  <2>1. u \in Published /\ u > pdone[NPipes]
    BY <1>1, <1>2, ReadyId, PipesAreIds, Constants DEF EntryTask
  <2> QED
    BY <1>1, <2>1 DEF Published
<1>5. sno[s] = u /\ op[s] = 0 /\ waitChild[s] = 0
  <2>1. u > pdone[0] /\ ~IsCheckpoint(u)
    BY <1>1, PipesAreIds DEF Tid, EntryTask
  <2> QED
    BY <1>1, <1>4, <2>1 DEF IInv, PublishedSlots, PublishedSlot
<1>6. ctxRootVer[prev] < u
  BY <1>2, <1>4, PrevVersion
<1>7. TasksInOrder'
  <2>1. \A t \in Published \ {u} : TaskInOrder(t)'
    <3>1. \A r \in Slots \ {s} :
            /\ op'[r] = op[r] /\ waitChild'[r] = waitChild[r]
            /\ stages'[r] = stages[r] /\ pastVer'[r] = pastVer[r]
      BY <1>1 DEF EntryTask
    <3> QED
      BY <1>2, <3>1, PipesAreIds, OtherTasksKept
  <2>2. op'[s] # DONE => /\ op'[s] = 1 /\ pastVer'[s] < u
                         /\ waitChild'[s] = IF 1 > Boundary THEN 1 ELSE 0
    BY <1>1, <1>5, <1>6, Constants DEF EntryTask
  <2>3. \A p \in Pipes : u > pdone'[p] => 1 <= Level(p)
    <3>1. \A p \in Pipes : u > pdone'[p] => p # 0
      BY <1>1, <1>2, PipesAreIds, AdvanceIds
    <3> QED
      BY <3>1, Constants DEF Pipes, Level
  <2>4. \A p \in Pipes : u <= pdone'[p] => p = 0
    <3>1. \A p \in Pipes : pdone[p] <= pdone[0]
      BY <1>1, PipesAreIds DEF IInv, CountersInOrder, Pipes
    <3>2. \A p \in Pipes \ {0} : pdone'[p] = pdone[p]
      BY <1>1, <1>2, PipesAreIds, AdvanceIds
    <3>3. u = pdone[0] + 1
      BY DEF Tid
    <3> HIDE DEF u
    <3> QED
      BY <1>1, <3>1, <3>2, <3>3, PipesAreIds
  <2>5. Level(0 + 1) = 1 /\ NPipes # 0
    BY Constants DEF Level
  <2>6. 1 < MaxOps
    BY Constants, HandlersAssumption
  <2> HIDE DEF u, s
  <2>7. \A t \in Published : t = u /\ Slot(t) = s => TaskInOrder(t)'
    BY <2>2, <2>3, <2>4, <2>5, <2>6, PipesAreIds DEF TaskInOrder, Level
  <2> QED
    BY <1>3, <2>1, <2>7 DEF TasksInOrder, s
<1>8. StagesInOrder'
  <2>1. \A w \in Workers : HasTask(w) => Slot(wtid[w]) # s /\ Slot(wtid[w]) \in Slots
    <3>1. \A w \in Workers : HasTask(w) =>
            wtid[w] \in Published /\ wtid[w] <= pdone[0]
      BY <1>1, TaskId
    <3>2. u = pdone[0] + 1 /\ pdone[0] \in Nat /\ Published \subseteq Int
      BY <1>1, PipesAreIds DEF Tid, Published
    <3>3. \A w \in Workers : HasTask(w) => wtid[w] # u
      BY <3>1, <3>2
    <3>4. nCommitted < u /\ u < nCommitted + BufferSize
      BY <1>1, <1>2, ReadyId, PipesAreIds
    <3> HIDE DEF u
    <3> QED
      BY <1>1, <3>1, <3>3, <3>4, OtherTask DEF s
  <2> QED
    BY <1>1, <2>1, StagesFrame DEF EntryTask
<1>9. VersionsInOrder'
  <2>1. u <= u
    BY <1>1
  <2> QED
    BY <1>2, <1>3, <1>5, <2>1, EntryVersions DEF EntryTask
<1>10. RootsSubmitted'
  <2>1. ctxRoot[prev] \union {sno[s]} \subseteq 1..nSubmitted
    BY <1>1, <1>4, <1>5 DEF OrderInv, RootsSubmitted
  <2> QED
    BY <1>1, <1>2, <2>1, EntryRootsSubmitted DEF EntryTask
<1> QED
  BY <1>7, <1>8, <1>9, <1>10 DEF OrderInv

\* What a handler does to the task it runs for, and to no other.
LEMMA HandleOrder ==
    ASSUME OrderInv, NEW u \in Published, u <= pdone[0],
           op[Slot(u)] # DONE, Handle(Slot(u))
    PROVE  LET s == Slot(u) IN
           /\ \A r \in Slots \ {s} : /\ op'[r] = op[r]
                                     /\ waitChild'[r] = waitChild[r]
                                     /\ pastVer'[r] = pastVer[r]
           /\ op'[s] # DONE =>
                /\ op'[s] = op[s] + 1 /\ op'[s] < MaxOps
                /\ waitChild'[s] = IF op'[s] > Boundary THEN 1 ELSE 0
                /\ pastVer'[s] < u
<1> DEFINE s == Slot(u)
<1>1. /\ u \in Nat /\ s \in Slots /\ lastCheckpoint \in Nat
      /\ op \in [Slots -> 0..DONE] /\ waitChild \in [Slots -> {0, 1}]
      /\ pastVer \in [Slots -> Nat]
  BY WindowIds, SlotInRing DEF OrderInv, RootInv, IInv, TypeOK
<1>2. /\ waitChild[s] = IF op[s] > Boundary THEN 1 ELSE 0
      /\ pastVer[s] < u
  BY DEF OrderInv, TasksInOrder, TaskInOrder
<1>3. lastCheckpoint <= u
  BY DEF OrderInv, VersionsInOrder
<1>4. op[s] \in Nat /\ pastVer[s] \in Nat /\ Handle(s)
  BY <1>1
<1> HIDE DEF s
<1>5. \A r \in Slots \ {s} : /\ op'[r] = op[r]
                             /\ waitChild'[r] = waitChild[r]
                             /\ pastVer'[r] = pastVer[r]
  BY <1>1, <1>4 DEF Handle
<1>6. ASSUME op'[s] # DONE
      PROVE  /\ op'[s] = op[s] + 1 /\ op'[s] < MaxOps
             /\ waitChild'[s] = IF op'[s] > Boundary THEN 1 ELSE 0
             /\ pastVer'[s] < u
  <2>1. /\ op[s] + 1 < MaxOps /\ op'[s] = op[s] + 1
        /\ waitChild' = IF op[s] = Boundary
                        THEN [waitChild EXCEPT ![s] = 1] ELSE waitChild
        /\ pastVer'[s] \in Below(pastVer[s])
    BY <1>1, <1>4, <1>6 DEF Handle
  <2>2. pastVer'[s] < u
    BY <1>1, <1>2, <1>3, <1>4, <2>1 DEF Below
  <2>3. waitChild'[s] = IF op[s] + 1 > Boundary THEN 1 ELSE 0
    <3>1. op[s] = Boundary => waitChild'[s] = 1
      BY <1>1, <2>1
    <3>2. op[s] # Boundary => waitChild'[s] = waitChild[s]
      BY <2>1
    <3> QED
      BY <1>2, <1>4, <3>1, <3>2, Constants
  <2> QED
    BY <2>1, <2>2, <2>3
<1> QED
  BY <1>5, <1>6 DEF s

\* The ids of two pipes: the later pipe is behind.
LEMMA InnerPlace ==
    ASSUME IInv, NEW p \in InnerPipes, Ready(p), Advance(p)
    PROVE  /\ p \in Pipes /\ p # 0 /\ p # NPipes /\ p \in Nat
           /\ p - 1 \in Pipes \ {NPipes} /\ Tid(p) <= pdone[p - 1]
           /\ Tid(p) > pdone[p] /\ Tid(p) <= pdone[0]
           /\ \A q \in Pipes : Tid(p) > pdone'[q] => q > p /\ Tid(p) > pdone[q]
           /\ \A q \in Pipes : Tid(p) <= pdone'[q] => q <= p
           /\ pdone'[0] = pdone[0] /\ pdone'[NPipes] = pdone[NPipes]
<1> DEFINE u == Tid(p)
<1>1. /\ p \in Pipes /\ p # 0 /\ p # NPipes /\ p \in Nat /\ p > 0
      /\ p - 1 \in Pipes \ {NPipes} /\ 0 <= p - 1
  BY Constants DEF InnerPipes, Pipes
<1>2. /\ u = pdone[p] + 1 /\ u \in Nat /\ pdone'[p] = u
      /\ \A q \in Pipes \ {p} : pdone'[q] = pdone[q]
      /\ pdone \in [Pipes -> Nat]
  BY <1>1, AdvanceIds DEF IInv, TypeOK
<1>3. u <= pdone[p - 1] /\ pdone[p - 1] <= pdone[0]
  BY <1>1, PipesAreIds DEF Ready, IInv, CountersInOrder
<1>4. \A q, r \in Pipes : q <= r => pdone[r] <= pdone[q]
  BY DEF IInv, CountersInOrder
<1> HIDE DEF u
<1>5. \A q \in Pipes : u > pdone'[q] => q > p /\ u > pdone[q]
  <2> SUFFICES ASSUME NEW q \in Pipes, u > pdone'[q] PROVE q > p /\ u > pdone[q]
    OBVIOUS
  <2>1. q # p /\ u > pdone[q]
    BY <1>2
  <2>2. q < p => q <= p - 1
    BY <1>1 DEF Pipes
  <2>3. q < p => pdone[p - 1] <= pdone[q]
    BY <1>1, <1>4, <2>2
  <2>4. ~(q < p)
    BY <1>1, <1>2, <1>3, <2>1, <2>3
  <2> QED
    BY <1>1, <2>1, <2>4 DEF Pipes
<1>6. \A q \in Pipes : u <= pdone'[q] => q <= p
  <2> SUFFICES ASSUME NEW q \in Pipes, q > p PROVE ~(u <= pdone'[q])
    BY <1>1 DEF Pipes
  <2>1. pdone[q] <= pdone[p] /\ pdone'[q] = pdone[q]
    BY <1>1, <1>2, <1>4 DEF Pipes
  <2> QED
    BY <1>1, <1>2, <2>1
<1>7. u > pdone[p] /\ u <= pdone[0]
  BY <1>1, <1>2, <1>3, PipesAreIds
<1> QED
  BY <1>1, <1>2, <1>3, <1>5, <1>6, <1>7, PipesAreIds DEF u

\* The steps of INNER: what is left is the task the pipe is at.
LEMMA InnerFrame ==
    ASSUME OrderInv, RootInv', NEW p \in InnerPipes, Ready(p), Advance(p),
           UNCHANGED <<counters, stages, ctxRoot, ctxRootVer, lastCheckpoint,
                       workers, clients>>,
           \A r \in Slots \ {Slot(Tid(p))} : /\ op'[r] = op[r]
                                             /\ waitChild'[r] = waitChild[r]
                                             /\ pastVer'[r] = pastVer[r],
           \A t \in Published : t = Tid(p) => TaskInOrder(t)'
    PROVE  OrderInv'
<1> USE DEF counters, workers, clients
<1> DEFINE u == Tid(p)
<1>1. /\ IInv /\ p \in Pipes /\ pdone'[0] = pdone[0] /\ p # NPipes
      /\ nSubmitted \in Nat /\ nCommitted \in Nat
  BY InnerPlace DEF OrderInv, RootInv, IInv, TypeOK
<1>2. Published' = Published
  BY IdsKept
<1>3. TasksInOrder'
  <2>1. \A t \in Published \ {u} : TaskInOrder(t)'
    BY <1>1, OtherTasksKept
  <2> QED
    BY <1>2, <2>1 DEF TasksInOrder
<1>4. StagesInOrder'
  <2>1. \A w \in Workers : HasTask(w) => wtid[w] \in Published /\ wtid[w] # u
    <3>1. u \in Nat /\ u > pdone[NPipes] /\ pdone[NPipes] \in Nat
      BY <1>1, ReadyId, PipesAreIds DEF IInv, TypeOK
    <3>2. \A w \in Workers : HasTask(w) => wtid[w] \in Nat /\ wtid[w] <= pdone[NPipes]
      BY <1>1, TaskId DEF IInv, WorkersInOrder
    <3>3. \A w \in Workers : HasTask(w) => wtid[w] \in Published
      BY <1>1, TaskId
    <3> HIDE DEF u
    <3> QED
      BY <3>1, <3>2, <3>3
  <2>2. \A w \in Workers : HasTask(w) =>
          Slot(wtid[w]) # Slot(u) /\ Slot(wtid[w]) \in Slots
    BY <1>1, <2>1, ReadyId, OtherTask
  <2> QED
    BY <2>2, StagesFrame
<1>5. VersionsInOrder' /\ RootsSubmitted'
  BY <1>1, <1>2, VersionsFrame, RootsFrame
<1> QED
  BY <1>3, <1>4, <1>5 DEF OrderInv

LEMMA InnerPassOrder ==
    ASSUME OrderInv, RootInv', NEW p \in InnerPipes, InnerPass(p)
    PROVE  OrderInv'
<1> USE DEF ctxs
<1> DEFINE u == Tid(p)
           s == Slot(u)
<1>1. /\ IInv /\ op \in [Slots -> 0..DONE] /\ stages' = stages
      /\ op' = op /\ waitChild' = waitChild /\ pastVer' = pastVer
  BY DEF OrderInv, RootInv, IInv, TypeOK, InnerPass
<1>2. /\ pdone'[0] = pdone[0] /\ pdone'[NPipes] = pdone[NPipes]
      /\ \A q \in Pipes : u > pdone'[q] => u > pdone[q]
  BY <1>1, InnerPlace DEF InnerPass
<1>3. ASSUME u \in Published, op[s] # DONE
      PROVE  \A q \in Pipes : op[s] >= Level(q + 1)
  <2>1. waitChild[s] = 1 /\ waitChild[s] = IF op[s] > Boundary THEN 1 ELSE 0
    BY <1>3 DEF InnerPass, OrderInv, TasksInOrder, TaskInOrder
  <2>2. op[s] \in Nat /\ op[s] > Boundary
    BY <1>1, <1>3, <2>1, WindowIds, SlotInRing
  <2> HIDE DEF s
  <2> QED
    BY <2>2, Constants DEF Pipes, Level
<1>4. u \in Published => TaskInOrder(u)
  BY DEF OrderInv, TasksInOrder
<1> HIDE DEF u, s
<1>5. \A t \in Published : t = u /\ Slot(t) = s => TaskInOrder(t)'
  BY <1>1, <1>2, <1>3, <1>4, PipesAreIds DEF TaskInOrder, Level
<1> QED
  BY <1>1, <1>5, InnerFrame DEF InnerPass, u, s

\* A task on an INNER pipe, with a handler to run, has run one in each pipe.
LEMMA InnerLevel ==
    ASSUME OrderInv, NEW p \in InnerPipes, InnerTask(p)
    PROVE  LET u == Tid(p) IN
           /\ u \in Published /\ op[Slot(u)] = p /\ p <= Boundary
<1> DEFINE u == Tid(p)
           s == Slot(u)
<1>1. /\ IInv /\ op \in [Slots -> 0..DONE] /\ Ready(p) /\ Advance(p)
      /\ op[s] # DONE /\ waitChild[s] = 0
  BY DEF OrderInv, RootInv, IInv, TypeOK, InnerTask
<1>2. /\ p \in Pipes /\ p \in Nat /\ p - 1 \in Pipes \ {NPipes}
      /\ u <= pdone[p - 1] /\ u > pdone[p]
  BY <1>1, InnerPlace
<1>3. u \in Published
  BY <1>1, <1>2, ReadyId
<1>4. op[s] \in Nat
  BY <1>1, <1>3, WindowIds, SlotInRing
<1>5. /\ waitChild[s] = IF op[s] > Boundary THEN 1 ELSE 0
      /\ op[s] <= Level(p) /\ op[s] >= Level((p - 1) + 1)
  BY <1>1, <1>2, <1>3 DEF OrderInv, TasksInOrder, TaskInOrder
<1>6. (p - 1) + 1 = p
  BY <1>2
<1> HIDE DEF u, s
<1>7. op[s] <= Boundary /\ op[s] = Level(p)
  BY <1>1, <1>2, <1>4, <1>5, <1>6, Constants DEF Level
<1>8. op[s] = p /\ p <= Boundary
  BY <1>2, <1>4, <1>7, Constants DEF Level
<1> QED
  BY <1>3, <1>8 DEF u, s

LEMMA InnerTaskOrder ==
    ASSUME OrderInv, RootInv', NEW p \in InnerPipes, InnerTask(p)
    PROVE  OrderInv'
<1> DEFINE u == Tid(p)
           s == Slot(u)
<1>1. /\ IInv /\ Ready(p) /\ Advance(p) /\ stages' = stages
      /\ u \in Published /\ op[s] = p /\ p <= Boundary
      /\ op[s] # DONE /\ Handle(s)
  BY InnerLevel DEF OrderInv, RootInv, InnerTask
<1>2. /\ p \in Nat /\ u <= pdone[0] /\ u > pdone'[NPipes]
      /\ \A q \in Pipes : u > pdone'[q] => q > p
      /\ \A q \in Pipes : u <= pdone'[q] => q <= p
  <2>1. u > pdone[NPipes]
    BY <1>1, ReadyId, InnerPlace
  <2> QED
    BY <1>1, <2>1, InnerPlace
<1>3. /\ \A r \in Slots \ {s} : /\ op'[r] = op[r]
                                  /\ waitChild'[r] = waitChild[r]
                                  /\ pastVer'[r] = pastVer[r]
      /\ op'[s] # DONE =>
           /\ op'[s] = p + 1 /\ op'[s] < MaxOps
           /\ waitChild'[s] = IF op'[s] > Boundary THEN 1 ELSE 0
           /\ pastVer'[s] < u
  BY <1>1, <1>2, HandleOrder
<1>4. /\ \A q \in Pipes : q > p => p + 1 <= Level(q)
      /\ \A q \in Pipes : q <= p => p + 1 >= Level(q + 1)
  BY <1>1, <1>2, Constants DEF Pipes, Level
<1>5. u \in Nat /\ pdone'[NPipes] \in Nat
  BY <1>1, WindowIds, PipesAreIds DEF IInv, TypeOK, InnerPlace, RootInv
<1> HIDE DEF u, s
<1>6. \A t \in Published : t = u /\ Slot(t) = s => TaskInOrder(t)'
  BY <1>2, <1>3, <1>4, <1>5, PipesAreIds DEF TaskInOrder, Level
<1> QED
  BY <1>1, <1>3, <1>6, InnerFrame DEF InnerTask, u, s

\* EXIT's next id: every pipe is past it once EXIT is.
LEMMA ExitPlace ==
    ASSUME IInv, Ready(NPipes), Advance(NPipes)
    PROVE  LET u == Tid(NPipes) IN
           /\ pdone'[0] = pdone[0] /\ u \in Nat
           /\ u > pdone[NPipes] /\ pdone[NPipes] \in Nat
           /\ NPipes - 1 \in Pipes \ {NPipes} /\ u <= pdone[NPipes - 1]
           /\ \A q \in Pipes \ {NPipes} : u <= pdone[q]
           /\ \A q \in Pipes : ~(u > pdone'[q])
<1> DEFINE u == Tid(NPipes)
<1>1. /\ NPipes \in Pipes /\ 0 \in Pipes /\ 0 # NPipes
      /\ NPipes - 1 \in Pipes \ {NPipes} /\ NPipes > 0
      /\ \A q \in Pipes \ {NPipes} : q <= NPipes - 1
  BY Constants DEF Pipes
<1>2. /\ u = pdone[NPipes] + 1 /\ u \in Nat /\ pdone'[NPipes] = u
      /\ \A q \in Pipes \ {NPipes} : pdone'[q] = pdone[q]
      /\ pdone \in [Pipes -> Nat]
  BY <1>1, AdvanceIds DEF IInv, TypeOK
<1>3. u <= pdone[NPipes - 1]
  BY <1>1 DEF Ready, IInv, CountersInOrder
<1>4. \A q \in Pipes \ {NPipes} : pdone[NPipes - 1] <= pdone[q]
  BY <1>1 DEF IInv, CountersInOrder
<1> HIDE DEF u
<1>5. \A q \in Pipes \ {NPipes} : u <= pdone[q]
  BY <1>1, <1>2, <1>3, <1>4
<1>6. \A q \in Pipes : ~(u > pdone'[q])
  BY <1>1, <1>2, <1>5
<1> QED
  BY <1>1, <1>2, <1>3, <1>5, <1>6 DEF u

\* The tasks other than the one EXIT is at.
LEMMA ExitFrame ==
    ASSUME OrderInv, RootInv', Ready(NPipes), Advance(NPipes),
           UNCHANGED <<counters, ctxs, lastCheckpoint, cpc, ctid>>,
           \A r \in Slots \ {Slot(Tid(NPipes))} : stages'[r] = stages[r],
           \A t \in Published : t = Tid(NPipes) => TaskInOrder(t)'
    PROVE  TasksInOrder' /\ VersionsInOrder' /\ RootsSubmitted'
<1> USE DEF counters, ctxs
<1>1. /\ IInv /\ NPipes \in Pipes /\ nSubmitted \in Nat /\ nCommitted \in Nat
      /\ pdone'[0] = pdone[0]
  BY PipesAreIds, ExitPlace DEF OrderInv, RootInv, IInv, TypeOK
<1>2. Published' = Published
  BY IdsKept
<1>3. TasksInOrder'
  <2>1. \A t \in Published \ {Tid(NPipes)} : TaskInOrder(t)'
    BY <1>1, OtherTasksKept
  <2> QED
    BY <1>2, <2>1 DEF TasksInOrder
<1>4. VersionsInOrder' /\ RootsSubmitted'
  BY <1>1, <1>2, VersionsFrame, RootsFrame
<1> QED
  BY <1>3, <1>4

LEMMA ExitDoneOrder ==
    ASSUME OrderInv, RootInv', ExitDone
    PROVE  OrderInv'
<1> USE DEF counters, ctxs, workers, clients
<1>1. TasksInOrder' /\ VersionsInOrder' /\ RootsSubmitted'
  <2>1. \A r \in Slots \ {Slot(Tid(NPipes))} : stages'[r] = stages[r]
    BY DEF ExitDone, OrderInv, RootInv, IInv, TypeOK
  <2>2. \A t \in Published : t = Tid(NPipes) => TaskInOrder(t)'
    BY DEF ExitDone, TaskInOrder
  <2> QED
    BY <2>1, <2>2, ExitFrame DEF ExitDone
<1>2. StagesInOrder'
  BY StagesFrame DEF ExitDone
<1> QED
  BY <1>1, <1>2 DEF OrderInv

LEMMA ExitHandOffOrder ==
    ASSUME OrderInv, RootInv', ExitHandOff
    PROVE  OrderInv'
<1> USE DEF counters, ctxs, clients
<1> DEFINE u == Tid(NPipes)
           s == Slot(u)
<1>1. /\ IInv /\ IInv' /\ Ready(NPipes) /\ Advance(NPipes)
      /\ stages' = stages /\ op[s] # DONE
      /\ op' = op /\ waitChild' = waitChild /\ pastVer' = pastVer
  BY DEF OrderInv, RootInv, ExitHandOff
<1>2. /\ pdone'[0] = pdone[0] /\ u \in Nat /\ u > pdone[NPipes]
      /\ NPipes - 1 \in Pipes \ {NPipes} /\ u <= pdone[NPipes - 1]
      /\ \A q \in Pipes \ {NPipes} : u <= pdone[q]
      /\ \A q \in Pipes : ~(u > pdone'[q])
  BY <1>1, ExitPlace
<1>3. u \in Published /\ stages[s] = 0 /\ s \in Slots
  BY <1>1, ReadyId, PipesAreIds, SlotInRing
<1>4. op[s] = Level(NPipes) /\ op[s] \in Nat
  <2>1. op[s] <= Level(NPipes) /\ op[s] >= Level((NPipes - 1) + 1)
    <3>1. TaskInOrder(u)
      BY <1>3 DEF OrderInv, TasksInOrder
    <3> HIDE DEF u
    <3> QED
      BY <1>1, <1>2, <3>1, PipesAreIds DEF TaskInOrder
  <2>2. op[s] \in Nat
    BY <1>1, <1>3 DEF IInv, TypeOK
  <2>3. Level(NPipes) \in Nat /\ (NPipes - 1) + 1 = NPipes
    BY Constants DEF Level
  <2> QED
    BY <2>1, <2>2, <2>3
<1>5. TaskInOrder(u)
  BY <1>3 DEF OrderInv, TasksInOrder
<1>6. TasksInOrder' /\ VersionsInOrder' /\ RootsSubmitted'
  <2>1. 0 \in Pipes \ {NPipes} /\ NPipes \in Pipes
    BY PipesAreIds, Constants
  <2> HIDE DEF u, s
  <2>2. \A t \in Published : t = u /\ Slot(t) = s => TaskInOrder(t)'
    BY <1>1, <1>2, <1>3, <1>4, <1>5, <2>1 DEF TaskInOrder, Level
  <2> QED
    BY <1>1, <2>2, ExitFrame DEF ExitHandOff, u, s
<1>7. StagesInOrder'
  <2>1. PICK v \in avail : wtid' = [wtid EXCEPT ![v] = u]
    BY DEF ExitHandOff
  <2>2. /\ v \in Workers /\ wtid \in [Workers -> Nat \union {NoTask}]
        /\ UNCHANGED <<wlast, wjob, wstage, wpc>>
        /\ wstage \in [Workers -> Nat]
    BY <2>1 DEF OrderInv, RootInv, IInv, TypeOK, ExitHandOff
  <2> HIDE DEF u, s
  <2>3. ASSUME NEW w \in Workers, w # v, HasTask(w)', op[Slot(wtid'[w])] # DONE
        PROVE  op[Slot(wtid'[w])] = Level(NPipes) + Progress(w)
    <3>1. wtid'[w] = wtid[w] /\ HasTask(w)
      BY <2>1, <2>2, <2>3 DEF HasTask
    <3> QED
      BY <2>3, <3>1 DEF OrderInv, StagesInOrder
  <2>4. ASSUME HasTask(v)'
        PROVE  op[Slot(wtid'[v])] = Level(NPipes) + Progress(v)
    <3>1. wtid'[v] = u
      BY <2>1, <2>2
    <3>2. wpc[v] = "spin" /\ wstage[v] = 1
      <4>1. wpc[v] \in {"spin", "exited"}
        BY <1>1, <2>1 DEF IInv, WorkersInOrder
      <4>2. wpc[v] # "exited"
        BY <1>1, <2>2, <2>4 DEF IInv, WorkersInOrder, HasTask
      <4> QED
        BY <1>1, <2>2, <4>1, <4>2 DEF IInv, WorkersInOrder
    <3>3. Progress(v) = 0
      BY <3>2 DEF Progress
    <3> QED
      BY <1>4, <3>1, <3>3 DEF s
  <2>5. \A w \in Workers : Progress(w)' = Progress(w)
    BY <2>2 DEF Progress
  <2> QED
    BY <1>1, <2>3, <2>4, <2>5 DEF StagesInOrder, Level
<1> QED
  BY <1>6, <1>7 DEF OrderInv

-------------------------------------------------------------------------------
(* Workers *)

\* What a worker's step leaves alone, while it gives no task a new place.
LEMMA WorkerOrderFrame ==
    ASSUME OrderInv, RootInv',
           UNCHANGED <<counters, ctxRoot, ctxRootVer, pipes, clients>>
    PROVE  /\ Published' = Published
           /\ VersionsInOrder' /\ RootsSubmitted'
<1> USE DEF counters, pipes, clients
<1>1. nSubmitted \in Nat /\ nCommitted \in Nat
  BY DEF OrderInv, RootInv, IInv, TypeOK
<1>2. Published' = Published
  BY IdsKept
<1> QED
  BY <1>1, <1>2, VersionsFrame, RootsFrame

LEMMA TakeOrder ==
    ASSUME OrderInv, RootInv', NEW w \in Workers, Take(w)
    PROVE  OrderInv'
<1> USE DEF ctxs
<1>1. VersionsInOrder' /\ RootsSubmitted' /\ Published' = Published
  BY WorkerOrderFrame DEF Take
<1>2. TasksInOrder'
  BY <1>1, TasksFrame DEF Take, pipes
<1>3. StagesInOrder'
  <2>1. \A v \in Workers : /\ HasTask(v)' => HasTask(v)
                           /\ wtid'[v] = wtid[v]
                           /\ Progress(v)' = Progress(v)
    BY DEF Take, HasTask, Progress, OrderInv, RootInv, IInv, TypeOK
  <2> QED
    BY <2>1 DEF Take, OrderInv, StagesInOrder, Level
<1> QED
  BY <1>1, <1>2, <1>3 DEF OrderInv

LEMMA LeaveOrder ==
    ASSUME OrderInv, RootInv', NEW w \in Workers, Push(w) \/ WorkerExit(w)
    PROVE  OrderInv'
<1> USE DEF ctxs
<1>1. VersionsInOrder' /\ RootsSubmitted' /\ Published' = Published
  BY WorkerOrderFrame DEF Push, WorkerExit
<1>2. TasksInOrder'
  BY <1>1, TasksFrame DEF Push, WorkerExit, pipes
<1>3. StagesInOrder'
  <2>1. ~HasTask(w)'
    <3>1. wpc'[w] = "exited" \/ (wlast'[w] = wjob[w] /\ wpc[w] = "push")
      BY DEF Push, WorkerExit, OrderInv, RootInv, IInv, TypeOK
    <3>2. wpc'[w] = "exited" => wtid'[w] = NoTask
      BY DEF RootInv, IInv, WorkersInOrder
    <3>3. wpc[w] = "push" => wtid[w] \in {NoTask, wjob[w]}
      BY DEF OrderInv, RootInv, IInv, WorkersInOrder
    <3>4. wtid' = wtid
      BY DEF Push, WorkerExit
    <3> QED
      BY <3>1, <3>2, <3>3, <3>4 DEF HasTask
  <2>2. \A v \in Workers \ {w} : /\ HasTask(v)' => HasTask(v)
                                 /\ wtid'[v] = wtid[v]
                                 /\ Progress(v)' = Progress(v)
    BY DEF Push, WorkerExit, HasTask, Progress, OrderInv, RootInv, IInv, TypeOK
  <2> QED
    BY <2>1, <2>2 DEF Push, WorkerExit, OrderInv, StagesInOrder, Level
<1> QED
  BY <1>1, <1>2, <1>3 DEF OrderInv

LEMMA ExecOrder ==
    ASSUME OrderInv, RootInv', NEW w \in Workers, Exec(w)
    PROVE  OrderInv'
<1> DEFINE u == wjob[w]
           s == Slot(u)
<1>1. /\ IInv /\ HasTask(w) /\ wtid[w] = u /\ u \in Published /\ u \in Nat
      /\ nCommitted < u /\ u < nCommitted + BufferSize
      /\ u <= pdone[0] /\ u <= pdone[NPipes] /\ s \in Slots
      /\ wpc[w] = "exec" /\ op[s] # DONE /\ Handle(s)
  BY RunningId DEF Exec, Running, OrderInv, RootInv
<1>2. /\ op \in [Slots -> 0..DONE] /\ stages \in [Slots -> Nat]
      /\ wstage \in [Workers -> Nat] /\ wpc' = [wpc EXCEPT ![w] = "store"]
      /\ UNCHANGED <<stages, pdone, wtid, wlast, wstage>>
      /\ wpc \in [Workers -> {"spin", "exec", "store", "push", "exited"}]
      /\ Level(NPipes) \in Nat /\ pdone \in [Pipes -> Nat]
  BY Constants DEF OrderInv, RootInv, IInv, TypeOK, Exec, pipes, Level
<1>3. VersionsInOrder' /\ RootsSubmitted' /\ Published' = Published
  BY WorkerOrderFrame DEF Exec
<1>4. /\ \A r \in Slots \ {s} : /\ op'[r] = op[r]
                                  /\ waitChild'[r] = waitChild[r]
                                  /\ pastVer'[r] = pastVer[r]
      /\ op'[s] # DONE =>
           /\ op'[s] = op[s] + 1 /\ op'[s] < MaxOps
           /\ waitChild'[s] = IF op'[s] > Boundary THEN 1 ELSE 0
           /\ pastVer'[s] < u
  BY <1>1, HandleOrder
<1>5. \A t \in Published \ {u} : Slot(t) # s /\ Slot(t) \in Slots
  BY <1>1, OtherTask
<1>6. TasksInOrder'
  <2>1. \A t \in Published \ {u} : TaskInOrder(t)'
    BY <1>2, <1>4, <1>5, TaskKept DEF OrderInv, TasksInOrder
  <2>2. TaskInOrder(u) /\ op[s] \in Nat /\ stages[s] \in Nat
    BY <1>1, <1>2 DEF OrderInv, TasksInOrder
  <2>3. \A p \in Pipes : ~(u > pdone[p])
    <3>1. \A p \in Pipes : pdone[NPipes] <= pdone[p]
      BY <1>1, PipesAreIds, Constants DEF IInv, CountersInOrder, Pipes
    <3> HIDE DEF u
    <3> QED
      BY <1>1, <1>2, <3>1, PipesAreIds
  <2>4. \A p \in Pipes : Level(p + 1) \in Nat
    BY Constants DEF Pipes, Level
  <2> HIDE DEF u, s
  <2>5. \A t \in Published : t = u /\ Slot(t) = s => TaskInOrder(t)'
    BY <1>1, <1>2, <1>4, <2>2, <2>3, <2>4, PipesAreIds DEF TaskInOrder, Level
  <2> QED
    BY <1>3, <2>1, <2>5 DEF TasksInOrder, s
<1>7. StagesInOrder'
  <2> SUFFICES ASSUME NEW v \in Workers, HasTask(v)', op'[Slot(wtid[v])] # DONE
               PROVE  op'[Slot(wtid[v])] = Level(NPipes) + Progress(v)'
    BY <1>2 DEF StagesInOrder, Level
  <2>1. HasTask(v)
    BY <1>1, <1>2 DEF HasTask
  <2>2. CASE v = w
    <3>1. op[s] = Level(NPipes) + (wstage[w] - 1)
      BY <1>1 DEF OrderInv, StagesInOrder, Progress
    <3>2. op'[s] = op[s] + 1 /\ Progress(w)' = wstage[w] /\ wstage[w] \in Nat
      BY <1>1, <1>2, <1>4, <2>2 DEF Progress
    <3> HIDE DEF s
    <3>3. op'[s] = Level(NPipes) + Progress(w)'
      BY <1>2, <3>1, <3>2
    <3> QED
      BY <1>1, <2>2, <3>3 DEF s
  <2>3. CASE v # w
    <3>1. wtid[v] \in Published \ {u}
      BY <1>1, <2>1, <2>3, TaskId DEF IInv, WorkersInOrder
    <3>2. op'[Slot(wtid[v])] = op[Slot(wtid[v])]
      BY <1>4, <1>5, <3>1
    <3>3. Progress(v)' = Progress(v)
      BY <1>2, <2>3 DEF Progress
    <3> QED
      BY <2>1, <3>2, <3>3 DEF OrderInv, StagesInOrder
  <2> QED
    BY <2>2, <2>3
<1> QED
  BY <1>3, <1>6, <1>7 DEF OrderInv

LEMMA StoreStageOrder ==
    ASSUME OrderInv, RootInv', NEW w \in Workers, StoreStage(w)
    PROVE  OrderInv'
<1> USE DEF ctxs, pipes
<1> DEFINE u == wjob[w]
           s == Slot(u)
<1>1. /\ IInv /\ HasTask(w) /\ wtid[w] = u /\ u \in Published /\ u \in Nat
      /\ nCommitted < u /\ u < nCommitted + BufferSize
      /\ s \in Slots /\ sno[s] = u /\ wpc[w] = "store"
  BY RunningId DEF StoreStage, Running, OrderInv, RootInv
<1>2. /\ stages \in [Slots -> Nat] /\ wstage \in [Workers -> Nat]
      /\ wpc \in [Workers -> {"spin", "exec", "store", "push", "exited"}]
      /\ stages' = [stages EXCEPT ![s] = wstage[w]]
      /\ wstage' = [wstage EXCEPT ![w] = wstage[w] + 1]
      /\ wpc' = [wpc EXCEPT ![w] = "exec"]
      /\ UNCHANGED <<op, waitChild, pastVer, pdone, wtid, wlast>>
      /\ Level(NPipes) \in Nat
  BY <1>1, Constants DEF IInv, TypeOK, StoreStage, Level
<1>3. VersionsInOrder' /\ RootsSubmitted' /\ Published' = Published
  BY WorkerOrderFrame DEF StoreStage
<1>4. op[s] # DONE => op[s] = Level(NPipes) + wstage[w]
  BY <1>1 DEF OrderInv, StagesInOrder, Progress
<1>5. TasksInOrder'
  <2>1. \A t \in Published \ {u} : TaskInOrder(t)'
    <3>1. \A t \in Published \ {u} : stages'[Slot(t)] = stages[Slot(t)]
      BY <1>1, <1>2, OtherTask
    <3> QED
      BY <1>2, <3>1, TaskKept DEF OrderInv, TasksInOrder
  <2>2. TaskInOrder(u) /\ stages'[s] = wstage[w] /\ op \in [Slots -> 0..DONE]
    BY <1>1, <1>2 DEF OrderInv, TasksInOrder, IInv, TypeOK
  <2>3. op[s] # DONE => op[s] >= Level(NPipes) + stages'[s]
    <3>1. op[s] \in Nat
      BY <1>1, <2>2
    <3> HIDE DEF s
    <3> QED
      BY <1>4, <2>2, <3>1
  <2> HIDE DEF u, s
  <2>4. \A t \in Published : t = u /\ Slot(t) = s => TaskInOrder(t)'
    BY <1>2, <2>2, <2>3 DEF TaskInOrder, Level
  <2> QED
    BY <1>3, <2>1, <2>4 DEF TasksInOrder, s
<1>6. StagesInOrder'
  <2>1. Progress(w)' = Progress(w)
    <3>1. wpc'[w] = "exec" /\ wstage'[w] = wstage[w] + 1 /\ wstage[w] \in Nat
      BY <1>2
    <3> QED
      BY <1>1, <3>1 DEF Progress
  <2>2. \A v \in Workers \ {w} : wpc'[v] = wpc[v] /\ Progress(v)' = Progress(v)
    BY <1>2 DEF Progress
  <2>3. \A v \in Workers : HasTask(v)' => HasTask(v)
    BY <1>1, <1>2, <2>2 DEF HasTask
  <2> QED
    BY <1>2, <2>1, <2>2, <2>3 DEF OrderInv, StagesInOrder, Level
<1> QED
  BY <1>3, <1>5, <1>6 DEF OrderInv

LEMMA FinishOrder ==
    ASSUME OrderInv, RootInv', NEW w \in Workers, Finish(w)
    PROVE  OrderInv'
<1> USE DEF ctxs, pipes
<1> DEFINE u == wjob[w]
           s == Slot(u)
<1>1. /\ IInv /\ u \in Published /\ u \in Nat
      /\ nCommitted < u /\ u < nCommitted + BufferSize
      /\ s \in Slots /\ sno[s] = u /\ op[s] = DONE
  BY RunningId DEF Finish, Running, OrderInv, RootInv
<1>2. VersionsInOrder' /\ RootsSubmitted' /\ Published' = Published
  BY WorkerOrderFrame DEF Finish
<1>3. TasksInOrder'
  <2>1. \A t \in Published \ {u} : stages'[Slot(t)] = stages[Slot(t)]
    BY <1>1, OtherTask DEF Finish, IInv, TypeOK
  <2>2. \A t \in Published \ {u} : TaskInOrder(t)'
    BY <2>1, TaskKept DEF Finish, OrderInv, TasksInOrder
  <2> HIDE DEF u, s
  <2>3. \A t \in Published : t = u /\ Slot(t) = s => TaskInOrder(t)'
    BY <1>1 DEF TaskInOrder, Finish
  <2> QED
    BY <1>2, <2>2, <2>3 DEF TasksInOrder, s
<1>4. StagesInOrder'
  <2>1. \A v \in Workers : HasTask(v)' => v # w /\ HasTask(v)
    BY DEF Finish, HasTask, IInv, OrderInv, RootInv, TypeOK
  <2>2. \A v \in Workers \ {w} : Progress(v)' = Progress(v)
    BY DEF Finish, Progress, IInv, OrderInv, RootInv, TypeOK
  <2> QED
    BY <2>1, <2>2 DEF Finish, OrderInv, StagesInOrder, Level
<1> QED
  BY <1>2, <1>3, <1>4 DEF OrderInv

-------------------------------------------------------------------------------
(* The invariant *)

LEMMA OrderInit == Init => OrderInv
<1> SUFFICES ASSUME Init PROVE OrderInv
  OBVIOUS
<1>1. RootInv /\ 0 \in Pipes
  BY InitInv, RootsInit, PipesAreIds DEF RootInv
<1>2. Published = {} /\ pdone[0] = 0
  BY <1>1 DEF Init, Published
<1>3. TasksInOrder
  BY <1>2 DEF TasksInOrder
<1>4. StagesInOrder
  BY DEF Init, StagesInOrder, HasTask
<1>5. ctxRootVer[Slot(0)] = 0 /\ IsCheckpoint(0)
  BY SlotInRing, Constants DEF Init, IsCheckpoint
<1>6. VersionsInOrder
  BY <1>2, <1>5 DEF VersionsInOrder, Init
<1>7. RootsSubmitted
  BY DEF Init, RootsSubmitted
<1> QED
  BY <1>1, <1>3, <1>4, <1>6, <1>7 DEF OrderInv

LEMMA MonitorOrder ==
    ASSUME OrderInv, RootInv', Monitor
    PROVE  OrderInv'
<1> USE DEF counters, pipes, workers, clients
<1>1. /\ nCommitted \in Nat /\ nCommitted' \in Nat /\ nSubmitted \in Nat
      /\ mNext \in Nat /\ nCommitted <= mNext
  BY DEF OrderInv, RootInv, IInv, TypeOK, CountersInOrder
<1>2. /\ UNCHANGED <<nSubmitted, ctxs, stages, pdone, lastCheckpoint, wtid,
                     wlast, wpc, wstage, cpc, ctid>>
      /\ nCommitted' >= nCommitted
  <2>1. CASE StoreCommitted
    BY <1>1, <2>1 DEF StoreCommitted
  <2>2. CASE AppendBubbles \/ AdvanceInited
    BY <1>1, <2>2 DEF AppendBubbles, AdvanceInited
  <2>3. CASE ReadCounters \/ ScanInited \/ ScanCommitted
             \/ NothingCommitted \/ StoreRoot
    BY <1>1, <2>3
    DEF ReadCounters, ScanInited, ScanCommitted, NothingCommitted, StoreRoot
  <2> QED
    BY <2>1, <2>2, <2>3 DEF Monitor
<1>3. Published' \subseteq Published
  BY <1>1, <1>2 DEF Published, Held
<1> QED
  BY <1>2, <1>3, OrderFrame

\* Steps of the owner and of nobody.
LEMMA StopOrder ==
    ASSUME OrderInv, RootInv', Stop \/ StopWorkers \/ UNCHANGED vars
    PROVE  OrderInv'
<1> USE DEF counters, pipes, workers, clients
<1>1. Published' = Published /\ nCommitted' = nCommitted /\ nCommitted \in Nat
  BY IdsKept DEF Stop, StopWorkers, vars, OrderInv, RootInv, IInv, TypeOK
<1>2. CASE Stop \/ UNCHANGED vars
  BY <1>1, <1>2, OrderFrame DEF Stop, vars
<1>3. CASE StopWorkers
  <2>1. StagesInOrder'
    BY <1>3 DEF StopWorkers, StagesInOrder, HasTask
  <2>2. TasksInOrder'
    BY <1>1, <1>3, TasksFrame DEF StopWorkers, ctxs
  <2>3. VersionsInOrder' /\ RootsSubmitted'
    BY <1>1, <1>3, VersionsFrame, RootsFrame
    DEF StopWorkers, ctxs, OrderInv, RootInv, IInv, TypeOK
  <2> QED
    BY <2>1, <2>2, <2>3 DEF OrderInv
<1> QED
  BY <1>2, <1>3

LEMMA OrderStep == OrderInv /\ [Next]_vars => OrderInv'
<1> SUFFICES ASSUME OrderInv, [Next]_vars PROVE OrderInv'
  OBVIOUS
<1>1. RootInv'
  BY RootsStep DEF OrderInv
<1>2. ASSUME NEW c \in Clients, Claim(c) \/ Submitting(c) PROVE OrderInv'
  <2>1. CASE Enter(c)
    <3>1. Published' \subseteq Published
      BY <2>1 DEF Enter, Published, Held, OrderInv, RootInv, IInv, TypeOK, counters
    <3> QED
      BY <1>1, <2>1, <3>1, OrderFrame
      DEF Enter, counters, pipes, workers, OrderInv, RootInv, IInv, TypeOK
  <2> QED
    BY <1>1, <1>2, <2>1, ClaimOrder, PublishCheckpointOrder, WriteOrder,
       PublishOrder
    DEF Submitting
<1>3. ASSUME Entry PROVE OrderInv'
  BY <1>1, <1>3, EntryPassOrder, EntryTaskOrder DEF Entry
<1>4. ASSUME NEW p \in InnerPipes, Inner(p) PROVE OrderInv'
  BY <1>1, <1>4, InnerPassOrder, InnerTaskOrder DEF Inner
<1>5. ASSUME Exit PROVE OrderInv'
  BY <1>1, <1>5, ExitDoneOrder, ExitHandOffOrder DEF Exit
<1>6. ASSUME NEW p \in Pipes, Batch(p) PROVE OrderInv'
  <2>1. /\ UNCHANGED <<counters, ctxs, stages, pdone, lastCheckpoint,
                       workers, clients>>
    BY <1>6 DEF Batch, NextBatch, Drain, PipeExit
  <2>2. Published' = Published /\ nCommitted' >= nCommitted
    BY <2>1, IdsKept DEF counters, clients, OrderInv, RootInv, IInv, TypeOK
  <2> QED
    BY <1>1, <2>1, <2>2, OrderFrame DEF counters, workers
<1>7. ASSUME NEW w \in Workers, Worker(w) PROVE OrderInv'
  BY <1>1, <1>7, TakeOrder, ExecOrder, StoreStageOrder, FinishOrder, LeaveOrder
  DEF Worker
<1>8. ASSUME Monitor PROVE OrderInv'
  BY <1>1, <1>8, MonitorOrder
<1>9. ASSUME Stop \/ StopWorkers \/ UNCHANGED vars PROVE OrderInv'
  BY <1>1, <1>9, StopOrder
<1> QED
  BY <1>2, <1>3, <1>4, <1>5, <1>6, <1>7, <1>8, <1>9 DEF Next

\* Every task is on the level its pipes and its worker have brought it to,
\* no worker's stage runs ahead of its handlers, and versions grow with ids.
THEOREM OrderInvariance == Spec => []OrderInv
<1>1. Init => OrderInv
  BY OrderInit
<1>2. OrderInv /\ [Next]_vars => OrderInv'
  BY OrderStep
<1> QED
  BY <1>1, <1>2, PTL DEF Spec

-------------------------------------------------------------------------------
(* The order of handlers *)

LEMMA ModUnique ==
    ASSUME NEW x \in Int, NEW q \in Int, NEW r \in 0..(BufferSize - 1),
           x = BufferSize * q + r
    PROVE  x % BufferSize = r
<1>1. BufferSize \in Nat /\ BufferSize > 0
  BY RingAssumption
<1> DEFINE u == x \div BufferSize
           v == x % BufferSize
<1>2. u \in Int /\ v \in 0..(BufferSize - 1) /\ x = BufferSize * u + v
  BY <1>1
<1> HIDE DEF u, v
<1>3. BufferSize * (u - q) = r - v
  BY <1>1, <1>2
<1>4. r - v < BufferSize /\ r - v > -BufferSize
  BY <1>1, <1>2
<1>5. u - q >= 1 => BufferSize * (u - q) >= BufferSize
  BY <1>1, <1>2
<1>6. u - q <= -1 => BufferSize * (u - q) <= -BufferSize
  BY <1>1, <1>2
<1>7. u - q = 0
  BY <1>1, <1>2, <1>3, <1>4, <1>5, <1>6
<1>8. r = v
  BY <1>1, <1>2, <1>3, <1>7
<1> QED
  BY <1>8 DEF v

\* The slot before that of an id is the slot of the id before.
LEMMA PrevSlot ==
    ASSUME NEW t \in Nat, t > 0
    PROVE  (Slot(t) - 1) % BufferSize = Slot(t - 1)
<1>1. BufferSize \in Nat /\ BufferSize > 0
  BY RingAssumption
<1> DEFINE q == (t - 1) \div BufferSize
           r == (t - 1) % BufferSize
<1>2. q \in Int /\ r \in 0..(BufferSize - 1) /\ t - 1 = BufferSize * q + r
  BY <1>1
<1> HIDE DEF q, r
<1>3. CASE r + 1 < BufferSize
  <2>1. t = BufferSize * q + (r + 1) /\ r + 1 \in 0..(BufferSize - 1)
    BY <1>1, <1>2, <1>3
  <2>2. t % BufferSize = r + 1
    BY <1>2, <2>1, ModUnique
  <2>3. r = BufferSize * 0 + r
    BY <1>1, <1>2
  <2>4. r % BufferSize = r
    BY <1>2, <2>3, ModUnique
  <2>5. (t % BufferSize) - 1 = r
    BY <1>2, <2>2
  <2> QED
    BY <2>4, <2>5 DEF Slot, r
<1>4. CASE ~(r + 1 < BufferSize)
  <2>1. r = BufferSize - 1
    BY <1>1, <1>2, <1>4
  <2>2. t = BufferSize * (q + 1) + 0 /\ 0 \in 0..(BufferSize - 1)
    <3>1. BufferSize * (q + 1) = BufferSize * q + BufferSize
      BY <1>1, <1>2
    <3> QED
      BY <1>1, <1>2, <2>1, <3>1
  <2>3. t % BufferSize = 0
    BY <1>2, <2>2, ModUnique
  <2>4. -1 = BufferSize * (-1) + r
    BY <1>1, <2>1
  <2>5. (-1) % BufferSize = r
    BY <1>2, <2>4, ModUnique
  <2>6. (t % BufferSize) - 1 = -1
    BY <2>3
  <2> QED
    BY <2>5, <2>6 DEF Slot, r
<1> QED
  BY <1>3, <1>4

\* A version older than a task that went through ENTRY is committed or the
\* id of a published task.
LEMMA EarlierTask ==
    ASSUME IInv, NEW u \in Nat, u <= mInited, NEW v \in Nat,
           nCommitted < v, v < u
    PROVE  v \in Published /\ PublishedSlot(v)
<1>1. v <= mInited
  BY DEF IInv, TypeOK
<1> QED
  BY <1>1, InitedPublished DEF IInv, PublishedSlots

\* The condition HandlersInOrder puts on a step.
HandlersReady ==
    \A s \in Slots : op'[s] > op[s] =>
        PastReady(s, IF op[s] = 0 THEN ctxRootVer[(s - 1) % BufferSize]
                                  ELSE pastVer[s])

LEMMA EntryReady ==
    ASSUME OrderInv, EntryTask
    PROVE  HandlersReady
<1> DEFINE u == Tid(0)
           s == Slot(u)
           v == ctxRootVer[Slot(u - 1)]
<1>1. /\ IInv /\ u \in Nat /\ Ready(0) /\ op \in [Slots -> 0..DONE]
      /\ s \in Slots /\ pdone[0] \in Nat /\ u = pdone[0] + 1
      /\ nCommitted \in Nat /\ nSubmitted \in Nat
  BY PipesAreIds, PipeTypes
  DEF OrderInv, RootInv, IInv, TypeOK, EntryTask, Tid
<1>2. u \in Published /\ u <= mInited
  BY <1>1, ReadyId, PipesAreIds, Constants DEF EntryTask
<1>3. u <= nSubmitted /\ u > 0
  BY <1>1, <1>2 DEF Published
<1>4. v \in Nat /\ v < u
  BY <1>1, <1>3, PrevVersion
<1>5. op[s] = 0 /\ waitChild[s] = 0
  <2>1. u > pdone[0]
    BY <1>1
  <2> QED
    BY <1>2, <2>1 DEF IInv, PublishedSlots, PublishedSlot, EntryTask, OrderInv, RootInv
<1>6. \A r \in Slots \ {s} : op'[r] = op[r]
  BY <1>1 DEF EntryTask
<1>7. (s - 1) % BufferSize = Slot(u - 1)
  BY <1>1, <1>3, PrevSlot
<1>8. PastReady(s, v)
  <2>1. CASE v <= nCommitted
    BY <2>1 DEF PastReady
  <2>2. CASE v > nCommitted
    <3>1. v \in Published /\ PublishedSlot(v)
      BY <1>1, <1>2, <1>4, <2>2, EarlierTask
    <3> HIDE DEF v, u
    <3>2. v <= pdone[0]
      BY <1>1, <1>4
    <3>3. sno[Slot(v)] = v /\ op[Slot(v)] > 0 /\ op[Slot(v)] \in Nat
      BY <1>1, <1>4, <3>1, <3>2, SlotInRing DEF PublishedSlot
    <3> QED
      BY <1>5, <3>3 DEF PastReady
  <2> QED
    BY <1>1, <1>4, <2>1, <2>2
<1>9. \A r \in Slots : ~(op[r] > op[r])
  BY <1>1
<1> HIDE DEF s, v
<1> QED
  BY <1>5, <1>6, <1>7, <1>8, <1>9 DEF HandlersReady, v

LEMMA InnerReady ==
    ASSUME OrderInv, NEW p \in InnerPipes, InnerTask(p)
    PROVE  HandlersReady
<1> DEFINE u == Tid(p)
           s == Slot(u)
           v == pastVer[s]
<1>1. /\ IInv /\ Ready(p) /\ Advance(p) /\ op \in [Slots -> 0..DONE]
      /\ u \in Published /\ op[s] = p /\ p <= Boundary
      /\ op[s] # DONE /\ Handle(s) /\ waitChild[s] = 0
      /\ nCommitted \in Nat /\ pastVer \in [Slots -> Nat]
  BY InnerLevel DEF OrderInv, RootInv, IInv, TypeOK, InnerTask
<1>2. /\ p \in Pipes /\ p \in Nat /\ p # 0 /\ p # NPipes /\ u <= pdone[0]
      /\ u = pdone[p] + 1 /\ pdone[p] \in Nat /\ u \in Nat /\ s \in Slots
  <2>1. p \in Pipes /\ p \in Nat /\ p # 0 /\ p # NPipes /\ u <= pdone[0]
    BY <1>1, InnerPlace
  <2>2. pdone[p] \in Nat /\ u \in Nat /\ s \in Slots
    BY <1>1, <2>1, PipeTypes DEF IInv
  <2> QED
    BY <2>1, <2>2 DEF Tid
<1>3. u <= mInited
  <2>1. u <= nSubmitted /\ nSubmitted \in Nat
    BY <1>1 DEF Published, IInv, TypeOK
  <2> QED
    BY <1>1, <1>2, <2>1, ReadyId
<1>4. v \in Nat /\ v < u /\ op[s] < MaxOps
  BY <1>1, <1>2 DEF OrderInv, TasksInOrder, TaskInOrder
<1>5. \A r \in Slots \ {s} : op'[r] = op[r]
  BY <1>1, <1>2, HandleOrder
<1>6. PastReady(s, v)
  <2>1. CASE v <= nCommitted
    BY <2>1 DEF PastReady
  <2>2. CASE v > nCommitted
    <3>1. v \in Published /\ PublishedSlot(v)
      BY <1>1, <1>2, <1>3, <1>4, <2>2, EarlierTask
    <3>2. TaskInOrder(v)
      BY <3>1 DEF OrderInv, TasksInOrder
    <3> HIDE DEF v, u, s
    <3>3. v <= pdone[p]
      BY <1>2, <1>4
    <3>4. Level(p + 1) = p + 1
      BY <1>1, <1>2, LevelBounds
    <3>5. op[Slot(v)] # DONE => op[Slot(v)] >= p + 1
      BY <1>2, <3>2, <3>3, <3>4 DEF TaskInOrder
    <3>6. DONE >= p + 1
      BY <1>1, <1>2, <1>4, Constants
    <3>7. sno[Slot(v)] = v
      BY <3>1 DEF PublishedSlot
    <3> QED
      BY <1>1, <1>2, <3>5, <3>6, <3>7 DEF PastReady
  <2> QED
    BY <1>1, <1>4, <2>1, <2>2
<1>7. \A r \in Slots : ~(op[r] > op[r])
  BY <1>1
<1>8. op[s] # 0
  BY <1>1, <1>2
<1> HIDE DEF s, v
<1> QED
  BY <1>5, <1>6, <1>7, <1>8 DEF HandlersReady, v

LEMMA ExecReady ==
    ASSUME OrderInv, NEW w \in Workers, Exec(w)
    PROVE  HandlersReady
<1> DEFINE u == wjob[w]
           s == Slot(u)
           v == pastVer[s]
<1>1. /\ IInv /\ HasTask(w) /\ wtid[w] = u /\ u \in Published /\ u \in Nat
      /\ u <= pdone[0] /\ u <= pdone[NPipes] /\ s \in Slots
      /\ wpc[w] = "exec" /\ op[s] # DONE /\ Handle(s) /\ op[s] > 0
      /\ StageReached(s, wstage[w] + waitChild[s])
  BY RunningId DEF Exec, Running, OrderInv, RootInv
<1>2. /\ op \in [Slots -> 0..DONE] /\ stages \in [Slots -> Nat]
      /\ waitChild \in [Slots -> {0, 1}] /\ pastVer \in [Slots -> Nat]
      /\ wstage[w] \in Nat /\ nCommitted \in Nat /\ Level(NPipes) \in Nat
      /\ pdone[NPipes] \in Nat
  BY <1>1, Constants, PipesAreIds DEF IInv, TypeOK, Level
<1>3. op[s] = Level(NPipes) + (wstage[w] - 1)
  BY <1>1 DEF OrderInv, StagesInOrder, Progress
<1>4. v \in Nat /\ v < u /\ op[s] < MaxOps
  BY <1>1, <1>2 DEF OrderInv, TasksInOrder, TaskInOrder
<1>5. \A r \in Slots \ {s} : op'[r] = op[r]
  BY <1>1, HandleOrder
<1>6. PastReady(s, v)
  <2>1. CASE v <= nCommitted
    BY <2>1 DEF PastReady
  <2>2. CASE v > nCommitted
    <3>1. u <= mInited
      <4>1. mpc # "exited"
        BY <1>1 DEF IInv, StopInOrder, TypeOK, Published
      <4>2. pdone[0] <= mInited
        BY <4>1, <1>1, PipesAreIds DEF IInv, CountersInOrder, TypeOK
      <4> QED
        BY <1>1, <4>2, PipesAreIds DEF IInv, TypeOK
    <3>2. v \in Published /\ PublishedSlot(v)
      BY <1>1, <1>4, <2>2, <3>1, EarlierTask
    <3>3. TaskInOrder(v) /\ Slot(v) \in Slots
      BY <1>4, <3>2, SlotInRing DEF OrderInv, TasksInOrder
    <3>4. stages[Slot(v)] >= wstage[w] + waitChild[s]
      BY <1>1, <1>2, <1>4, <2>2 DEF StageReached
    <3> HIDE DEF v, u, s
    <3>5. v <= pdone[NPipes]
      BY <1>1, <1>2, <1>4
    <3>6. op[Slot(v)] # DONE => op[Slot(v)] >= Level(NPipes) + stages[Slot(v)]
      BY <3>3, <3>5 DEF TaskInOrder
    <3>7. op[Slot(v)] # DONE => op[Slot(v)] >= op[s] + 1 + waitChild[s]
      <4>1. /\ op[Slot(v)] \in Nat /\ stages[Slot(v)] \in Nat
            /\ waitChild[s] \in Nat /\ op[s] \in Nat
        BY <1>1, <1>2, <3>3
      <4> QED
        BY <1>2, <1>3, <3>4, <3>6, <4>1
    <3>8. DONE >= op[s] + 1 + waitChild[s]
      <4>1. waitChild[s] \in {0, 1} /\ op[s] \in Nat
        BY <1>1, <1>2
      <4> QED
        BY <1>4, <4>1, Constants
    <3>9. sno[Slot(v)] = v
      BY <3>2 DEF PublishedSlot
    <3> QED
      BY <3>7, <3>8, <3>9 DEF PastReady
  <2> QED
    BY <1>2, <1>4, <2>1, <2>2
<1>7. \A r \in Slots : ~(op[r] > op[r])
  BY <1>2
<1>8. op[s] # 0
  BY <1>1, <1>2
<1> HIDE DEF s, v
<1> QED
  BY <1>5, <1>6, <1>7, <1>8 DEF HandlersReady, v

\* No step but these three runs a handler.
LEMMA StepReady == OrderInv /\ [Next]_vars => [HandlersReady]_vars
<1> SUFFICES ASSUME OrderInv, [Next]_vars PROVE [HandlersReady]_vars
  OBVIOUS
<1> USE DEF ctxs
<1>1. op \in [Slots -> 0..DONE] /\ \A s \in Slots : ~(op[s] > op[s]) /\ ~(0 > op[s])
  BY DEF OrderInv, RootInv, IInv, TypeOK
<1>2. ASSUME op' = op PROVE HandlersReady
  BY <1>1, <1>2 DEF HandlersReady
<1>3. ASSUME NEW c \in Clients, Claim(c) \/ Submitting(c) PROVE HandlersReady
  <2>1. CASE Write(c)
    <3>1. \A s \in Slots : op'[s] = op[s] \/ op'[s] = 0
      BY <1>1, <2>1 DEF Write
    <3> QED
      BY <1>1, <3>1 DEF HandlersReady
  <2> QED
    BY <1>2, <1>3, <2>1
    DEF Submitting, Claim, Enter, PublishCheckpoint, Publish
<1>4. ASSUME Entry PROVE HandlersReady
  BY <1>2, <1>4, EntryReady DEF Entry, EntryCheckpoint, EntrySkip, EntryBubble
<1>5. ASSUME NEW p \in InnerPipes, Inner(p) PROVE HandlersReady
  BY <1>2, <1>5, InnerReady DEF Inner, InnerPass
<1>6. ASSUME Exit PROVE HandlersReady
  BY <1>2, <1>6 DEF Exit, ExitHandOff, ExitDone
<1>7. ASSUME NEW p \in Pipes, Batch(p) PROVE HandlersReady
  BY <1>2, <1>7 DEF Batch, NextBatch, Drain, PipeExit
<1>8. ASSUME NEW w \in Workers, Worker(w) PROVE HandlersReady
  BY <1>2, <1>8, ExecReady
  DEF Worker, Take, StoreStage, Finish, Push, WorkerExit
<1>9. ASSUME Monitor PROVE HandlersReady
  BY <1>2, <1>9
  DEF Monitor, ReadCounters, ScanInited, AdvanceInited, ScanCommitted,
      NothingCommitted, StoreRoot, StoreCommitted, AppendBubbles
<1>10. ASSUME Stop \/ StopWorkers PROVE HandlersReady
  BY <1>2, <1>10 DEF Stop, StopWorkers
<1> QED
  BY <1>3, <1>4, <1>5, <1>6, <1>7, <1>8, <1>9, <1>10 DEF Next

\* No handler, in a pipe or a worker, runs on a node before the task that
\* made the node has run its own handler there.
THEOREM HandlerOrder == Spec => HandlersInOrder
<1>1. OrderInv /\ [Next]_vars => [HandlersReady]_vars
  BY StepReady
<1> QED
  BY <1>1, OrderInvariance, PTL DEF Spec, HandlersInOrder, HandlersReady

-------------------------------------------------------------------------------
(* Rebuilds *)

\* The condition RebuildAlone puts on a step.
RebuildCommitted ==
    lastCheckpoint' # lastCheckpoint =>
        ctxRoot'[Slot(Tid(0))] \subseteq 1..nCommitted

LEMMA CheckpointAlone ==
    ASSUME OrderInv, EntryCheckpoint
    PROVE  RebuildCommitted
<1> DEFINE u == Tid(0)
           r == ctxRoot[Slot(u - 1)]
<1>1. /\ IInv /\ RootInv /\ Ready(0) /\ u \in Nat /\ u > nCommitted
      /\ nCommitted \in Nat /\ nSubmitted \in Nat
      /\ Slot(u) \in Slots /\ Slot(u - 1) \in Slots
      /\ ctxRoot \in [Slots -> SUBSET Nat]
  BY ReadyId, PipesAreIds, PipeTypes
  DEF OrderInv, RootInv, IInv, TypeOK, EntryCheckpoint
<1>2. ctxRoot'[Slot(u)] = r
  BY <1>1 DEF EntryCheckpoint
<1>3. CASE u <= nSubmitted
  <2>1. nCommitted >= u - 1
    BY <1>1, <1>3, PrevVersion DEF EntryCheckpoint
  <2>2. r = UpdatesUpTo(u - 1)
    BY <1>1, <1>3, PrevRoot
  <2> HIDE DEF u, r
  <2>3. UpdatesUpTo(u - 1) \subseteq 1..nCommitted
    BY <1>1, <2>1 DEF UpdatesUpTo
  <2> QED
    BY <1>2, <2>2, <2>3 DEF RebuildCommitted, u
<1>4. CASE u > nSubmitted
  <2>1. nCommitted = nSubmitted
    <3>1. pace[0] >= u /\ pace[0] \in Nat /\ mInited \in Nat
      BY <1>1, PipesAreIds DEF Ready, IInv, TypeOK
    <3>2. mInited <= nSubmitted
      BY <1>1 DEF IInv, CountersInOrder
    <3> HIDE DEF u
    <3>3. mpc = "exited"
      BY <1>1, <1>4, <3>1, <3>2 DEF IInv, CountersInOrder
    <3> QED
      BY <1>1, <3>3 DEF IInv, StopInOrder
  <2>2. r \subseteq 1..nSubmitted
    BY <1>1 DEF OrderInv, RootsSubmitted
  <2> HIDE DEF r
  <2> QED
    BY <1>2, <2>1, <2>2 DEF RebuildCommitted
<1> QED
  BY <1>1, <1>3, <1>4

LEMMA StepAlone == OrderInv /\ [Next]_vars => [RebuildCommitted]_vars
<1> SUFFICES ASSUME OrderInv, [Next]_vars PROVE [RebuildCommitted]_vars
  OBVIOUS
<1> USE DEF pipes
<1>1. ASSUME lastCheckpoint' = lastCheckpoint PROVE RebuildCommitted
  BY <1>1 DEF RebuildCommitted
<1>2. ASSUME NEW c \in Clients, Claim(c) \/ Submitting(c) PROVE RebuildCommitted
  BY <1>1, <1>2
  DEF Submitting, Claim, Enter, PublishCheckpoint, Write, Publish
<1>3. ASSUME Entry PROVE RebuildCommitted
  BY <1>1, <1>3, CheckpointAlone DEF Entry, EntrySkip, EntryTask, EntryBubble
<1>4. ASSUME NEW p \in InnerPipes, Inner(p) PROVE RebuildCommitted
  BY <1>1, <1>4 DEF Inner, InnerTask, InnerPass
<1>5. ASSUME Exit PROVE RebuildCommitted
  BY <1>1, <1>5 DEF Exit, ExitHandOff, ExitDone
<1>6. ASSUME NEW p \in Pipes, Batch(p) PROVE RebuildCommitted
  BY <1>1, <1>6 DEF Batch, NextBatch, Drain, PipeExit
<1>7. ASSUME NEW w \in Workers, Worker(w) PROVE RebuildCommitted
  BY <1>1, <1>7 DEF Worker, Take, Exec, StoreStage, Finish, Push, WorkerExit
<1>8. ASSUME Monitor PROVE RebuildCommitted
  BY <1>1, <1>8
  DEF Monitor, ReadCounters, ScanInited, AdvanceInited, ScanCommitted,
      NothingCommitted, StoreRoot, StoreCommitted, AppendBubbles
<1>9. ASSUME Stop \/ StopWorkers PROVE RebuildCommitted
  BY <1>1, <1>9 DEF Stop, StopWorkers
<1> QED
  BY <1>2, <1>3, <1>4, <1>5, <1>6, <1>7, <1>8, <1>9 DEF Next

\* A rebuild, which walks the whole tree without waiting, walks a tree of
\* committed updates.
THEOREM RebuildsAlone == Spec => RebuildAlone
<1>1. OrderInv /\ [Next]_vars => [RebuildCommitted]_vars
  BY StepAlone
<1> QED
  BY <1>1, OrderInvariance, PTL DEF Spec, RebuildAlone, RebuildCommitted
===============================================================================
