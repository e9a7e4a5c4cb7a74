----------------------------- MODULE ConcowProofs -----------------------------
(* Theorems about Concow for every number of clients, workers and pipes and *)
(* every size of the ring.                                                  *)
EXTENDS ConcowInductive, TLAPS

\* The slot of an id is a slot of the ring.
LEMMA SlotInRing ==
    ASSUME NEW t \in Nat
    PROVE  Slot(t) \in Slots
<1>1. BufferSize \in Nat /\ BufferSize > 0
  BY RingAssumption
<1> QED
  BY <1>1 DEF Slot, Slots

\* Two ids less than a ring apart have different slots.
LEMMA SlotInjective ==
    ASSUME NEW a \in Nat, NEW b \in Nat, a < b, b < a + BufferSize
    PROVE  Slot(a) # Slot(b)
<1>1. BufferSize \in Nat /\ BufferSize > 0
  BY RingAssumption
<1>2. SUFFICES ASSUME a % BufferSize = b % BufferSize
               PROVE  FALSE
  BY DEF Slot
<1> DEFINE q == a \div BufferSize
           r == b \div BufferSize
<1>3. /\ q \in Int /\ r \in Int
      /\ a = BufferSize * q + (a % BufferSize)
      /\ b = BufferSize * r + (b % BufferSize)
  BY <1>1
<1>4. b - a = BufferSize * (r - q)
  BY <1>1, <1>2, <1>3
<1>5. r - q > 0 /\ r - q < 1
  <2> HIDE DEF q, r
  <2>1. r - q <= 0 => BufferSize * (r - q) <= 0
    BY <1>1, <1>3
  <2>2. r - q >= 1 => BufferSize * (r - q) >= BufferSize
    BY <1>1, <1>3
  <2> QED
    BY <1>1, <1>3, <1>4, <2>1, <2>2
<1> QED
  BY <1>3, <1>5
-------------------------------------------------------------------------------
(* Type correctness *)

\* The constants' types and order, in one fact.
LEMMA Constants ==
    /\ BufferSize \in Nat /\ BufferSize >= 2
    /\ BatchSize \in Nat /\ BatchSize >= 1
    /\ NPipes \in Nat /\ NPipes >= 1
    /\ MaxOps \in Nat /\ MaxOps < DONE
    /\ Boundary \in Nat
    /\ DONE = 15 /\ AllOnes \in Nat /\ AllOnes > DONE
<1>1. AllOnes \in Nat /\ AllOnes > DONE
  BY SMT DEF DONE, AllOnes
<1> QED
  BY <1>1, RingAssumption, PipesAssumption, HandlersAssumption DEF DONE

LEMMA InitType == Init => TypeOK
<1> SUFFICES ASSUME Init PROVE TypeOK
  OBVIOUS
<1>1. DONE \in 0..DONE /\ AllOnes \in Nat
  BY Constants
<1>2. /\ stages \in [Slots -> Nat] /\ op \in [Slots -> 0..DONE]
      /\ waitChild \in [Slots -> {0, 1}]
      /\ newCheckpoint \in [Slots -> BOOLEAN]
      /\ sno \in [Slots -> Nat] /\ pastVer \in [Slots -> Nat]
      /\ ctxRoot \in [Slots -> SUBSET Nat] /\ ctxRootVer \in [Slots -> Nat]
  BY <1>1 DEF Init
<1>3. /\ pace \in [Pipes -> Nat] /\ pdone \in [Pipes -> Nat]
      /\ plast \in [Pipes -> Nat]
      /\ phase \in [Pipes -> {"run", "drain", "exited"}]
  BY DEF Init
<1>4. /\ wtid \in [Workers -> Nat] /\ wlast \in [Workers -> Nat]
      /\ wjob \in [Workers -> Nat] /\ wstage \in [Workers -> Nat]
      /\ wpc \in [Workers -> {"spin", "exec", "store", "push", "exited"}]
  BY DEF Init
<1>5. /\ cpc \in [Clients -> {"idle", "full", "checkpoint", "write", "publish"}]
      /\ ctid \in [Clients -> Nat]
  BY DEF Init
<1> QED
  BY <1>2, <1>3, <1>4, <1>5 DEF Init, TypeOK

\* What the loop over ids of a pipe reads and leaves.
LEMMA PipeTypes ==
    ASSUME TypeOK, NEW p \in Pipes
    PROVE  /\ pdone[p] \in Nat /\ Tid(p) \in Nat /\ Tid(p) - 1 \in Nat
           /\ Slot(Tid(p)) \in Slots /\ Slot(Tid(p) - 1) \in Slots
<1>1. pdone[p] \in Nat /\ Tid(p) \in Nat /\ Tid(p) - 1 \in Nat
  BY DEF TypeOK, Tid
<1> QED
  BY <1>1, SlotInRing

LEMMA AdvanceType ==
    ASSUME TypeOK, NEW p \in Pipes, Advance(p)
    PROVE  /\ pdone' \in [Pipes -> Nat] /\ pace' \in [Pipes -> Nat]
           /\ plast' = plast /\ phase' = phase
<1>1. Tid(p) \in Nat
  BY PipeTypes
<1> QED
  BY <1>1 DEF Advance, TypeOK

LEMMA PipesAreIds ==
    /\ 0 \in Pipes /\ NPipes \in Pipes /\ InnerPipes \subseteq Pipes
BY Constants DEF Pipes, InnerPipes

\* A handler keeps the types of the fields it writes.
LEMMA HandleType ==
    ASSUME TypeOK, NEW s \in Slots, Handle(s)
    PROVE  /\ op' \in [Slots -> 0..DONE]
           /\ waitChild' \in [Slots -> {0, 1}]
           /\ newCheckpoint' \in [Slots -> BOOLEAN]
           /\ pastVer' \in [Slots -> Nat]
<1>1. op' \in [Slots -> 0..DONE]
  <2>0. op \in [Slots -> 0..DONE] /\ DONE \in Nat
    BY Constants DEF TypeOK
  <2>1. op[s] \in Nat /\ DONE \in 0..DONE
    BY <2>0
  <2>2. op[s] + 1 < MaxOps => op[s] + 1 \in 0..DONE
    BY <2>1, Constants
  <2> QED
    BY <2>1, <2>2 DEF Handle, TypeOK
<1>2. waitChild' \in [Slots -> {0, 1}]
  BY DEF Handle, TypeOK
<1>3. newCheckpoint' \in [Slots -> BOOLEAN]
  BY DEF Handle, TypeOK
<1>4. pastVer' \in [Slots -> Nat]
  <2>1. \A v \in Below(pastVer[s]) : v \in Nat
    BY DEF Below
  <2> QED
    BY <2>1 DEF Handle, TypeOK
<1> QED
  BY <1>1, <1>2, <1>3, <1>4

LEMMA StepType == TypeOK /\ [Next]_vars => TypeOK'
<1> SUFFICES ASSUME TypeOK, [Next]_vars PROVE TypeOK'
  OBVIOUS
<1> USE DEF counters, ctxs, pipes, workers, clients, monitor
<1>1. ASSUME NEW c \in Clients, Claim(c) PROVE TypeOK'
  BY <1>1, Constants DEF Claim, TypeOK
<1>2. ASSUME NEW c \in Clients, Enter(c) PROVE TypeOK'
  BY <1>2, Constants DEF Enter, TypeOK
<1>3. ASSUME NEW c \in Clients, PublishCheckpoint(c) PROVE TypeOK'
  <2>1. 0 \in Slots
    BY Constants DEF Slots
  <2> QED
    BY <1>3, <2>1 DEF PublishCheckpoint, TypeOK
<1>4. ASSUME NEW c \in Clients, Write(c) PROVE TypeOK'
  <2>1. Slot(ctid[c]) \in Slots
    BY SlotInRing DEF TypeOK
  <2> QED
    BY <1>4, <2>1, Constants DEF Write, TypeOK
<1>5. ASSUME NEW c \in Clients, Publish(c) PROVE TypeOK'
  BY <1>5, Constants DEF Publish, TypeOK
<1>6. ASSUME EntryCheckpoint PROVE TypeOK'
  <2>1. Slot(Tid(0)) \in Slots /\ Slot(Tid(0) - 1) \in Slots /\ Tid(0) \in Nat
    BY PipesAreIds, PipeTypes
  <2>2. /\ pdone' \in [Pipes -> Nat] /\ pace' \in [Pipes -> Nat]
        /\ plast' = plast /\ phase' = phase
    BY <1>6, PipesAreIds, AdvanceType DEF EntryCheckpoint
  <2> QED
    BY <1>6, <2>1, <2>2 DEF EntryCheckpoint, TypeOK
<1>7. ASSUME EntrySkip PROVE TypeOK'
  <2>1. Slot(Tid(0)) \in Slots /\ Slot(Tid(0) - 1) \in Slots /\ Tid(0) \in Nat
    BY PipesAreIds, PipeTypes
  <2>2. /\ pdone' \in [Pipes -> Nat] /\ pace' \in [Pipes -> Nat]
        /\ plast' = plast /\ phase' = phase
    BY <1>7, PipesAreIds, AdvanceType DEF EntrySkip
  <2> QED
    BY <1>7, <2>1, <2>2 DEF EntrySkip, TypeOK
<1>8. ASSUME EntryTask PROVE TypeOK'
  <2>1. Slot(Tid(0)) \in Slots /\ Slot(Tid(0) - 1) \in Slots /\ Tid(0) \in Nat
    BY PipesAreIds, PipeTypes
  <2>2. /\ pdone' \in [Pipes -> Nat] /\ pace' \in [Pipes -> Nat]
        /\ plast' = plast /\ phase' = phase
    BY <1>8, PipesAreIds, AdvanceType DEF EntryTask
  <2> DEFINE s == Slot(Tid(0))
             prev == Slot(Tid(0) - 1)
  <2>a. s \in Slots /\ prev \in Slots
    BY <2>1
  <2>b. /\ ctxRoot \in [Slots -> SUBSET Nat] /\ ctxRootVer \in [Slots -> Nat]
        /\ pastVer \in [Slots -> Nat] /\ sno \in [Slots -> Nat]
    BY DEF TypeOK
  <2>c. /\ ctxRoot' = [ctxRoot EXCEPT ![s] = ctxRoot[prev] \union {sno[s]}]
        /\ ctxRootVer' = [ctxRootVer EXCEPT ![s] = sno[s]]
        /\ \/ pastVer' = [pastVer EXCEPT ![s] = 0]
           \/ pastVer' = [pastVer EXCEPT ![s] = ctxRootVer[prev]]
    BY <1>8 DEF EntryTask
  <2> HIDE DEF s, prev
  <2>d. ctxRoot' \in [Slots -> SUBSET Nat]
    <3>1. ctxRoot[prev] \union {sno[s]} \in SUBSET Nat
      BY <2>a, <2>b
    <3> QED
      BY <2>b, <2>c, <3>1
  <2>e. ctxRootVer' \in [Slots -> Nat]
    BY <2>a, <2>b, <2>c
  <2>f. pastVer' \in [Slots -> Nat]
    BY <2>a, <2>b, <2>c
  <2> USE DEF s, prev
  <2>4. /\ op' \in [Slots -> 0..DONE]
        /\ waitChild' \in [Slots -> {0, 1}]
    BY <1>8, <2>1, Constants DEF EntryTask, TypeOK
  <2> QED
    BY <1>8, <2>1, <2>2, <2>d, <2>e, <2>f, <2>4 DEF EntryTask, TypeOK
<1>9. ASSUME EntryBubble PROVE TypeOK'
  <2>1. Slot(Tid(0)) \in Slots /\ Slot(Tid(0) - 1) \in Slots /\ Tid(0) \in Nat
    BY PipesAreIds, PipeTypes
  <2>2. /\ pdone' \in [Pipes -> Nat] /\ pace' \in [Pipes -> Nat]
        /\ plast' = plast /\ phase' = phase
    BY <1>9, PipesAreIds, AdvanceType DEF EntryBubble
  <2> QED
    BY <1>9, <2>1, <2>2 DEF EntryBubble, TypeOK
<1>10. ASSUME NEW p \in InnerPipes, InnerTask(p) PROVE TypeOK'
  <2>1. Slot(Tid(p)) \in Slots /\ Slot(Tid(p) - 1) \in Slots /\ Tid(p) \in Nat
    BY PipesAreIds, PipeTypes
  <2>2. /\ pdone' \in [Pipes -> Nat] /\ pace' \in [Pipes -> Nat]
        /\ plast' = plast /\ phase' = phase
    BY <1>10, PipesAreIds, AdvanceType DEF InnerTask
  <2>3. /\ op' \in [Slots -> 0..DONE]
        /\ waitChild' \in [Slots -> {0, 1}]
        /\ newCheckpoint' \in [Slots -> BOOLEAN]
        /\ pastVer' \in [Slots -> Nat]
    BY <1>10, <2>1, HandleType DEF InnerTask
  <2> QED
    BY <1>10, <2>1, <2>2, <2>3 DEF InnerTask, TypeOK
<1>11. ASSUME NEW p \in InnerPipes, InnerPass(p) PROVE TypeOK'
  <2>1. Slot(Tid(p)) \in Slots /\ Slot(Tid(p) - 1) \in Slots /\ Tid(p) \in Nat
    BY PipesAreIds, PipeTypes
  <2>2. /\ pdone' \in [Pipes -> Nat] /\ pace' \in [Pipes -> Nat]
        /\ plast' = plast /\ phase' = phase
    BY <1>11, PipesAreIds, AdvanceType DEF InnerPass
  <2> QED
    BY <1>11, <2>1, <2>2 DEF InnerPass, TypeOK
<1>12. ASSUME ExitHandOff PROVE TypeOK'
  <2>1. Slot(Tid(NPipes)) \in Slots /\ Slot(Tid(NPipes) - 1) \in Slots /\ Tid(NPipes) \in Nat
    BY PipesAreIds, PipeTypes
  <2>2. /\ pdone' \in [Pipes -> Nat] /\ pace' \in [Pipes -> Nat]
        /\ plast' = plast /\ phase' = phase
    BY <1>12, PipesAreIds, AdvanceType DEF ExitHandOff
  <2> QED
    BY <1>12, <2>1, <2>2 DEF ExitHandOff, TypeOK
<1>13. ASSUME ExitDone PROVE TypeOK'
  <2>1. Slot(Tid(NPipes)) \in Slots /\ Slot(Tid(NPipes) - 1) \in Slots /\ Tid(NPipes) \in Nat
    BY PipesAreIds, PipeTypes
  <2>2. /\ pdone' \in [Pipes -> Nat] /\ pace' \in [Pipes -> Nat]
        /\ plast' = plast /\ phase' = phase
    BY <1>13, PipesAreIds, AdvanceType DEF ExitDone
  <2> QED
    BY <1>13, <2>1, <2>2, Constants DEF ExitDone, TypeOK
<1>14. ASSUME NEW p \in Pipes, NextBatch(p) PROVE TypeOK'
  BY <1>14, Constants DEF NextBatch, TypeOK
<1>15. ASSUME NEW p \in Pipes, Drain(p) PROVE TypeOK'
  BY <1>15, Constants DEF Drain, TypeOK
<1>16. ASSUME NEW p \in Pipes, PipeExit(p) PROVE TypeOK'
  BY <1>16, Constants DEF PipeExit, TypeOK
<1>17. ASSUME NEW w \in Workers, Take(w) PROVE TypeOK'
  BY <1>17, Constants DEF Take, TypeOK
<1>18. ASSUME NEW w \in Workers, Exec(w) PROVE TypeOK'
  <2>1. Slot(wjob[w]) \in Slots
    BY SlotInRing DEF TypeOK
  <2>2. /\ op' \in [Slots -> 0..DONE]
        /\ waitChild' \in [Slots -> {0, 1}]
        /\ newCheckpoint' \in [Slots -> BOOLEAN]
        /\ pastVer' \in [Slots -> Nat]
    BY <1>18, <2>1, HandleType DEF Exec
  <2> QED
    BY <1>18, <2>2 DEF Exec, TypeOK
<1>19. ASSUME NEW w \in Workers, StoreStage(w) PROVE TypeOK'
  <2>1. wstage[w] \in Nat
    BY DEF TypeOK
  <2>2. stages' \in [Slots -> Nat]
    BY <1>19, <2>1 DEF StoreStage, TypeOK
  <2> QED
    BY <1>19, <2>1, <2>2 DEF StoreStage, TypeOK
<1>20. ASSUME NEW w \in Workers, Finish(w) PROVE TypeOK'
  BY <1>20, Constants DEF Finish, TypeOK
<1>21. ASSUME NEW w \in Workers, Push(w) PROVE TypeOK'
  BY <1>21, Constants DEF Push, TypeOK
<1>22. ASSUME NEW w \in Workers, WorkerExit(w) PROVE TypeOK'
  BY <1>22, Constants DEF WorkerExit, TypeOK
<1>23. ASSUME ReadCounters PROVE TypeOK'
  BY <1>23, Constants DEF ReadCounters, TypeOK
<1>24. ASSUME ScanInited PROVE TypeOK'
  BY <1>24, Constants DEF ScanInited, TypeOK
<1>25. ASSUME AdvanceInited PROVE TypeOK'
  BY <1>25, Constants DEF AdvanceInited, TypeOK
<1>26. ASSUME ScanCommitted PROVE TypeOK'
  BY <1>26, Constants DEF ScanCommitted, TypeOK
<1>27. ASSUME NothingCommitted PROVE TypeOK'
  BY <1>27, Constants DEF NothingCommitted, TypeOK
<1>28. ASSUME StoreRoot PROVE TypeOK'
  <2>1. Slot(mNext) \in Slots
    BY SlotInRing DEF TypeOK
  <2> QED
    BY <1>28, <2>1 DEF StoreRoot, TypeOK
<1>29. ASSUME StoreCommitted PROVE TypeOK'
  BY <1>29, Constants DEF StoreCommitted, TypeOK
<1>30. ASSUME AppendBubbles PROVE TypeOK'
  <2>1. /\ mInited \in Nat /\ mInited % BatchSize \in 0..(BatchSize - 1)
    BY Constants DEF TypeOK
  <2>2. (BatchSize - (mInited % BatchSize)) % BatchSize \in Nat
    BY <2>1, Constants
  <2>3. mInited + Margin(mInited) \in Nat
    BY <2>1, <2>2, Constants DEF Margin
  <2> QED
    BY <1>30, <2>3 DEF AppendBubbles, TypeOK
<1>31. ASSUME Stop PROVE TypeOK'
  BY <1>31, Constants DEF Stop, TypeOK
<1>32. ASSUME StopWorkers PROVE TypeOK'
  BY <1>32, Constants DEF StopWorkers, TypeOK
<1>33. ASSUME UNCHANGED vars PROVE TypeOK'
  BY <1>33 DEF vars, TypeOK
<1> QED
  BY <1>1, <1>2, <1>3, <1>4, <1>5, <1>6, <1>7, <1>8, <1>9,
     <1>10, <1>11, <1>12, <1>13, <1>14, <1>15, <1>16, <1>17, <1>18,
     <1>19, <1>20, <1>21, <1>22, <1>23, <1>24, <1>25, <1>26, <1>27,
     <1>28, <1>29, <1>30, <1>31, <1>32, <1>33
  DEF Next, Submitting, Entry, Inner, Exit, Batch, Worker, Monitor

\* Every variable of the scheduler keeps its type: slots stay slots, op never
\* passes DONE.
THEOREM TypeCorrect == Spec => []TypeOK
<1>1. Init => TypeOK
  BY InitType
<1>2. TypeOK /\ [Next]_vars => TypeOK'
  BY StepType
<1> QED
  BY <1>1, <1>2, PTL DEF Spec

-------------------------------------------------------------------------------
(* Where ids are: facts about one state *)

LEMMA SlotsDiffer ==
    \A a, b \in Nat : a < b /\ b < a + BufferSize => Slot(a) # Slot(b)
BY SlotInjective

\* The slot comes round.
LEMMA SlotWraps ==
    ASSUME NEW t \in Nat
    PROVE  Slot(t + BufferSize) = Slot(t)
<1>1. BufferSize \in Nat /\ BufferSize > 0
  BY RingAssumption
<1> DEFINE q == t \div BufferSize
           r == t % BufferSize
<1>2. q \in Int /\ r \in 0..(BufferSize - 1) /\ t = BufferSize * q + r
  BY <1>1
<1>3. t + BufferSize = BufferSize * (q + 1) + r
  <2> HIDE DEF q, r
  <2> QED
    BY <1>1, <1>2
<1>4. (t + BufferSize) % BufferSize = r
  <2> DEFINE u == (t + BufferSize) \div BufferSize
             v == (t + BufferSize) % BufferSize
  <2>1. /\ u \in Int /\ v \in 0..(BufferSize - 1)
        /\ t + BufferSize = BufferSize * u + v
    BY <1>1
  <2> HIDE DEF q, r, u, v
  <2>2. BufferSize * (u - (q + 1)) = r - v
    BY <1>1, <1>2, <1>3, <2>1
  <2>3. r - v < BufferSize /\ r - v > -BufferSize
    BY <1>1, <1>2, <2>1
  <2>4. u - (q + 1) >= 1 => BufferSize * (u - (q + 1)) >= BufferSize
    BY <1>1, <1>2, <2>1
  <2>5. u - (q + 1) <= -1 => BufferSize * (u - (q + 1)) <= -BufferSize
    BY <1>1, <1>2, <2>1
  <2>6. u - (q + 1) = 0
    BY <1>1, <1>2, <2>1, <2>2, <2>3, <2>4, <2>5
  <2>7. r = v
    BY <1>1, <1>2, <2>1, <2>2, <2>6
  <2> QED
    BY <2>7 DEF v
<1> QED
  BY <1>4 DEF Slot, r

\* What the monitor has seen inited is published.
LEMMA InitedPublished ==
    ASSUME IInv, NEW t \in Nat, nCommitted < t, t <= mInited
    PROVE  t \in Published /\ t < nCommitted + BufferSize
<1>1. ~Held(t)
  BY DEF IInv, ClientsInOrder, Held, TypeOK
<1>2. t \in Published
  BY <1>1 DEF IInv, CountersInOrder, Published, TypeOK
<1> QED
  BY <1>2 DEF IInv, ClientsInOrder

\* The next id of a pipe that may proceed is published, or a bubble whose
\* slot is finished.
LEMMA ReadyId ==
    ASSUME IInv, NEW p \in Pipes, Ready(p)
    PROVE  LET t == Tid(p) IN
           /\ t \in Nat /\ t > nCommitted /\ t < nCommitted + BufferSize
           /\ t > mNext /\ t > pdone[NPipes]
           /\ \/ /\ t \in Published /\ t <= mInited /\ stages[Slot(t)] = 0
              \/ /\ t > nSubmitted
                 /\ op[Slot(t)] = DONE /\ stages[Slot(t)] = AllOnes
<1> DEFINE t == Tid(p)
<1> HIDE DEF t
<1>0. t = Tid(p) /\ t = pdone[p] + 1
  BY DEF t, Tid
<1>1. t \in Nat /\ pdone[p] \in Nat
  BY <1>0 DEF IInv, TypeOK
<1>2. NPipes \in Pipes /\ 0 \in Pipes
  BY PipesAreIds
<1>3. t > mNext /\ t > pdone[NPipes] /\ t > nCommitted
  BY <1>0, <1>1, <1>2 DEF IInv, CountersInOrder, TypeOK, Pipes
<1>4. t <= pace[0]
  <2>1. CASE p = 0
    BY <2>1, <1>0 DEF Ready
  <2>2. CASE p # 0
    <3>1. p - 1 \in Pipes /\ 0 <= p - 1 /\ p > 0
      BY <2>2, Constants DEF Pipes
    <3>2. t <= pdone[p - 1]
      BY <3>1, <1>0 DEF Ready, IInv, CountersInOrder
    <3>3. pdone[p - 1] <= pdone[0] /\ pdone[0] <= pace[0]
      BY <3>1, <1>2 DEF IInv, CountersInOrder
    <3> QED
      BY <3>1, <3>2, <3>3, <1>1, <1>2 DEF IInv, TypeOK
  <2> QED
    BY <2>1, <2>2
<1>5. CASE mpc # "exited"
  <2>1. t <= mInited
    BY <1>1, <1>2, <1>4, <1>5 DEF IInv, CountersInOrder, TypeOK
  <2>2. t \in Published /\ t < nCommitted + BufferSize
    BY <2>1, <1>1, <1>3, InitedPublished
  <2>3. stages[Slot(t)] = 0
    BY <2>2, <1>3 DEF IInv, PublishedSlots, PublishedSlot
  <2> QED
    BY <2>1, <2>2, <2>3, <1>0, <1>1, <1>3
<1>6. CASE mpc = "exited"
  <2>1. /\ nCommitted = nSubmitted /\ pace[0] < nSubmitted + BufferSize
        /\ \A c \in Clients : cpc[c] = "idle"
    BY <1>6 DEF IInv, StopInOrder
  <2>2. t > nSubmitted /\ t < nCommitted + BufferSize
    BY <1>1, <1>2, <1>3, <1>4, <2>1, Constants DEF IInv, TypeOK
  <2>3. t \in Vacant
    BY <1>1, <1>3, <2>2, Constants DEF Vacant, IInv, TypeOK
  <2>4. op[Slot(t)] = DONE /\ stages[Slot(t)] = AllOnes
    BY <2>1, <2>3 DEF IInv, VacantSlots, VacantSlot
  <2> QED
    BY <2>2, <2>4, <1>0, <1>1, <1>3
<1> QED
  BY <1>5, <1>6

\* A worker's task is published and has run its first handler.
LEMMA TaskId ==
    ASSUME IInv, NEW w \in Workers, HasTask(w)
    PROVE  /\ wtid[w] \in Nat /\ wtid[w] \in Published
           /\ wtid[w] > nCommitted /\ wtid[w] < nCommitted + BufferSize
           /\ wtid[w] <= pdone[0] /\ op[Slot(wtid[w])] > 0
           /\ sno[Slot(wtid[w])] = wtid[w]
<1>1. wtid[w] \in Nat
  BY DEF HasTask, IInv, TypeOK
<1>2. /\ wtid[w] > mNext /\ wtid[w] <= pdone[NPipes]
      /\ wtid[w] <= nSubmitted
  BY DEF IInv, WorkersInOrder
<1>3. wtid[w] <= pdone[0] /\ wtid[w] > nCommitted
  <2>1. /\ pdone[0] \in Nat /\ pdone[NPipes] \in Nat
        /\ mNext \in Nat /\ nCommitted \in Nat
    BY PipesAreIds DEF IInv, TypeOK
  <2>2. pdone[NPipes] <= pdone[0] /\ nCommitted <= mNext
    BY PipesAreIds, Constants DEF IInv, CountersInOrder
  <2> QED
    BY <1>1, <1>2, <2>1, <2>2
<1>4. mpc # "exited"
  BY <1>1, <1>3, <1>2 DEF IInv, StopInOrder, TypeOK
<1>5. wtid[w] <= mInited
  BY <1>1, <1>3, <1>4, PipesAreIds DEF IInv, CountersInOrder, TypeOK
<1>6. wtid[w] \in Published /\ wtid[w] < nCommitted + BufferSize
  BY <1>1, <1>3, <1>5, InitedPublished
<1> QED
  BY <1>1, <1>3, <1>6 DEF IInv, PublishedSlots, PublishedSlot

\* The ids of the window, published or vacant, and its first id.
LEMMA WindowIds ==
    ASSUME IInv
    PROVE  \A t \in Published \union Vacant :
             t \in Nat /\ nCommitted < t /\ t < nCommitted + BufferSize
<1>1. nCommitted \in Nat /\ nSubmitted \in Nat
  BY DEF IInv, TypeOK
<1>2. \A t \in Published : t \in Nat /\ nCommitted < t
  BY <1>1 DEF Published
<1>3. \A t \in Published : t < nCommitted + BufferSize
  BY DEF IInv, ClientsInOrder
<1>4. \A t \in Vacant :
        t \in Nat /\ nCommitted < t /\ t < nCommitted + BufferSize
  BY <1>1, Constants DEF Vacant
<1> QED
  BY <1>2, <1>3, <1>4

\* Two ids of the window have different slots.
LEMMA OtherSlot ==
    ASSUME TypeOK, NEW t \in Nat, NEW u \in Nat, t # u,
           nCommitted <= t, t < nCommitted + BufferSize,
           nCommitted <= u, u < nCommitted + BufferSize
    PROVE  Slot(t) # Slot(u)
<1>1. nCommitted \in Nat
  BY DEF TypeOK
<1>2. (t < u /\ u < t + BufferSize) \/ (u < t /\ t < u + BufferSize)
  BY <1>1, Constants
<1> QED
  BY <1>2, SlotsDiffer

LEMMA CheckpointSlot ==
    ASSUME NEW t \in Nat
    PROVE  IsCheckpoint(t) <=> Slot(t) = 0
BY DEF IsCheckpoint, Slot

\* An id some client holds is ahead of the monitor and of every pipe.
LEMMA ClaimedId ==
    ASSUME IInv, NEW c \in Clients, cpc[c] # "idle"
    PROVE  /\ ctid[c] \in Nat /\ ctid[c] <= nSubmitted /\ Held(ctid[c])
           /\ ctid[c] > mInited /\ ctid[c] > mNext /\ ctid[c] > nCommitted
           /\ ctid[c] > pdone[0] /\ ctid[c] > pdone[NPipes]
           /\ ~stop /\ mpc # "exited"
           /\ Writing(c) => /\ ctid[c] < nCommitted + BufferSize
                            /\ ctid[c] \in Vacant
                            /\ VacantSlot(ctid[c])
<1> DEFINE t == ctid[c]
<1>1. /\ t \in Nat /\ nCommitted \in Nat /\ mNext \in Nat
      /\ mInited \in Nat /\ pace[0] \in Nat
      /\ pdone[0] \in Nat /\ pdone[NPipes] \in Nat
  BY PipesAreIds DEF IInv, TypeOK
<1>2. t <= nSubmitted /\ Held(t) /\ t > mInited
  BY DEF IInv, ClientsInOrder, Held
<1>3. ~stop /\ mpc # "exited"
  BY DEF IInv, StopInOrder
<1>4. /\ nCommitted <= mNext /\ mNext <= mInited
      /\ pdone[NPipes] <= pdone[0] /\ pdone[0] <= pace[0]
      /\ pace[0] <= mInited
  BY <1>3, PipesAreIds, Constants DEF IInv, CountersInOrder
<1>5. t > mNext /\ t > nCommitted /\ t > pdone[0] /\ t > pdone[NPipes]
  BY <1>1, <1>2, <1>4
<1>6. ASSUME Writing(c)
      PROVE  t < nCommitted + BufferSize /\ t \in Vacant /\ VacantSlot(t)
  <2>1. t < nCommitted + BufferSize
    BY <1>6 DEF IInv, ClientsInOrder
  <2>2. t \in Vacant
    BY <1>1, <1>2, <1>5, <2>1, Constants DEF Vacant
  <2> QED
    BY <2>1, <2>2 DEF IInv, VacantSlots
<1> QED
  BY <1>1, <1>2, <1>3, <1>5, <1>6

\* When no client moves and the window stays, its ids keep their kinds.
LEMMA IdsKept ==
    ASSUME UNCHANGED <<nSubmitted, nCommitted, cpc, ctid>>
    PROVE  Published' = Published /\ Vacant' = Vacant
BY DEF Published, Vacant, Held

-------------------------------------------------------------------------------
(* Steps of clients *)

LEMMA ClaimInv ==
    ASSUME IInv, TypeOK', NEW c \in Clients, Claim(c)
    PROVE  IInv'
<1> USE DEF counters, ctxs, pipes, workers, clients, monitor
<1>1. \A t \in Nat : Held(t)' <=> Held(t) \/ t = nSubmitted + 1
  BY DEF Claim, Held, IInv, TypeOK
<1>2. ~Held(nSubmitted + 1)
  BY DEF Held, IInv, ClientsInOrder, TypeOK
<1>3. Published' = Published /\ Vacant' = Vacant
  BY <1>1, <1>2, Constants DEF Published, Vacant, Claim, IInv, TypeOK
<1>4. CountersInOrder'
  BY DEF Claim, IInv, CountersInOrder, TypeOK
<1>5. StopInOrder'
  BY DEF Claim, IInv, StopInOrder
<1>6. ClientsInOrder'
  <2>1. \A d \in Clients : cpc'[d] # "idle" =>
          \/ d = c /\ ctid'[d] = nSubmitted + 1
          \/ d # c /\ cpc[d] # "idle" /\ ctid'[d] = ctid[d] /\ ctid[d] <= nSubmitted
    BY DEF Claim, IInv, ClientsInOrder, TypeOK
  <2>2. mInited < nSubmitted + 1
    BY DEF IInv, CountersInOrder, TypeOK
  <2>3. \A d \in Clients : cpc'[d] # "full" => cpc'[d] = cpc[d] /\ ctid'[d] = ctid[d]
    BY DEF Claim, IInv, TypeOK
  <2>4. \A d \in Clients : cpc'[d] # "idle" =>
          ctid'[d] > mInited' /\ ctid'[d] <= nSubmitted'
    BY <2>1, <2>2 DEF Claim, IInv, ClientsInOrder, TypeOK
  <2>5. \A d, e \in Clients :
          d # e /\ cpc'[d] # "idle" /\ cpc'[e] # "idle" => ctid'[d] # ctid'[e]
    <3>1. nSubmitted \in Nat
      BY DEF IInv, TypeOK
    <3>2. \A d, e \in Clients :
            d # e /\ cpc[d] # "idle" /\ cpc[e] # "idle" => ctid[d] # ctid[e]
      BY DEF IInv, ClientsInOrder
    <3> QED
      BY <2>1, <3>1, <3>2
  <2> QED
    BY <1>3, <2>3, <2>4, <2>5 DEF Claim, IInv, ClientsInOrder, Writing
<1>7. PublishedSlots'
  BY <1>3 DEF Claim, IInv, PublishedSlots, PublishedSlot, HasTask
<1>8. VacantSlots'
  BY <1>3 DEF Claim, IInv, VacantSlots, VacantSlot, TypeOK
<1>9. WorkersInOrder'
  BY DEF Claim, IInv, WorkersInOrder, HasTask, Running, TypeOK
<1> QED
  BY <1>4, <1>5, <1>6, <1>7, <1>8, <1>9 DEF IInv

LEMMA EnterInv ==
    ASSUME IInv, TypeOK', NEW c \in Clients, Enter(c)
    PROVE  IInv'
<1> USE DEF counters, ctxs, pipes, workers, clients, monitor
<1>1. \A t : Held(t)' <=> Held(t)
  BY DEF Enter, Held, IInv, TypeOK
<1>2. Published' = Published /\ Vacant' = Vacant
  BY <1>1 DEF Published, Vacant, Enter
<1>3. CountersInOrder' /\ StopInOrder'
  BY DEF Enter, IInv, CountersInOrder, StopInOrder, TypeOK
<1>4. ClientsInOrder'
  BY <1>2, Constants
  DEF Enter, IInv, ClientsInOrder, Writing, BufferFull, TypeOK
<1>5. PublishedSlots'
  BY <1>2 DEF Enter, IInv, PublishedSlots, PublishedSlot, HasTask
<1>6. VacantSlots'
  BY <1>2 DEF Enter, IInv, VacantSlots, VacantSlot, TypeOK
<1>7. WorkersInOrder'
  BY DEF Enter, IInv, WorkersInOrder, HasTask, Running
<1> QED
  BY <1>3, <1>4, <1>5, <1>6, <1>7 DEF IInv

LEMMA PublishCheckpointInv ==
    ASSUME IInv, TypeOK', NEW c \in Clients, PublishCheckpoint(c)
    PROVE  IInv'
<1> USE DEF counters, ctxs, pipes, workers, clients, monitor
<1> DEFINE u == ctid[c]
<1>1. /\ u \in Nat /\ u <= nSubmitted /\ u > mInited /\ u > mNext
      /\ u > nCommitted /\ u > pdone[0] /\ u > pdone[NPipes]
      /\ ~stop /\ mpc # "exited"
      /\ u < nCommitted + BufferSize /\ u \in Vacant /\ VacantSlot(u)
  BY ClaimedId DEF PublishCheckpoint, Writing
<1>2. Slot(u) = 0 /\ IsCheckpoint(u)
  BY <1>1, CheckpointSlot DEF PublishCheckpoint, IInv, ClientsInOrder
<1>3. \A d \in Clients : d # c /\ cpc[d] # "idle" =>
        ctid[d] # u /\ ctid[d] <= nSubmitted
  BY DEF IInv, ClientsInOrder, PublishCheckpoint
<1>4. \A t \in Nat : Held(t)' <=> (Held(t) /\ t # u) \/ t = nSubmitted + 1
  BY <1>1, <1>3 DEF PublishCheckpoint, Held, IInv, TypeOK
<1>5. ~Held(nSubmitted + 1) /\ Held(u)
  BY DEF Held, IInv, ClientsInOrder, TypeOK, PublishCheckpoint
<1>6. Published' = Published \union {u} /\ Vacant' = Vacant \ {u}
  BY <1>1, <1>4, <1>5, Constants
  DEF Published, Vacant, PublishCheckpoint, IInv, TypeOK
<1>7. CountersInOrder'
  BY DEF PublishCheckpoint, IInv, CountersInOrder, TypeOK
<1>8. StopInOrder'
  BY <1>1 DEF PublishCheckpoint, IInv, StopInOrder
<1>9. ClientsInOrder'
  <2>1. \A d \in Clients : cpc'[d] # "idle" =>
          \/ d = c /\ ctid'[d] = nSubmitted + 1
          \/ d # c /\ cpc[d] # "idle" /\ ctid'[d] = ctid[d] /\ ctid[d] <= nSubmitted
    BY <1>3 DEF PublishCheckpoint, IInv, TypeOK
  <2>2. mInited < nSubmitted + 1
    BY DEF IInv, CountersInOrder, TypeOK
  <2>3. \A d \in Clients : cpc'[d] # "full" => cpc'[d] = cpc[d] /\ ctid'[d] = ctid[d]
    BY DEF PublishCheckpoint, IInv, TypeOK
  <2>4. \A d \in Clients : cpc'[d] # "idle" =>
          ctid'[d] > mInited' /\ ctid'[d] <= nSubmitted'
    BY <2>1, <2>2 DEF PublishCheckpoint, IInv, ClientsInOrder, TypeOK
  <2>5. \A d, e \in Clients :
          d # e /\ cpc'[d] # "idle" /\ cpc'[e] # "idle" => ctid'[d] # ctid'[e]
    <3>1. nSubmitted \in Nat
      BY DEF IInv, TypeOK
    <3>2. \A d, e \in Clients :
            d # e /\ cpc[d] # "idle" /\ cpc[e] # "idle" => ctid[d] # ctid[e]
      BY DEF IInv, ClientsInOrder
    <3> QED
      BY <2>1, <3>1, <3>2
  <2>6. \A t \in Published' : t < nCommitted' + BufferSize
    BY <1>1, <1>6 DEF PublishCheckpoint, IInv, ClientsInOrder
  <2> QED
    BY <2>3, <2>4, <2>5, <2>6 DEF PublishCheckpoint, IInv, ClientsInOrder, Writing
<1>10. \A t \in Published \union (Vacant \ {u}) \union {nCommitted} : Slot(t) # 0
  BY <1>1, <1>2, <1>5, WindowIds, OtherSlot, Constants DEF Published, IInv, TypeOK
<1>11. PublishedSlots'
  <2> SUFFICES ASSUME NEW t \in Published' PROVE PublishedSlot(t)'
    BY DEF PublishedSlots
  <2>1. CASE t = u
    <3>1. 0 \in Slots
      BY Constants DEF Slots
    <3>2. sno'[0] = u /\ stages'[0] = 0 /\ op'[0] = DONE
      BY <3>1 DEF PublishCheckpoint, IInv, VacantSlots, TypeOK
    <3>3. pdone' = pdone /\ mNext' = mNext
      BY DEF PublishCheckpoint
    <3> HIDE DEF u
    <3>4. u <= mNext => FALSE
      BY <1>1 DEF IInv, TypeOK
    <3>5. u <= pdone[0] \/ u <= pdone[NPipes] => FALSE
      BY <1>1, PipesAreIds DEF IInv, TypeOK
    <3>6. 0 # AllOnes
      BY DEF AllOnes
    <3> QED
      BY <1>2, <2>1, <3>2, <3>3, <3>4, <3>5, <3>6 DEF PublishedSlot
  <2>2. CASE t # u
    BY <1>6, <1>10, <2>2
    DEF PublishCheckpoint, IInv, PublishedSlots, PublishedSlot, HasTask, TypeOK
  <2> QED
    BY <2>1, <2>2
<1>12. VacantSlots'
  <2>1. \A t \in Vacant' : VacantSlot(t)'
    BY <1>6, <1>10
    DEF PublishCheckpoint, IInv, VacantSlots, VacantSlot, TypeOK
  <2> QED
    BY <1>10, <2>1 DEF PublishCheckpoint, IInv, VacantSlots, TypeOK
<1>13. WorkersInOrder'
  <2>1. \A w \in Workers : HasTask(w) => Slot(wtid[w]) # 0
    BY <1>10, TaskId
  <2> QED
    BY <2>1 DEF PublishCheckpoint, IInv, WorkersInOrder, HasTask, Running, TypeOK
<1> QED
  BY <1>7, <1>8, <1>9, <1>11, <1>12, <1>13 DEF IInv

LEMMA WriteInv ==
    ASSUME IInv, TypeOK', NEW c \in Clients, Write(c)
    PROVE  IInv'
<1> USE DEF counters, ctxs, pipes, workers, clients, monitor
<1> DEFINE u == ctid[c]
<1>1. /\ u \in Nat /\ u > mNext /\ u > nCommitted /\ u > pdone[NPipes]
      /\ u < nCommitted + BufferSize /\ u \in Vacant /\ VacantSlot(u)
      /\ Held(u) /\ Slot(u) \in Slots
  BY ClaimedId, SlotInRing DEF Write, Writing
<1>2. Slot(u) # 0
  BY <1>1, CheckpointSlot DEF Write, IInv, ClientsInOrder
<1>3. \A t : Held(t)' <=> Held(t)
  BY DEF Write, Held, IInv, TypeOK
<1>4. Published' = Published /\ Vacant' = Vacant
  BY <1>3 DEF Published, Vacant, Write
<1>5. CountersInOrder' /\ StopInOrder'
  BY DEF Write, IInv, CountersInOrder, StopInOrder, TypeOK
<1>6. ClientsInOrder'
  BY <1>4 DEF Write, IInv, ClientsInOrder, Writing, TypeOK
<1>7. \A t \in (Published \union (Vacant \ {u})) \union {nCommitted} :
        Slot(t) # Slot(u)
  BY <1>1, WindowIds, OtherSlot, Constants DEF Published, IInv, TypeOK
<1>8. PublishedSlots'
  BY <1>4, <1>7 DEF Write, IInv, PublishedSlots, PublishedSlot, HasTask, TypeOK
<1>9. VacantSlots'
  <2>1. \A t \in Vacant \ {u} : VacantSlot(t)'
    BY <1>7 DEF Write, IInv, VacantSlots, VacantSlot, TypeOK
  <2>2. VacantSlot(u)'
    BY <1>1 DEF Write, VacantSlot, IInv, TypeOK
  <2> QED
    BY <1>2, <1>4, <1>7, <2>1, <2>2 DEF Write, IInv, VacantSlots, TypeOK
<1>10. WorkersInOrder'
  <2>1. \A w \in Workers : HasTask(w) => Slot(wtid[w]) # Slot(u)
    BY <1>7, TaskId
  <2> QED
    BY <2>1 DEF Write, IInv, WorkersInOrder, HasTask, Running, TypeOK
<1> QED
  BY <1>5, <1>6, <1>8, <1>9, <1>10 DEF IInv

LEMMA PublishInv ==
    ASSUME IInv, TypeOK', NEW c \in Clients, Publish(c)
    PROVE  IInv'
<1> USE DEF counters, ctxs, pipes, workers, clients, monitor
<1> DEFINE u == ctid[c]
<1>1. /\ u \in Nat /\ u <= nSubmitted /\ u > mInited /\ u > mNext
      /\ u > nCommitted /\ u > pdone[0] /\ u > pdone[NPipes]
      /\ u < nCommitted + BufferSize /\ u \in Vacant /\ VacantSlot(u)
      /\ Held(u) /\ Slot(u) \in Slots
  BY ClaimedId, SlotInRing DEF Publish, Writing
<1>2. ~IsCheckpoint(u) /\ Slot(u) # 0
  BY <1>1, CheckpointSlot DEF Publish, IInv, ClientsInOrder
<1>3. \A d \in Clients : d # c /\ cpc[d] # "idle" => ctid[d] # u
  BY DEF IInv, ClientsInOrder, Publish
<1>4. \A t : Held(t)' <=> Held(t) /\ t # u
  BY <1>3 DEF Publish, Held, IInv, TypeOK
<1>5. Published' = Published \union {u} /\ Vacant' = Vacant \ {u}
  BY <1>1, <1>4, Constants DEF Published, Vacant, Publish, IInv, TypeOK
<1>6. CountersInOrder' /\ StopInOrder'
  BY DEF Publish, IInv, CountersInOrder, StopInOrder, TypeOK
<1>7. ClientsInOrder'
  <2>1. \A t \in Published' : t < nCommitted' + BufferSize
    BY <1>1, <1>5 DEF Publish, IInv, ClientsInOrder
  <2>2. \A d \in Clients : cpc'[d] # "idle" => cpc'[d] = cpc[d] /\ d # c
    BY DEF Publish, IInv, TypeOK
  <2> QED
    BY <2>1, <2>2 DEF Publish, IInv, ClientsInOrder, Writing
<1>8. \A t \in (Published \union (Vacant \ {u})) \union {nCommitted} :
        Slot(t) # Slot(u)
  BY <1>1, WindowIds, OtherSlot, Constants DEF Published, IInv, TypeOK
<1>9. PublishedSlots'
  <2> SUFFICES ASSUME NEW t \in Published' PROVE PublishedSlot(t)'
    BY DEF PublishedSlots
  <2>1. CASE t = u
    <3>1. stages'[Slot(u)] = 0
      BY <1>1 DEF Publish, IInv, TypeOK
    <3>2. op'[Slot(u)] = 0 /\ waitChild'[Slot(u)] = 0 /\ sno'[Slot(u)] = u
      BY <1>1 DEF Publish, VacantSlot
    <3>3. pdone' = pdone /\ mNext' = mNext
      BY DEF Publish
    <3> HIDE DEF u
    <3>4. (u <= mNext => FALSE) /\ (u <= pdone[0] => FALSE)
          /\ (u <= pdone[NPipes] => FALSE)
      BY <1>1, PipesAreIds DEF IInv, TypeOK
    <3>5. 0 # AllOnes
      BY DEF AllOnes
    <3> QED
      BY <1>2, <2>1, <3>1, <3>2, <3>3, <3>4, <3>5 DEF PublishedSlot
  <2>2. CASE t # u
    BY <1>5, <1>8, <2>2
    DEF Publish, IInv, PublishedSlots, PublishedSlot, HasTask, TypeOK
  <2> QED
    BY <2>1, <2>2
<1>10. VacantSlots'
  <2>1. \A d \in Clients : \A t \in Vacant' :
          cpc'[d] = "publish" /\ ctid'[d] = t <=> cpc[d] = "publish" /\ ctid[d] = t
    BY <1>5 DEF Publish, IInv, TypeOK
  <2>2. \A t \in Vacant' : VacantSlot(t)'
    BY <1>5, <1>8, <2>1 DEF Publish, IInv, VacantSlots, VacantSlot, TypeOK
  <2> QED
    BY <1>8, <2>2 DEF Publish, IInv, VacantSlots, TypeOK
<1>11. WorkersInOrder'
  <2>1. \A w \in Workers : HasTask(w) => Slot(wtid[w]) # Slot(u)
    BY <1>8, TaskId
  <2> QED
    BY <2>1 DEF Publish, IInv, WorkersInOrder, HasTask, Running, TypeOK
<1> QED
  BY <1>6, <1>7, <1>9, <1>10, <1>11 DEF IInv

-------------------------------------------------------------------------------
(* Steps of pipes *)

\* A pipe that takes its next id keeps the counters in order.
LEMMA AdvanceOrder ==
    ASSUME IInv, TypeOK', NEW p \in Pipes, Ready(p), Advance(p),
           UNCHANGED <<nSubmitted, nCommitted, mpc, mSub, mInited, mNext>>
    PROVE  /\ CountersInOrder'
           /\ pace'[0] = pace[0]
           /\ pdone'[0] >= pdone[0] /\ pdone'[NPipes] >= pdone[NPipes]
           /\ \A q \in Pipes : pdone'[q] = IF q = p THEN Tid(p) ELSE pdone[q]
<1>1. /\ \A q \in Pipes : pdone[q] \in Nat /\ pace[q] \in Nat
      /\ nCommitted \in Nat /\ mNext \in Nat /\ mInited \in Nat
      /\ NPipes \in Pipes /\ 0 \in Pipes
      /\ \A q \in Pipes : q \in Nat /\ q <= NPipes
  <2>1. \A q \in Pipes : q \in Nat /\ q <= NPipes
    BY Constants DEF Pipes
  <2> QED
    BY <2>1, PipesAreIds DEF IInv, TypeOK
<1>2. Tid(p) = pdone[p] + 1
  BY DEF Tid
<1>3. \A q \in Pipes : pdone'[q] = IF q = p THEN Tid(p) ELSE pdone[q]
  BY DEF Advance, IInv, TypeOK
<1>4. \A q \in Pipes : pace'[q] = IF q = p + 1 THEN Tid(p) ELSE pace[q]
  BY <1>1 DEF Advance, IInv, TypeOK
<1>5. pace'[0] = pace[0]
  BY <1>1, <1>4
<1>6. pdone'[0] >= pdone[0] /\ pdone'[NPipes] >= pdone[NPipes]
  BY <1>1, <1>2, <1>3
<1>7. \A q, r \in Pipes : q <= r => pdone[r] <= pdone[q]
  BY DEF IInv, CountersInOrder
<1>8. \A q \in Pipes : q > 0 => pace[q] = pdone[q - 1]
  BY DEF IInv, CountersInOrder
<1>9. Tid(p) <= pace[p]
  BY DEF Ready
<1>10. p > 0 => p - 1 \in Pipes /\ Tid(p) <= pdone[p - 1]
  BY <1>8, <1>9, Constants DEF Pipes
<1>11. \A q \in Pipes : q < p => Tid(p) <= pdone[q]
  <2> SUFFICES ASSUME NEW q \in Pipes, q < p PROVE Tid(p) <= pdone[q]
    OBVIOUS
  <2>1. p > 0 /\ q <= p - 1
    BY <1>1
  <2> QED
    BY <2>1, <1>1, <1>2, <1>7, <1>10
<1>12. \A q, r \in Pipes : q <= r => pdone'[r] <= pdone'[q]
  BY <1>1, <1>2, <1>3, <1>7, <1>11
<1>13. \A q \in Pipes : q > 0 => pace'[q] = pdone'[q - 1]
  <2> SUFFICES ASSUME NEW q \in Pipes, q > 0 PROVE pace'[q] = pdone'[q - 1]
    OBVIOUS
  <2>1. q - 1 \in Pipes /\ (q - 1 = p <=> q = p + 1)
    BY Constants DEF Pipes
  <2> QED
    BY <2>1, <1>3, <1>4, <1>8
<1>14. pdone'[0] <= pace'[0]
  <2>1. pdone[0] <= pace[0]
    BY DEF IInv, CountersInOrder
  <2> QED
    BY <2>1, <1>1, <1>3, <1>5, <1>9
<1>15. /\ nCommitted <= mNext /\ mNext <= pdone[NPipes] /\ mNext <= mInited
       /\ mInited <= nSubmitted /\ mSub <= nSubmitted
       /\ mpc # "exited" => pace[0] <= mInited
  BY DEF IInv, CountersInOrder
<1>16. mNext <= pdone'[NPipes]
  BY <1>1, <1>2, <1>3, <1>15
<1>17. CountersInOrder'
  BY <1>5, <1>12, <1>13, <1>14, <1>15, <1>16 DEF CountersInOrder
<1> QED
  BY <1>3, <1>5, <1>6, <1>17

\* An ENTRY step that only passes an id on, whose slot holds no new task.
LEMMA EntryPassInv ==
    ASSUME IInv, TypeOK', Ready(0), Advance(0), op[Slot(Tid(0))] # 0,
           UNCHANGED <<counters, stop, stages, op, waitChild, sno, workers,
                       clients, monitor>>
    PROVE  IInv'
<1> USE DEF counters, workers, clients, monitor
<1> DEFINE u == Tid(0)
<1>1. /\ CountersInOrder' /\ pace'[0] = pace[0]
      /\ pdone'[0] = pdone[0] + 1 /\ pdone'[NPipes] = pdone[NPipes]
      /\ u = pdone[0] + 1 /\ pdone[0] \in Nat
  BY AdvanceOrder, PipesAreIds, Constants DEF Tid, IInv, TypeOK
<1>2. Published' = Published /\ Vacant' = Vacant
  BY IdsKept
<1>3. StopInOrder'
  BY <1>1 DEF Advance, IInv, StopInOrder
<1>4. ClientsInOrder'
  BY <1>2 DEF IInv, ClientsInOrder, Writing
<1>5. PublishedSlots'
  <2> SUFFICES ASSUME NEW t \in Published PROVE PublishedSlot(t)'
    BY <1>2 DEF PublishedSlots
  <2>1. t \in Nat /\ PublishedSlot(t) /\ Slot(t) \in Slots
    BY WindowIds, SlotInRing DEF IInv, PublishedSlots
  <2>2. op[Slot(t)] \in Nat
    BY <2>1 DEF IInv, TypeOK
  <2>3. t <= pdone'[0] => t <= pdone[0] \/ t = u
    BY <1>1, <2>1
  <2>4. t > pdone'[0] => t > pdone[0]
    BY <1>1, <2>1
  <2> QED
    BY <1>1, <2>1, <2>2, <2>3, <2>4 DEF PublishedSlot, HasTask
<1>6. VacantSlots'
  BY <1>2 DEF IInv, VacantSlots, VacantSlot
<1>7. WorkersInOrder'
  BY <1>1 DEF IInv, WorkersInOrder, HasTask, Running
<1> QED
  BY <1>1, <1>3, <1>4, <1>5, <1>6, <1>7 DEF IInv

\* At a checkpoint slot, op is DONE.
LEMMA CheckpointOp ==
    ASSUME IInv, NEW t \in Nat, IsCheckpoint(t)
    PROVE  op[Slot(t)] # 0
BY CheckpointSlot, Constants DEF IInv, VacantSlots

LEMMA EntryCheckpointInv == IInv /\ TypeOK' /\ EntryCheckpoint => IInv'
<1> SUFFICES ASSUME IInv, TypeOK', EntryCheckpoint PROVE IInv'
  OBVIOUS
<1>1. Tid(0) \in Nat
  BY PipeTypes, PipesAreIds DEF IInv
<1>2. op[Slot(Tid(0))] # 0
  BY <1>1, CheckpointOp DEF EntryCheckpoint
<1> QED
  BY <1>2, EntryPassInv DEF EntryCheckpoint

LEMMA EntrySkipInv == IInv /\ TypeOK' /\ EntrySkip => IInv'
<1> SUFFICES ASSUME IInv, TypeOK', EntrySkip PROVE IInv'
  OBVIOUS
<1>1. Tid(0) \in Nat
  BY PipeTypes, PipesAreIds DEF IInv
<1>2. op[Slot(Tid(0))] # 0
  BY <1>1, CheckpointOp DEF EntrySkip
<1> QED
  BY <1>2, EntryPassInv DEF EntrySkip

LEMMA EntryBubbleInv == IInv /\ TypeOK' /\ EntryBubble => IInv'
BY EntryPassInv DEF EntryBubble, ctxs

\* The slot of an id in flight is the slot of no other id of the window.
LEMMA SlotsApart ==
    ASSUME IInv, NEW u \in Nat,
           nCommitted < u, u < nCommitted + BufferSize
    PROVE  \A t \in ((Published \union Vacant) \ {u}) \union {nCommitted} :
             Slot(t) # Slot(u) /\ Slot(t) \in Slots /\ t \in Nat
<1> SUFFICES ASSUME NEW t \in ((Published \union Vacant) \ {u}) \union {nCommitted}
             PROVE  Slot(t) # Slot(u) /\ Slot(t) \in Slots /\ t \in Nat
  OBVIOUS
<1>1. nCommitted \in Nat /\ TypeOK
  BY DEF IInv, TypeOK
<1>2. /\ t \in Nat /\ nCommitted <= t /\ t < nCommitted + BufferSize
      /\ t # u
  BY <1>1, WindowIds, Constants
<1> QED
  BY <1>1, <1>2, OtherSlot, SlotInRing

\* A handler run by a pipe or a worker changes op, waitChild and stages of no
\* slot but that of a published task, and leaves it past INIT.
LEMMA HandleOp ==
    ASSUME TypeOK, NEW s \in Slots, op[s] # DONE, Handle(s)
    PROVE  /\ \A r \in Slots \ {s} : op'[r] = op[r] /\ waitChild'[r] = waitChild[r]
           /\ op'[s] > op[s] /\ op'[s] \in Nat
<1>1. /\ op[s] \in 0..DONE /\ op \in [Slots -> 0..DONE]
      /\ waitChild \in [Slots -> {0, 1}]
  BY DEF TypeOK
<1>2. \A r \in Slots \ {s} : op'[r] = op[r] /\ waitChild'[r] = waitChild[r]
  BY <1>1 DEF Handle
<1>3. op'[s] = DONE \/ op'[s] = op[s] + 1
  BY <1>1 DEF Handle
<1> QED
  BY <1>1, <1>2, <1>3, Constants

LEMMA EntryTaskInv == IInv /\ TypeOK' /\ EntryTask => IInv'
<1> SUFFICES ASSUME IInv, TypeOK', EntryTask PROVE IInv'
  OBVIOUS
<1> USE DEF counters, workers, clients, monitor
<1> DEFINE u == Tid(0)
<1>1. /\ CountersInOrder' /\ pace'[0] = pace[0]
      /\ pdone'[0] = pdone[0] + 1 /\ pdone'[NPipes] = pdone[NPipes]
      /\ u = pdone[0] + 1 /\ pdone[0] \in Nat
  BY AdvanceOrder, PipesAreIds, Constants DEF EntryTask, Tid, IInv, TypeOK
<1>2. /\ u \in Nat /\ u > nCommitted /\ u < nCommitted + BufferSize
      /\ u > mNext /\ u > pdone[NPipes]
      /\ u \in Published /\ stages[Slot(u)] = 0
  BY ReadyId, PipesAreIds, Constants DEF EntryTask
<1>3. Slot(u) \in Slots /\ Slot(u) # 0
  BY <1>2, SlotInRing, CheckpointSlot DEF EntryTask
<1>4. Published' = Published /\ Vacant' = Vacant
  BY IdsKept DEF EntryTask
<1>5. StopInOrder'
  BY <1>1 DEF EntryTask, Advance, IInv, StopInOrder
<1>6. ClientsInOrder'
  BY <1>4 DEF EntryTask, IInv, ClientsInOrder, Writing
<1>7. \A t \in ((Published \union Vacant) \ {u}) \union {nCommitted} :
        Slot(t) # Slot(u) /\ Slot(t) \in Slots /\ t \in Nat
  BY <1>2, SlotsApart
<1>8. /\ \A r \in Slots \ {Slot(u)} :
           op'[r] = op[r] /\ waitChild'[r] = waitChild[r]
      /\ op'[Slot(u)] \in Nat /\ op'[Slot(u)] > 0
      /\ stages' = stages /\ sno' = sno
  BY <1>3, Constants DEF EntryTask, IInv, TypeOK
<1>9. PublishedSlots'
  <2> SUFFICES ASSUME NEW t \in Published PROVE PublishedSlot(t)'
    BY <1>4 DEF PublishedSlots
  <2>1. PublishedSlot(t)
    BY DEF IInv, PublishedSlots
  <2>2. CASE t = u
    <3>1. t <= pdone'[0] /\ ~(t > pdone'[0]) /\ ~(t <= mNext)
          /\ ~(t <= pdone'[NPipes])
      BY <1>1, <1>2, <2>2, PipesAreIds DEF IInv, TypeOK
    <3>2. stages'[Slot(t)] = 0 /\ 0 # AllOnes
      BY <1>2, <1>8, <2>2 DEF AllOnes
    <3> QED
      BY <1>1, <1>8, <2>1, <2>2, <3>1, <3>2 DEF PublishedSlot, EntryTask
  <2>3. CASE t # u
    <3>1. /\ op'[Slot(t)] = op[Slot(t)]
          /\ waitChild'[Slot(t)] = waitChild[Slot(t)] /\ t \in Nat
      BY <1>7, <1>8, <2>3
    <3>2. (t <= pdone'[0] <=> t <= pdone[0]) /\ (t > pdone'[0] <=> t > pdone[0])
      BY <1>1, <3>1, <2>3
    <3> QED
      BY <1>1, <1>8, <2>1, <3>1, <3>2 DEF PublishedSlot, HasTask, EntryTask
  <2> QED
    BY <2>2, <2>3
<1>10. VacantSlots'
  <2>1. u \notin Vacant
    BY <1>2 DEF Vacant, Published, IInv, TypeOK
  <2>2. \A t \in Vacant : VacantSlot(t)'
    BY <1>7, <1>8, <2>1 DEF EntryTask, IInv, VacantSlots, VacantSlot
  <2>3. 0 \in Slots
    BY Constants DEF Slots
  <2> QED
    BY <1>3, <1>4, <1>7, <1>8, <2>2, <2>3 DEF EntryTask, IInv, VacantSlots
<1>11. WorkersInOrder'
  <2>1. \A w \in Workers : HasTask(w) =>
          Slot(wtid[w]) # Slot(u) /\ Slot(wtid[w]) \in Slots
    <3>1. \A w \in Workers : HasTask(w) => wtid[w] \in Published /\ wtid[w] # u
      BY <1>1, TaskId
    <3> QED
      BY <1>7, <3>1
  <2> QED
    BY <1>1, <1>8, <2>1 DEF EntryTask, IInv, WorkersInOrder, HasTask, Running
<1> QED
  BY <1>1, <1>5, <1>6, <1>9, <1>10, <1>11 DEF IInv
\* An id that an INNER pipe may take has left ENTRY.
LEMMA InnerId ==
    ASSUME IInv, TypeOK', NEW p \in InnerPipes, Ready(p), Advance(p),
           UNCHANGED <<nSubmitted, nCommitted, mpc, mSub, mInited, mNext>>
    PROVE  /\ CountersInOrder' /\ pace'[0] = pace[0]
           /\ pdone'[0] = pdone[0] /\ pdone'[NPipes] = pdone[NPipes]
           /\ Tid(p) <= pdone[0]
<1>1. p \in Pipes /\ p - 1 \in Pipes /\ p # 0 /\ p # NPipes /\ p > 0 /\ 0 <= p - 1
  BY Constants DEF InnerPipes, Pipes
<1>2. /\ CountersInOrder' /\ pace'[0] = pace[0]
      /\ pdone'[0] = pdone[0] /\ pdone'[NPipes] = pdone[NPipes]
  BY <1>1, AdvanceOrder, PipesAreIds
<1>3. Tid(p) <= pdone[p - 1]
  BY <1>1 DEF Ready, IInv, CountersInOrder
<1>4. pdone[p - 1] <= pdone[0]
  BY <1>1, PipesAreIds DEF IInv, CountersInOrder
<1>5. Tid(p) \in Nat /\ pdone[p - 1] \in Nat /\ pdone[0] \in Nat
  BY <1>1, PipeTypes, PipesAreIds DEF IInv, TypeOK
<1> QED
  BY <1>2, <1>3, <1>4, <1>5

LEMMA InnerPassInv ==
    ASSUME IInv, TypeOK', NEW p \in InnerPipes, InnerPass(p)
    PROVE  IInv'
<1> USE DEF counters, ctxs, workers, clients, monitor
<1>1. /\ CountersInOrder' /\ pace'[0] = pace[0]
      /\ pdone'[0] = pdone[0] /\ pdone'[NPipes] = pdone[NPipes]
  BY InnerId DEF InnerPass
<1>2. Published' = Published /\ Vacant' = Vacant
  BY IdsKept DEF InnerPass
<1>3. StopInOrder'
  BY <1>1 DEF InnerPass, Advance, IInv, StopInOrder
<1>4. ClientsInOrder'
  BY <1>2 DEF InnerPass, IInv, ClientsInOrder, Writing
<1>5. PublishedSlots'
  BY <1>1, <1>2 DEF InnerPass, IInv, PublishedSlots, PublishedSlot, HasTask
<1>6. VacantSlots'
  BY <1>2 DEF InnerPass, IInv, VacantSlots, VacantSlot
<1>7. WorkersInOrder'
  BY <1>1 DEF InnerPass, IInv, WorkersInOrder, HasTask, Running
<1> QED
  BY <1>1, <1>3, <1>4, <1>5, <1>6, <1>7 DEF IInv

\* A step that runs a handler on the slot of published id u and changes no
\* other context.
LEMMA HandleSlots ==
    ASSUME IInv, TypeOK', NEW u \in Published, Handle(Slot(u)),
           op[Slot(u)] > 0, op[Slot(u)] # DONE, stages[Slot(u)] # AllOnes,
           UNCHANGED <<nSubmitted, nCommitted, cpc, ctid, mNext, stages, sno,
                       wtid, wlast>>,
           pdone'[0] = pdone[0], pdone'[NPipes] = pdone[NPipes],
           \A w \in Workers : HasTask(w)' <=> HasTask(w),
           u <= pdone[0]
    PROVE  /\ PublishedSlots' /\ VacantSlots'
           /\ op'[Slot(u)] > op[Slot(u)]
           /\ \A t \in Published \ {u} : op'[Slot(t)] = op[Slot(t)]
<1>1. Published' = Published /\ Vacant' = Vacant
  BY IdsKept
<1>2. u \in Nat /\ nCommitted < u /\ u < nCommitted + BufferSize
  BY WindowIds
<1>3. Slot(u) \in Slots /\ op[Slot(u)] \in Nat
  BY <1>2, SlotInRing DEF IInv, TypeOK
<1>4. \A t \in ((Published \union Vacant) \ {u}) \union {nCommitted} :
        Slot(t) # Slot(u) /\ Slot(t) \in Slots /\ t \in Nat
  BY <1>2, SlotsApart
<1>5. /\ \A r \in Slots \ {Slot(u)} :
           op'[r] = op[r] /\ waitChild'[r] = waitChild[r]
      /\ op'[Slot(u)] > op[Slot(u)] /\ op'[Slot(u)] \in Nat
  BY <1>3, HandleOp DEF IInv
<1>6. PublishedSlots'
  <2> SUFFICES ASSUME NEW t \in Published PROVE PublishedSlot(t)'
    BY <1>1 DEF PublishedSlots
  <2>1. PublishedSlot(t)
    BY DEF IInv, PublishedSlots
  <2>2. CASE t = u
    <3>1. ~(u > pdone[0])
      BY <1>2, PipesAreIds DEF IInv, TypeOK
    <3>2. op'[Slot(u)] > 0
      BY <1>3, <1>5
    <3> QED
      BY <2>1, <2>2, <3>1, <3>2 DEF PublishedSlot
  <2>3. CASE t # u
    <3>1. op'[Slot(t)] = op[Slot(t)] /\ waitChild'[Slot(t)] = waitChild[Slot(t)]
      BY <1>4, <1>5, <2>3
    <3> QED
      BY <2>1, <3>1 DEF PublishedSlot
  <2> QED
    BY <2>2, <2>3
<1>7. VacantSlots'
  <2>1. u \notin Vacant
    BY <1>2 DEF Vacant, Published, IInv, TypeOK
  <2>2. \A t \in Vacant : VacantSlot(t)'
    BY <1>4, <1>5, <2>1 DEF IInv, VacantSlots, VacantSlot
  <2>3. 0 \in Slots
    BY Constants DEF Slots
  <2>4. Slot(u) # 0
    BY DEF IInv, VacantSlots
  <2> QED
    BY <1>1, <1>4, <1>5, <2>2, <2>3, <2>4 DEF IInv, VacantSlots
<1>8. \A t \in Published \ {u} : op'[Slot(t)] = op[Slot(t)]
  BY <1>4, <1>5
<1> QED
  BY <1>5, <1>6, <1>7, <1>8

LEMMA InnerTaskInv ==
    ASSUME IInv, TypeOK', NEW p \in InnerPipes, InnerTask(p)
    PROVE  IInv'
<1> USE DEF counters, workers, clients, monitor
<1> DEFINE u == Tid(p)
<1>1. /\ CountersInOrder' /\ pace'[0] = pace[0]
      /\ pdone'[0] = pdone[0] /\ pdone'[NPipes] = pdone[NPipes]
      /\ u <= pdone[0]
  BY InnerId DEF InnerTask
<1>2. u \in Published /\ stages[Slot(u)] = 0 /\ u > pdone[NPipes] /\ u \in Nat
  BY ReadyId, PipesAreIds DEF InnerTask
<1>3. op[Slot(u)] > 0 /\ stages[Slot(u)] # AllOnes
  BY <1>1, <1>2, Constants DEF IInv, PublishedSlots, PublishedSlot
<1>4. Published' = Published
  BY IdsKept DEF InnerTask
<1>5. StopInOrder'
  BY <1>1 DEF InnerTask, Advance, IInv, StopInOrder
<1>6. ClientsInOrder'
  BY <1>4 DEF InnerTask, IInv, ClientsInOrder, Writing
<1>7. \A w \in Workers : HasTask(w)' <=> HasTask(w)
  BY DEF InnerTask, HasTask
<1>8. /\ PublishedSlots' /\ VacantSlots'
      /\ \A t \in Published \ {u} : op'[Slot(t)] = op[Slot(t)]
  BY <1>1, <1>2, <1>3, <1>7, HandleSlots DEF InnerTask
<1>9. WorkersInOrder'
  <2>1. \A w \in Workers : HasTask(w) => wtid[w] \in Published \ {u}
    BY <1>2, TaskId, PipesAreIds DEF IInv, WorkersInOrder, TypeOK
  <2> QED
    BY <1>1, <1>7, <1>8, <2>1 DEF InnerTask, IInv, WorkersInOrder, HasTask, Running
<1> QED
  BY <1>1, <1>5, <1>6, <1>8, <1>9 DEF IInv
\* An id that EXIT may take has passed every other pipe.
LEMMA ExitId ==
    ASSUME IInv, TypeOK', Ready(NPipes), Advance(NPipes),
           UNCHANGED <<nSubmitted, nCommitted, mpc, mSub, mInited, mNext>>
    PROVE  /\ CountersInOrder' /\ pace'[0] = pace[0]
           /\ pdone'[0] = pdone[0] /\ pdone'[NPipes] = Tid(NPipes)
           /\ Tid(NPipes) = pdone[NPipes] + 1 /\ pdone[NPipes] \in Nat
           /\ Tid(NPipes) <= pdone[0]
<1>1. /\ CountersInOrder' /\ pace'[0] = pace[0]
      /\ pdone'[0] = pdone[0] /\ pdone'[NPipes] = Tid(NPipes)
  BY AdvanceOrder, PipesAreIds, Constants
<1>2. NPipes - 1 \in Pipes /\ NPipes > 0 /\ 0 <= NPipes - 1
  BY Constants DEF Pipes
<1>3. Tid(NPipes) <= pdone[NPipes - 1]
  BY <1>2, PipesAreIds DEF Ready, IInv, CountersInOrder
<1>4. pdone[NPipes - 1] <= pdone[0]
  BY <1>2, PipesAreIds DEF IInv, CountersInOrder
<1>5. /\ Tid(NPipes) = pdone[NPipes] + 1 /\ pdone[NPipes] \in Nat
      /\ pdone[NPipes - 1] \in Nat /\ pdone[0] \in Nat
  BY <1>2, PipesAreIds DEF IInv, TypeOK, Tid
<1> QED
  BY <1>1, <1>3, <1>4, <1>5

LEMMA ExitHandOffInv == IInv /\ TypeOK' /\ ExitHandOff => IInv'
<1> SUFFICES ASSUME IInv, TypeOK', ExitHandOff PROVE IInv'
  OBVIOUS
<1> USE DEF counters, ctxs, clients, monitor
<1> DEFINE u == Tid(NPipes)
<1>1. /\ CountersInOrder' /\ pace'[0] = pace[0]
      /\ pdone'[0] = pdone[0] /\ pdone'[NPipes] = u
      /\ u = pdone[NPipes] + 1 /\ pdone[NPipes] \in Nat /\ u <= pdone[0]
  BY ExitId DEF ExitHandOff
<1>2. /\ u \in Nat /\ u > mNext /\ u \in Published /\ stages[Slot(u)] = 0
      /\ u <= mInited
  BY ReadyId, PipesAreIds DEF ExitHandOff
<1>3. PICK w \in avail : /\ avail' = avail \ {w}
                         /\ wtid' = [wtid EXCEPT ![w] = u]
  BY DEF ExitHandOff
<1>4. w \in Workers /\ wtid'[w] = u /\ \A x \in Workers \ {w} : wtid'[x] = wtid[x]
  BY <1>3 DEF IInv, TypeOK
<1>5. wlast[w] # u /\ u # NoTask
  BY <1>1, <1>2, <1>4 DEF IInv, WorkersInOrder, TypeOK, NoTask
<1>6. \A x \in Workers : wtid[x] # NoTask
  BY PipesAreIds DEF ExitHandOff, Ready, IInv, StopInOrder
<1>7. wpc[w] = "spin" /\ ~HasTask(w)
  BY <1>3, <1>4, <1>6 DEF IInv, WorkersInOrder
<1>8. HasTask(w)' /\ \A x \in Workers \ {w} : HasTask(x)' <=> HasTask(x)
  BY <1>4, <1>5, <1>7 DEF HasTask, ExitHandOff
<1>9. Published' = Published /\ Vacant' = Vacant
  BY IdsKept DEF ExitHandOff
<1>10. StopInOrder'
  <2>1. \A x \in Workers : wtid'[x] # NoTask
    BY <1>4, <1>5, <1>6
  <2> QED
    BY <1>1, <2>1 DEF ExitHandOff, Advance, IInv, StopInOrder
<1>11. ClientsInOrder'
  BY <1>9 DEF ExitHandOff, IInv, ClientsInOrder, Writing
<1>12. PublishedSlots'
  <2> SUFFICES ASSUME NEW t \in Published PROVE PublishedSlot(t)'
    BY <1>9 DEF PublishedSlots
  <2>1. PublishedSlot(t) /\ t \in Nat
    BY WindowIds DEF IInv, PublishedSlots
  <2>2. CASE t = u
    <3>1. \E x \in Workers : HasTask(x)' /\ wtid'[x] = u
      BY <1>4, <1>8
    <3> QED
      BY <1>1, <2>1, <2>2, <3>1 DEF PublishedSlot, ExitHandOff
  <2>3. CASE t # u
    <3>1. /\ t > pdone'[NPipes] => t > pdone[NPipes]
          /\ t <= pdone'[NPipes] => t <= pdone[NPipes]
      BY <1>1, <2>1, <2>3
    <3>2. (\E x \in Workers : HasTask(x) /\ wtid[x] = t)
            => (\E x \in Workers : HasTask(x)' /\ wtid'[x] = t)
      BY <1>4, <1>7, <1>8
    <3> QED
      BY <1>1, <2>1, <3>1, <3>2 DEF PublishedSlot, ExitHandOff
  <2> QED
    BY <2>2, <2>3
<1>13. VacantSlots'
  BY <1>9 DEF ExitHandOff, IInv, VacantSlots, VacantSlot
<1>14. WorkersInOrder'
  <2>1. u <= nSubmitted
    BY <1>2 DEF Published, IInv, TypeOK
  <2>2. stages[Slot(u)] # AllOnes
    BY <1>2, Constants
  <2>3. \A x \in Workers \ {w} : HasTask(x) => wtid[x] <= pdone[NPipes] /\ wtid[x] \in Nat
    BY TaskId DEF IInv, WorkersInOrder
  <2>4. \A x \in Workers : HasTask(x)' =>
         /\ wtid'[x] > mNext /\ wtid'[x] <= pdone'[NPipes]
         /\ wtid'[x] <= nSubmitted
         /\ stages[Slot(wtid'[x])] # AllOnes
    BY <1>1, <1>2, <1>4, <1>8, <2>1, <2>2, <2>3 DEF IInv, WorkersInOrder
  <2>5. \A x, y \in Workers :
         x # y /\ HasTask(x)' /\ HasTask(y)' => wtid'[x] # wtid'[y]
    BY <1>1, <1>4, <1>8, <2>3 DEF IInv, WorkersInOrder
  <2>6. \A x \in Workers : Running(x) => HasTask(x)' /\ wjob[x] = wtid'[x]
    BY <1>4, <1>7, <1>8 DEF IInv, WorkersInOrder, Running
  <2>7. \A x \in Workers : wpc[x] = "push" =>
         wtid'[x] \in {NoTask, wjob[x]} /\ wjob[x] <= pdone'[NPipes]
    BY <1>1, <1>4, <1>7 DEF IInv, WorkersInOrder, TypeOK
  <2>8. \A x \in Workers : wlast[x] <= pdone'[NPipes]
    BY <1>1 DEF IInv, WorkersInOrder, TypeOK
  <2>9. \A x \in Workers : wpc[x] = "exited" => wtid'[x] = NoTask
    BY <1>4, <1>7 DEF IInv, WorkersInOrder
  <2>10. \A x \in avail' : wpc[x] \in {"spin", "exited"} /\ ~HasTask(x)'
    BY <1>3, <1>8 DEF IInv, TypeOK, WorkersInOrder
  <2>11. UNCHANGED <<mNext, nSubmitted, stages, op, wjob, wlast, wstage, wpc>>
    BY DEF ExitHandOff
  <2>12. \A x \in Workers : Running(x)' <=> Running(x)
    BY DEF ExitHandOff, Running
  <2>13. /\ \A x \in Workers : wpc[x] = "spin" => wstage[x] = 1
         /\ \A x \in Workers :
              CASE wpc[x] = "exec"  -> wstage[x] <= op[Slot(wjob[x])]
                [] wpc[x] = "store" -> wstage[x] < op[Slot(wjob[x])]
                [] OTHER            -> TRUE
    BY DEF IInv, WorkersInOrder
  <2> QED
    BY <2>4, <2>5, <2>6, <2>7, <2>8, <2>9, <2>10, <2>11, <2>12, <2>13
    DEF WorkersInOrder
<1> QED
  BY <1>1, <1>10, <1>11, <1>12, <1>13, <1>14 DEF IInv

LEMMA ExitDoneInv == IInv /\ TypeOK' /\ ExitDone => IInv'
<1> SUFFICES ASSUME IInv, TypeOK', ExitDone PROVE IInv'
  OBVIOUS
<1> USE DEF counters, ctxs, workers, clients, monitor
<1> DEFINE u == Tid(NPipes)
<1>1. /\ CountersInOrder' /\ pace'[0] = pace[0]
      /\ pdone'[0] = pdone[0] /\ pdone'[NPipes] = u
      /\ u = pdone[NPipes] + 1 /\ pdone[NPipes] \in Nat /\ u <= pdone[0]
  BY ExitId DEF ExitDone
<1>2. /\ u \in Nat /\ u > mNext /\ u > nCommitted /\ Slot(u) \in Slots
      /\ u < nCommitted + BufferSize
  BY ReadyId, PipesAreIds, SlotInRing DEF ExitDone
<1>3. \A t \in ((Published \union Vacant) \ {u}) \union {nCommitted} :
        Slot(t) # Slot(u) /\ Slot(t) \in Slots /\ t \in Nat
  BY <1>2, SlotsApart
<1>4. stages'[Slot(u)] = AllOnes /\ \A s \in Slots \ {Slot(u)} : stages'[s] = stages[s]
  BY <1>2 DEF ExitDone, IInv, TypeOK
<1>5. Published' = Published /\ Vacant' = Vacant
  BY IdsKept DEF ExitDone
<1>6. StopInOrder'
  BY <1>1 DEF ExitDone, Advance, IInv, StopInOrder
<1>7. ClientsInOrder'
  BY <1>5 DEF ExitDone, IInv, ClientsInOrder, Writing
<1>8. PublishedSlots'
  <2> SUFFICES ASSUME NEW t \in Published PROVE PublishedSlot(t)'
    BY <1>5 DEF PublishedSlots
  <2>1. PublishedSlot(t) /\ t \in Nat
    BY WindowIds DEF IInv, PublishedSlots
  <2>2. CASE t = u
    <3>1. ~(u > pdone'[NPipes])
      BY <1>1, <1>2
    <3> QED
      BY <1>1, <1>4, <2>1, <2>2, <3>1 DEF PublishedSlot, ExitDone
  <2>3. CASE t # u
    <3>1. /\ t > pdone'[NPipes] => t > pdone[NPipes]
          /\ t <= pdone'[NPipes] => t <= pdone[NPipes]
      BY <1>1, <2>1, <2>3
    <3>2. stages'[Slot(t)] = stages[Slot(t)]
      BY <1>3, <1>4, <2>3
    <3> QED
      BY <1>1, <2>1, <3>1, <3>2 DEF PublishedSlot, ExitDone, HasTask
  <2> QED
    BY <2>2, <2>3
<1>9. VacantSlots'
  <2>1. \A t \in Vacant : VacantSlot(t)'
    BY <1>3, <1>4, <1>5 DEF ExitDone, IInv, VacantSlots, VacantSlot
  <2> QED
    BY <1>3, <1>4, <1>5, <2>1 DEF ExitDone, IInv, VacantSlots
<1>10. WorkersInOrder'
  <2>1. \A w \in Workers : HasTask(w) =>
          stages'[Slot(wtid[w])] = stages[Slot(wtid[w])] /\ wtid[w] <= u
    <3> SUFFICES ASSUME NEW w \in Workers, HasTask(w)
                 PROVE  stages'[Slot(wtid[w])] = stages[Slot(wtid[w])] /\ wtid[w] <= u
      OBVIOUS
    <3>1. wtid[w] \in Published /\ wtid[w] \in Nat
      BY TaskId
    <3>2. wtid[w] <= pdone[NPipes]
      BY DEF IInv, WorkersInOrder
    <3> QED
      BY <1>1, <1>3, <1>4, <3>1, <3>2
  <2>2. /\ \A w \in Workers : wlast[w] <= u
        /\ \A w \in Workers : wjob[w] <= pdone[NPipes] => wjob[w] <= u
    BY <1>1 DEF IInv, WorkersInOrder, TypeOK
  <2> QED
    BY <1>1, <2>1, <2>2 DEF ExitDone, IInv, WorkersInOrder, HasTask, Running
<1> QED
  BY <1>1, <1>6, <1>7, <1>8, <1>9, <1>10 DEF IInv

LEMMA BatchInv ==
    ASSUME IInv, TypeOK', NEW p \in Pipes, Batch(p)
    PROVE  IInv'
<1> USE DEF counters, ctxs, workers, clients, monitor
<1>1. Published' = Published /\ Vacant' = Vacant
  BY IdsKept DEF Batch, NextBatch, Drain, PipeExit
<1>2. CountersInOrder'
  BY DEF Batch, NextBatch, Drain, PipeExit, IInv, CountersInOrder
<1>3. StopInOrder'
  BY DEF Batch, NextBatch, Drain, PipeExit, IInv, StopInOrder, TypeOK
<1>4. ClientsInOrder'
  BY <1>1 DEF Batch, NextBatch, Drain, PipeExit, IInv, ClientsInOrder, Writing
<1>5. PublishedSlots'
  BY <1>1
  DEF Batch, NextBatch, Drain, PipeExit, IInv, PublishedSlots, PublishedSlot, HasTask
<1>6. VacantSlots'
  BY <1>1 DEF Batch, NextBatch, Drain, PipeExit, IInv, VacantSlots, VacantSlot
<1>7. WorkersInOrder'
  BY DEF Batch, NextBatch, Drain, PipeExit, IInv, WorkersInOrder, HasTask, Running
<1> QED
  BY <1>2, <1>3, <1>4, <1>5, <1>6, <1>7 DEF IInv
-------------------------------------------------------------------------------
(* Steps of workers *)

\* A running worker is at the slot of its task.
LEMMA RunningId ==
    ASSUME IInv, NEW w \in Workers, Running(w)
    PROVE  LET u == wjob[w] IN
           /\ HasTask(w) /\ u = wtid[w] /\ u \in Published /\ u \in Nat
           /\ nCommitted < u /\ u < nCommitted + BufferSize
           /\ u <= pdone[0] /\ u <= pdone[NPipes] /\ u > mNext
           /\ Slot(u) \in Slots /\ sno[Slot(u)] = u
           /\ op[Slot(u)] > 0 /\ stages[Slot(u)] # AllOnes
<1>1. HasTask(w) /\ wjob[w] = wtid[w]
  BY DEF IInv, WorkersInOrder
<1>2. /\ wtid[w] \in Published /\ wtid[w] \in Nat
      /\ nCommitted < wtid[w] /\ wtid[w] < nCommitted + BufferSize
      /\ wtid[w] <= pdone[0] /\ sno[Slot(wtid[w])] = wtid[w]
      /\ op[Slot(wtid[w])] > 0 /\ Slot(wtid[w]) \in Slots
  BY <1>1, TaskId, SlotInRing
<1>3. wtid[w] <= pdone[NPipes] /\ wtid[w] > mNext /\ stages[Slot(wtid[w])] # AllOnes
  BY <1>1 DEF IInv, WorkersInOrder
<1> QED
  BY <1>1, <1>2, <1>3

\* What a step of a worker leaves alone, whatever it is.
LEMMA WorkerFrame ==
    ASSUME IInv, TypeOK', UNCHANGED <<counters, stop, sno, pipes, clients, monitor>>
    PROVE  /\ CountersInOrder' /\ ClientsInOrder'
           /\ Published' = Published /\ Vacant' = Vacant
           /\ wtid' = wtid => StopInOrder'
<1> USE DEF counters, pipes, clients, monitor
<1>1. Published' = Published /\ Vacant' = Vacant
  BY IdsKept
<1>2. CountersInOrder'
  BY DEF IInv, CountersInOrder
<1>3. ClientsInOrder'
  BY <1>1 DEF IInv, ClientsInOrder, Writing
<1>4. wtid' = wtid => StopInOrder'
  BY DEF IInv, StopInOrder
<1> QED
  BY <1>1, <1>2, <1>3, <1>4

\* A worker that looks for a task, or joins workers_available_, or leaves.
LEMMA WorkerIdleInv ==
    ASSUME IInv, TypeOK', NEW w \in Workers,
           Take(w) \/ Push(w) \/ WorkerExit(w)
    PROVE  IInv'
<1> USE DEF counters, ctxs, pipes, clients, monitor
<1>1. /\ CountersInOrder' /\ ClientsInOrder' /\ StopInOrder'
      /\ Published' = Published /\ Vacant' = Vacant
  BY WorkerFrame DEF Take, Push, WorkerExit
<1>2. \A x \in Workers : HasTask(x)' <=> HasTask(x)
  BY DEF Take, Push, WorkerExit, HasTask, IInv, WorkersInOrder, TypeOK
<1>3. wtid' = wtid
  BY DEF Take, Push, WorkerExit
<1>4. PublishedSlots'
  BY <1>1, <1>2, <1>3
  DEF Take, Push, WorkerExit, IInv, PublishedSlots, PublishedSlot
<1>5. VacantSlots'
  BY <1>1 DEF Take, Push, WorkerExit, IInv, VacantSlots, VacantSlot
<1>6. WorkersInOrder'
  <2>1. ASSUME Take(w) PROVE WorkersInOrder'
    <3>1. HasTask(w)
      BY <2>1 DEF Take, HasTask
    <3>2. wstage[w] = 1 /\ op[Slot(wtid[w])] > 0 /\ op[Slot(wtid[w])] \in Nat
      <4>1. wtid[w] \in Nat /\ op[Slot(wtid[w])] > 0
        BY <3>1, TaskId
      <4>2. Slot(wtid[w]) \in Slots
        BY <4>1, SlotInRing
      <4>3. wstage[w] = 1
        BY <2>1 DEF Take, IInv, WorkersInOrder
      <4> QED
        BY <4>1, <4>2, <4>3 DEF IInv, TypeOK
    <3>3. w \notin avail
      BY <3>1 DEF IInv, WorkersInOrder
    <3> QED
      BY <1>2, <2>1, <3>1, <3>2, <3>3 DEF Take, IInv, WorkersInOrder, Running, TypeOK
  <2>2. ASSUME Push(w) PROVE WorkersInOrder'
    <3>1. ~HasTask(w)
      BY <2>2 DEF Push, HasTask
    <3> QED
      BY <1>2, <2>2, <3>1 DEF Push, IInv, WorkersInOrder, Running, TypeOK
  <2>3. ASSUME WorkerExit(w) PROVE WorkersInOrder'
    BY <1>2, <2>3 DEF WorkerExit, IInv, WorkersInOrder, Running, TypeOK
  <2> QED
    BY <2>1, <2>2, <2>3
<1> QED
  BY <1>1, <1>4, <1>5, <1>6 DEF IInv

LEMMA ExecInv ==
    ASSUME IInv, TypeOK', NEW w \in Workers, Exec(w)
    PROVE  IInv'
<1> USE DEF counters, pipes, clients, monitor
<1> DEFINE u == wjob[w]
<1>1. /\ HasTask(w) /\ u = wtid[w] /\ u \in Published
      /\ u <= pdone[0] /\ op[Slot(u)] > 0 /\ stages[Slot(u)] # AllOnes
      /\ Slot(u) \in Slots
  BY RunningId DEF Exec, Running
<1>2. /\ CountersInOrder' /\ ClientsInOrder' /\ StopInOrder'
      /\ Published' = Published /\ Vacant' = Vacant
  BY WorkerFrame DEF Exec
<1>3. \A x \in Workers : HasTask(x)' <=> HasTask(x)
  BY DEF Exec, HasTask, IInv, TypeOK
<1>4. /\ PublishedSlots' /\ VacantSlots'
      /\ op'[Slot(u)] > op[Slot(u)]
      /\ \A t \in Published \ {u} : op'[Slot(t)] = op[Slot(t)]
  BY <1>1, <1>3, HandleSlots DEF Exec
<1>5. WorkersInOrder'
  <2>1. \A x \in Workers : Running(x)' <=> Running(x)
    BY DEF Exec, Running, IInv, TypeOK
  <2>2. \A x \in Workers \ {w} : Running(x) =>
          wpc'[x] = wpc[x] /\ wjob[x] \in Published \ {u}
    BY <1>1, RunningId DEF Exec, IInv, WorkersInOrder, TypeOK
  <2>3. wstage[w] < op'[Slot(u)]
    BY <1>1, <1>4 DEF Exec, IInv, WorkersInOrder, TypeOK
  <2>4. w \notin avail
    BY <1>1 DEF IInv, WorkersInOrder
  <2>5. \A x \in Workers :
         CASE wpc'[x] = "exec"  -> wstage[x] <= op'[Slot(wjob[x])]
           [] wpc'[x] = "store" -> wstage[x] < op'[Slot(wjob[x])]
           [] OTHER             -> TRUE
    <3> SUFFICES ASSUME NEW x \in Workers
                 PROVE CASE wpc'[x] = "exec"  -> wstage[x] <= op'[Slot(wjob[x])]
                         [] wpc'[x] = "store" -> wstage[x] < op'[Slot(wjob[x])]
                         [] OTHER             -> TRUE
      OBVIOUS
    <3>1. CASE x = w
      BY <2>3, <3>1 DEF Exec, IInv, TypeOK
    <3>2. CASE x # w /\ Running(x)
      BY <1>4, <2>2, <3>2 DEF IInv, WorkersInOrder
    <3>3. CASE x # w /\ ~Running(x)
      BY <3>3 DEF Exec, IInv, TypeOK, Running
    <3> QED
      BY <3>1, <3>2, <3>3
  <2> QED
    BY <1>3, <2>1, <2>4, <2>5 DEF Exec, IInv, WorkersInOrder, TypeOK
<1> QED
  BY <1>2, <1>4, <1>5 DEF IInv

\* A worker stores a stage of its own task, which is finished if the stage is
\* AllOnes.
LEMMA StageSlots ==
    ASSUME IInv, TypeOK', NEW w \in Workers, Running(w), NEW n \in Nat,
           stages' = [stages EXCEPT ![Slot(wjob[w])] = n],
           n = AllOnes => op[Slot(wjob[w])] = DONE,
           n = AllOnes \/ HasTask(w)',
           \A x \in Workers \ {w} : HasTask(x)' <=> HasTask(x),
           UNCHANGED <<nSubmitted, nCommitted, cpc, ctid, mNext, pdone, op,
                       waitChild, sno, wtid>>
    PROVE  /\ PublishedSlots' /\ VacantSlots'
           /\ \A x \in Workers \ {w} : HasTask(x) =>
                stages'[Slot(wtid[x])] = stages[Slot(wtid[x])]
<1> DEFINE u == wjob[w]
<1>1. /\ HasTask(w) /\ u = wtid[w] /\ u \in Published /\ u \in Nat
      /\ nCommitted < u /\ u < nCommitted + BufferSize
      /\ u <= pdone[NPipes] /\ u > mNext /\ Slot(u) \in Slots
  BY RunningId
<1>2. Published' = Published /\ Vacant' = Vacant
  BY IdsKept
<1>3. \A t \in ((Published \union Vacant) \ {u}) \union {nCommitted} :
        Slot(t) # Slot(u) /\ Slot(t) \in Slots /\ t \in Nat
  BY <1>1, SlotsApart
<1>4. stages'[Slot(u)] = n /\ \A s \in Slots \ {Slot(u)} : stages'[s] = stages[s]
  BY <1>1 DEF IInv, TypeOK
<1>5. PublishedSlots'
  <2> SUFFICES ASSUME NEW t \in Published PROVE PublishedSlot(t)'
    BY <1>2 DEF PublishedSlots
  <2>1. PublishedSlot(t)
    BY DEF IInv, PublishedSlots
  <2>2. CASE t = u
    <3>1. ~(u > pdone[NPipes]) /\ ~(u <= mNext)
      BY <1>1, PipesAreIds DEF IInv, TypeOK
    <3>2. n # AllOnes => \E x \in Workers : HasTask(x)' /\ wtid'[x] = u
      BY <1>1
    <3> QED
      BY <1>4, <2>1, <2>2, <3>1, <3>2 DEF PublishedSlot
  <2>3. CASE t # u
    <3>1. stages'[Slot(t)] = stages[Slot(t)]
      BY <1>3, <1>4, <2>3
    <3>2. (\E x \in Workers : HasTask(x) /\ wtid[x] = t)
            => (\E x \in Workers : HasTask(x)' /\ wtid'[x] = t)
      BY <1>1, <2>3
    <3> QED
      BY <2>1, <3>1, <3>2 DEF PublishedSlot
  <2> QED
    BY <2>2, <2>3
<1>6. VacantSlots'
  <2>1. u \notin Vacant
    BY <1>1 DEF Vacant, Published, IInv, TypeOK
  <2>2. \A t \in Vacant : VacantSlot(t)'
    BY <1>3, <1>4, <2>1 DEF IInv, VacantSlots, VacantSlot
  <2> QED
    BY <1>2, <1>3, <1>4, <2>2 DEF IInv, VacantSlots
<1>7. \A x \in Workers \ {w} : HasTask(x) =>
        stages'[Slot(wtid[x])] = stages[Slot(wtid[x])]
  <2>1. \A x \in Workers \ {w} : HasTask(x) => wtid[x] \in Published \ {u}
    BY <1>1, TaskId DEF IInv, WorkersInOrder
  <2> QED
    BY <1>3, <1>4, <2>1
<1> QED
  BY <1>5, <1>6, <1>7

LEMMA StoreStageInv ==
    ASSUME IInv, TypeOK', NEW w \in Workers, StoreStage(w)
    PROVE  IInv'
<1> USE DEF counters, ctxs, pipes, clients, monitor
<1> DEFINE u == wjob[w]
<1>1. /\ HasTask(w) /\ u = wtid[w] /\ Slot(u) \in Slots /\ sno[Slot(u)] = u
  BY RunningId DEF StoreStage, Running
<1>2. /\ wstage[w] \in Nat /\ wstage[w] < op[Slot(u)]
      /\ op[Slot(u)] \in Nat /\ op[Slot(u)] <= DONE
  BY <1>1 DEF StoreStage, IInv, WorkersInOrder, TypeOK
<1>3. wstage[w] # AllOnes
  BY <1>2, Constants
<1>4. /\ CountersInOrder' /\ ClientsInOrder' /\ StopInOrder'
  BY WorkerFrame DEF StoreStage
<1>5. \A x \in Workers : HasTask(x)' <=> HasTask(x)
  BY DEF StoreStage, HasTask, IInv, TypeOK
<1>6. stages' = [stages EXCEPT ![Slot(u)] = wstage[w]]
  BY <1>1 DEF StoreStage
<1>7. /\ PublishedSlots' /\ VacantSlots'
      /\ \A x \in Workers \ {w} : HasTask(x) =>
           stages'[Slot(wtid[x])] = stages[Slot(wtid[x])]
  BY <1>1, <1>2, <1>3, <1>5, <1>6, StageSlots DEF StoreStage, Running
<1>8. WorkersInOrder'
  <2>1. \A x \in Workers : HasTask(x) => stages'[Slot(wtid[x])] # AllOnes
    BY <1>1, <1>3, <1>6, <1>7 DEF IInv, WorkersInOrder, TypeOK
  <2>2. wstage'[w] = wstage[w] + 1 /\ wstage'[w] <= op[Slot(u)]
    BY <1>2 DEF StoreStage, IInv, TypeOK
  <2>3. \A x \in Workers : Running(x)' <=> Running(x)
    BY DEF StoreStage, Running, IInv, TypeOK
  <2>4. w \notin avail
    BY <1>1 DEF IInv, WorkersInOrder
  <2> QED
    BY <1>5, <2>1, <2>2, <2>3, <2>4 DEF StoreStage, IInv, WorkersInOrder, TypeOK
<1> QED
  BY <1>4, <1>7, <1>8 DEF IInv

LEMMA FinishInv ==
    ASSUME IInv, TypeOK', NEW w \in Workers, Finish(w)
    PROVE  IInv'
<1> USE DEF counters, ctxs, pipes, clients, monitor
<1> DEFINE u == wjob[w]
<1>1. /\ HasTask(w) /\ u = wtid[w] /\ sno[Slot(u)] = u /\ u <= pdone[NPipes]
  BY RunningId DEF Finish, Running
<1>2. /\ CountersInOrder' /\ ClientsInOrder' /\ StopInOrder'
  BY WorkerFrame DEF Finish
<1>3. ~HasTask(w)' /\ \A x \in Workers \ {w} : HasTask(x)' <=> HasTask(x)
  BY DEF Finish, HasTask, IInv, TypeOK
<1>4. stages' = [stages EXCEPT ![Slot(u)] = AllOnes]
  BY <1>1 DEF Finish
<1>5. /\ PublishedSlots' /\ VacantSlots'
      /\ \A x \in Workers \ {w} : HasTask(x) =>
           stages'[Slot(wtid[x])] = stages[Slot(wtid[x])]
  BY <1>3, <1>4, StageSlots, Constants DEF Finish, Running
<1>6. WorkersInOrder'
  <2>1. w \notin avail
    BY <1>1 DEF IInv, WorkersInOrder
  <2>2. ~Running(w)' /\ \A x \in Workers \ {w} : Running(x)' <=> Running(x)
    BY DEF Finish, Running, IInv, TypeOK
  <2> QED
    BY <1>1, <1>3, <1>5, <2>1, <2>2 DEF Finish, IInv, WorkersInOrder, TypeOK
<1> QED
  BY <1>2, <1>5, <1>6 DEF IInv
-------------------------------------------------------------------------------
(* Steps of the monitor and of the destructor *)

\* What holds of the slots and the workers is not the monitor's to change,
\* while nCommitted and mNext stay.
LEMMA MonitorFrame ==
    ASSUME IInv, UNCHANGED <<nSubmitted, nCommitted, stages, ctxs, pdone,
                             workers, clients, mNext>>
    PROVE  /\ Published' = Published /\ Vacant' = Vacant
           /\ PublishedSlots' /\ VacantSlots' /\ WorkersInOrder'
<1> USE DEF ctxs, workers, clients
<1>1. Published' = Published /\ Vacant' = Vacant
  BY IdsKept
<1>2. PublishedSlots'
  BY <1>1 DEF IInv, PublishedSlots, PublishedSlot, HasTask
<1>3. VacantSlots'
  BY <1>1 DEF IInv, VacantSlots, VacantSlot
<1>4. WorkersInOrder'
  BY DEF IInv, WorkersInOrder, HasTask, Running
<1> QED
  BY <1>1, <1>2, <1>3, <1>4

LEMMA ReadCountersInv == IInv /\ TypeOK' /\ ReadCounters => IInv'
<1> SUFFICES ASSUME IInv, TypeOK', ReadCounters PROVE IInv'
  OBVIOUS
<1> USE DEF counters, pipes, workers, clients
<1>1. /\ Published' = Published
      /\ PublishedSlots' /\ VacantSlots' /\ WorkersInOrder'
  BY MonitorFrame DEF ReadCounters
<1>2. CountersInOrder'
  BY DEF ReadCounters, IInv, CountersInOrder, TypeOK
<1>3. StopInOrder'
  BY DEF ReadCounters, IInv, StopInOrder
<1>4. ClientsInOrder'
  BY <1>1 DEF ReadCounters, IInv, ClientsInOrder, Writing
<1> QED
  BY <1>1, <1>2, <1>3, <1>4 DEF IInv

LEMMA ScanInitedInv == IInv /\ TypeOK' /\ ScanInited => IInv'
<1> SUFFICES ASSUME IInv, TypeOK', ScanInited PROVE IInv'
  OBVIOUS
<1> USE DEF counters, pipes, workers, clients
<1> DEFINE t == mInited + 1
<1>1. /\ Published' = Published
      /\ PublishedSlots' /\ VacantSlots' /\ WorkersInOrder'
  BY MonitorFrame DEF ScanInited
<1>2. /\ t \in Nat /\ mInited \in Nat /\ nCommitted \in Nat /\ mSub \in Nat
      /\ nSubmitted \in Nat /\ mNext \in Nat
  BY DEF IInv, TypeOK
<1>3. /\ t <= nSubmitted /\ nCommitted < t /\ stages[Slot(t)] = 0
      /\ mNext <= mInited
  BY <1>2 DEF ScanInited, InitedNext, IInv, CountersInOrder
<1>4. t <= nCommitted + BufferSize
  <2>1. CASE mInited = nCommitted
    BY <2>1, <1>2, Constants
  <2>2. CASE mInited # nCommitted
    <3>1. nCommitted < mInited
      BY <2>2, <1>2, <1>3
    <3>2. mInited < nCommitted + BufferSize
      BY <3>1, <1>2, InitedPublished
    <3> QED
      BY <3>2, <1>2, Constants
  <2> QED
    BY <2>1, <2>2
<1>5. ~Held(t)
  <2> SUFFICES ASSUME Held(t) PROVE FALSE
    OBVIOUS
  <2>1. CASE t < nCommitted + BufferSize
    <3>1. t \in Vacant
      BY <2>1, <1>2, <1>3, Constants DEF Vacant
    <3> QED
      BY <3>1, <1>3, Constants DEF IInv, VacantSlots, VacantSlot
  <2>2. CASE t = nCommitted + BufferSize
    <3>1. Slot(t) = Slot(nCommitted)
      BY <2>2, <1>2, SlotWraps
    <3> QED
      BY <3>1, <1>3, Constants DEF IInv, VacantSlots
  <2> QED
    BY <2>1, <2>2, <1>2, <1>4, Constants
<1>6. \A c \in Clients : cpc[c] # "idle" => ctid[c] > t
  <2>1. \A c \in Clients : cpc[c] # "idle" => ctid[c] > mInited /\ ctid[c] \in Nat
    BY DEF IInv, ClientsInOrder, TypeOK
  <2>2. \A c \in Clients : cpc[c] # "idle" => ctid[c] # t
    BY <1>5 DEF Held
  <2> QED
    BY <1>2, <2>1, <2>2
<1>7. CountersInOrder'
  <2>1. /\ mpc # "exited" => pace[0] <= t
        /\ mNext <= t
    BY <1>2, <1>3, PipesAreIds DEF IInv, CountersInOrder, TypeOK
  <2> QED
    BY <1>3, <2>1 DEF ScanInited, IInv, CountersInOrder
<1>8. StopInOrder'
  BY DEF ScanInited, IInv, StopInOrder
<1>9. ClientsInOrder'
  BY <1>1, <1>6 DEF ScanInited, IInv, ClientsInOrder, Writing
<1> QED
  BY <1>1, <1>7, <1>8, <1>9 DEF IInv

LEMMA AdvanceInitedInv == IInv /\ TypeOK' /\ AdvanceInited => IInv'
<1> SUFFICES ASSUME IInv, TypeOK', AdvanceInited PROVE IInv'
  OBVIOUS
<1> USE DEF counters, workers, clients
<1>1. /\ Published' = Published
      /\ PublishedSlots' /\ VacantSlots' /\ WorkersInOrder'
  BY MonitorFrame DEF AdvanceInited
<1>2. pace'[0] = mInited /\ \A p \in Pipes : p > 0 => pace'[p] = pace[p]
  BY PipesAreIds DEF AdvanceInited, IInv, TypeOK
<1>3. CountersInOrder'
  <2>1. pdone[0] <= mInited /\ mInited <= mInited
    BY PipesAreIds DEF AdvanceInited, IInv, CountersInOrder, TypeOK
  <2> QED
    BY <1>2, <2>1 DEF AdvanceInited, IInv, CountersInOrder
<1>4. StopInOrder'
  BY DEF AdvanceInited, IInv, StopInOrder
<1>5. ClientsInOrder'
  BY <1>1 DEF AdvanceInited, IInv, ClientsInOrder, Writing
<1> QED
  BY <1>1, <1>3, <1>4, <1>5 DEF IInv

LEMMA ScanCommittedInv == IInv /\ TypeOK' /\ ScanCommitted => IInv'
<1> SUFFICES ASSUME IInv, TypeOK', ScanCommitted PROVE IInv'
  OBVIOUS
<1> USE DEF ctxs, pipes, workers, clients
<1> DEFINE u == mNext + 1
<1>1. /\ u \in Nat /\ mNext \in Nat /\ mInited \in Nat /\ nCommitted \in Nat
      /\ u <= mInited /\ nCommitted < u /\ stages[Slot(u)] = AllOnes
  BY DEF ScanCommitted, CommittedNext, IInv, CountersInOrder, TypeOK
<1>2. u \in Published
  BY <1>1, InitedPublished
<1>3. u <= pdone[NPipes]
  <2>1. u > pdone[NPipes] => stages[Slot(u)] = 0
    BY <1>2 DEF IInv, PublishedSlots, PublishedSlot
  <2> QED
    BY <1>1, <2>1, Constants, PipesAreIds DEF IInv, TypeOK
<1>4. Published' = Published /\ Vacant' = Vacant
  BY IdsKept DEF ScanCommitted
<1>5. CountersInOrder'
  BY <1>1, <1>3 DEF ScanCommitted, IInv, CountersInOrder
<1>6. StopInOrder'
  BY DEF ScanCommitted, IInv, StopInOrder
<1>7. ClientsInOrder'
  BY <1>4 DEF ScanCommitted, IInv, ClientsInOrder, Writing
<1>8. PublishedSlots'
  <2> SUFFICES ASSUME NEW t \in Published PROVE PublishedSlot(t)'
    BY <1>4 DEF PublishedSlots
  <2>1. PublishedSlot(t) /\ t \in Nat
    BY WindowIds DEF IInv, PublishedSlots
  <2>2. t <= mNext' => t <= mNext \/ t = u
    BY <1>1, <2>1 DEF ScanCommitted
  <2> QED
    BY <1>1, <2>1, <2>2 DEF PublishedSlot, ScanCommitted, HasTask
<1>9. VacantSlots'
  BY <1>4 DEF ScanCommitted, IInv, VacantSlots, VacantSlot
<1>10. WorkersInOrder'
  <2>1. \A w \in Workers : HasTask(w) => wtid[w] > u
    BY <1>1, TaskId DEF IInv, WorkersInOrder
  <2> QED
    BY <2>1 DEF ScanCommitted, IInv, WorkersInOrder, HasTask, Running
<1> QED
  BY <1>5, <1>6, <1>7, <1>8, <1>9, <1>10 DEF IInv

LEMMA PreStoreInv == IInv /\ TypeOK' /\ (NothingCommitted \/ StoreRoot) => IInv'
<1> SUFFICES ASSUME IInv, TypeOK', NothingCommitted \/ StoreRoot PROVE IInv'
  OBVIOUS
<1> USE DEF counters, pipes, workers, clients
<1>1. /\ Published' = Published
      /\ PublishedSlots' /\ VacantSlots' /\ WorkersInOrder'
  BY MonitorFrame DEF NothingCommitted, StoreRoot
<1>2. CountersInOrder'
  BY DEF NothingCommitted, StoreRoot, IInv, CountersInOrder
<1>3. StopInOrder'
  BY DEF NothingCommitted, StoreRoot, IInv, StopInOrder
<1>4. ClientsInOrder'
  BY <1>1 DEF NothingCommitted, StoreRoot, IInv, ClientsInOrder, Writing
<1> QED
  BY <1>1, <1>2, <1>3, <1>4 DEF IInv

LEMMA StoreCommittedInv == IInv /\ TypeOK' /\ StoreCommitted => IInv'
<1> SUFFICES ASSUME IInv, TypeOK', StoreCommitted PROVE IInv'
  OBVIOUS
<1> USE DEF ctxs, pipes, workers, clients
<1>1. /\ nCommitted \in Nat /\ mNext \in Nat /\ mInited \in Nat
      /\ nSubmitted \in Nat
      /\ nCommitted <= mNext /\ mNext <= mInited /\ nCommitted' = mNext
  BY DEF StoreCommitted, IInv, CountersInOrder, TypeOK
<1>2. \A t \in Nat : Held(t)' <=> Held(t)
  BY DEF Held, StoreCommitted
<1>3. Published' \subseteq Published
  BY <1>1, <1>2 DEF Published, StoreCommitted
<1>4. \A t \in nCommitted..mNext :
        stages[Slot(t)] = AllOnes /\ op[Slot(t)] = DONE
  <2> SUFFICES ASSUME NEW t \in nCommitted..mNext
               PROVE  stages[Slot(t)] = AllOnes /\ op[Slot(t)] = DONE
    OBVIOUS
  <2>1. CASE t = nCommitted
    BY <2>1 DEF IInv, VacantSlots
  <2>2. CASE t # nCommitted
    <3>1. t \in Nat /\ nCommitted < t /\ t <= mInited /\ t <= mNext
      BY <2>2, <1>1
    <3>2. PublishedSlot(t)
      BY <3>1, InitedPublished DEF IInv, PublishedSlots
    <3> QED
      BY <3>1, <3>2 DEF PublishedSlot
  <2> QED
    BY <2>1, <2>2
<1>5. CountersInOrder'
  BY <1>1 DEF StoreCommitted, IInv, CountersInOrder
<1>6. StopInOrder'
  BY DEF StoreCommitted, IInv, StopInOrder
<1>7. ClientsInOrder'
  <2>1. \A t \in Published : t \in Nat /\ t < nCommitted + BufferSize
    BY WindowIds
  <2>2. \A t \in Published' : t < nCommitted' + BufferSize
    BY <1>1, <1>3, <2>1, Constants
  <2>3. \A c \in Clients : Writing(c) => ctid[c] < nCommitted' + BufferSize
    BY <1>1, Constants DEF IInv, ClientsInOrder, TypeOK
  <2> QED
    BY <2>2, <2>3 DEF StoreCommitted, IInv, ClientsInOrder, Writing
<1>8. PublishedSlots'
  BY <1>3 DEF StoreCommitted, IInv, PublishedSlots, PublishedSlot, HasTask
<1>9. VacantSlots'
  <2>1. stages[Slot(mNext)] = AllOnes /\ op[Slot(mNext)] = DONE
    BY <1>1, <1>4
  <2>2. ASSUME NEW t \in Vacant' PROVE VacantSlot(t)'
    <3>1. /\ t \in Nat /\ mNext < t /\ t < mNext + BufferSize
          /\ t > nSubmitted \/ Held(t)
      BY <1>1, <1>2, Constants DEF Vacant, StoreCommitted
    <3>2. CASE t < nCommitted + BufferSize
      <4>1. t \in Vacant
        BY <3>1, <3>2, <1>1, Constants DEF Vacant
      <4> QED
        BY <4>1 DEF StoreCommitted, IInv, VacantSlots, VacantSlot
    <3>3. CASE t >= nCommitted + BufferSize
      <4> DEFINE u == t - BufferSize
      <4>1. u \in nCommitted..mNext /\ u \in Nat /\ t = u + BufferSize
        BY <3>1, <3>3, <1>1, Constants
      <4>2. Slot(t) = Slot(u)
        BY <4>1, SlotWraps
      <4>3. \A c \in Clients : cpc[c] = "publish" => ctid[c] # t
        BY <3>1, <3>3, <1>1, Constants DEF IInv, ClientsInOrder, Writing, TypeOK
      <4>4. stages[Slot(t)] = AllOnes /\ op[Slot(t)] = DONE
        BY <4>1, <4>2, <1>4
      <4> QED
        BY <4>3, <4>4 DEF StoreCommitted, VacantSlot
    <3> QED
      BY <3>1, <3>2, <3>3, <1>1, Constants
  <2> QED
    BY <1>1, <2>1, <2>2 DEF StoreCommitted, IInv, VacantSlots
<1>10. WorkersInOrder'
  BY DEF StoreCommitted, IInv, WorkersInOrder, HasTask, Running
<1> QED
  BY <1>5, <1>6, <1>7, <1>8, <1>9, <1>10 DEF IInv
\* The bubbles do not reach round the ring to an id that is not committed.
LEMMA MarginBound ==
    ASSUME NEW n \in Nat
    PROVE  Margin(n) \in Nat /\ Margin(n) < BufferSize
<1>1. BatchSize \in Nat /\ BatchSize >= 1 /\ BufferSize \in Nat /\ BufferSize >= 2 * BatchSize
  BY RingAssumption
<1>2. n % BatchSize \in 0..(BatchSize - 1)
  BY <1>1
<1>3. (BatchSize - (n % BatchSize)) % BatchSize \in 0..(BatchSize - 1)
  BY <1>1, <1>2
<1> QED
  BY <1>1, <1>3 DEF Margin

LEMMA AppendBubblesInv == IInv /\ TypeOK' /\ AppendBubbles => IInv'
<1> SUFFICES ASSUME IInv, TypeOK', AppendBubbles PROVE IInv'
  OBVIOUS
<1> USE DEF counters, workers, clients
<1>1. /\ Published' = Published
      /\ PublishedSlots' /\ VacantSlots' /\ WorkersInOrder'
  BY MonitorFrame DEF AppendBubbles
<1>2. /\ nCommitted \in Nat /\ nSubmitted \in Nat /\ mInited \in Nat
      /\ pdone[0] \in Nat /\ pace[0] \in Nat
  BY PipesAreIds DEF IInv, TypeOK
<1>3. /\ stop /\ nCommitted = nSubmitted /\ mInited = nSubmitted
      /\ pdone[0] <= mInited
  BY <1>2 DEF AppendBubbles, IInv, StopInOrder, CountersInOrder, TypeOK
<1>4. Margin(mInited) \in Nat /\ Margin(mInited) < BufferSize
  BY <1>2, MarginBound
<1>5. /\ pace'[0] = mInited + Margin(mInited)
      /\ \A p \in Pipes : p > 0 => pace'[p] = pace[p]
  BY PipesAreIds DEF AppendBubbles, IInv, TypeOK
<1>6. /\ pdone[0] <= pace'[0]
      /\ pace'[0] < nSubmitted + BufferSize
  BY <1>2, <1>3, <1>4, <1>5, Constants
<1>7. CountersInOrder'
  BY <1>5, <1>6 DEF AppendBubbles, IInv, CountersInOrder
<1>8. StopInOrder'
  BY <1>3, <1>6 DEF AppendBubbles, IInv, StopInOrder
<1>9. ClientsInOrder'
  BY <1>1 DEF AppendBubbles, IInv, ClientsInOrder, Writing
<1> QED
  BY <1>1, <1>7, <1>8, <1>9 DEF IInv

LEMMA StopInv == IInv /\ TypeOK' /\ Stop => IInv'
<1> SUFFICES ASSUME IInv, TypeOK', Stop PROVE IInv'
  OBVIOUS
<1> USE DEF counters, pipes, workers, clients, monitor
<1>1. /\ Published' = Published
      /\ PublishedSlots' /\ VacantSlots' /\ WorkersInOrder'
  BY MonitorFrame DEF Stop
<1>2. CountersInOrder'
  BY DEF Stop, IInv, CountersInOrder
<1>3. StopInOrder'
  BY DEF Stop, IInv, StopInOrder
<1>4. ClientsInOrder'
  BY <1>1 DEF Stop, IInv, ClientsInOrder, Writing
<1> QED
  BY <1>1, <1>2, <1>3, <1>4 DEF IInv

\* When the destructor tells the workers to leave, none has a task.
LEMMA StopWorkersInv == IInv /\ TypeOK' /\ StopWorkers => IInv'
<1> SUFFICES ASSUME IInv, TypeOK', StopWorkers PROVE IInv'
  OBVIOUS
<1> USE DEF counters, ctxs, pipes, clients, monitor
<1>1. Published' = Published /\ Vacant' = Vacant
  BY IdsKept DEF StopWorkers
<1>2. Published = {}
  BY DEF StopWorkers, IInv, StopInOrder, TypeOK, Published
<1>3. \A w \in Workers : ~HasTask(w) /\ ~Running(w)
  BY <1>2, TaskId DEF IInv, WorkersInOrder
<1>4. \A w \in Workers : wtid'[w] = NoTask /\ ~HasTask(w)'
  BY DEF StopWorkers, HasTask
<1>5. CountersInOrder'
  BY DEF StopWorkers, IInv, CountersInOrder
<1>6. StopInOrder'
  BY DEF StopWorkers, IInv, StopInOrder
<1>7. ClientsInOrder'
  BY <1>1 DEF StopWorkers, IInv, ClientsInOrder, Writing
<1>8. PublishedSlots'
  BY <1>1, <1>2 DEF PublishedSlots
<1>9. VacantSlots'
  BY <1>1 DEF StopWorkers, IInv, VacantSlots, VacantSlot
<1>10. WorkersInOrder'
  BY <1>3, <1>4 DEF StopWorkers, IInv, WorkersInOrder, Running, TypeOK
<1> QED
  BY <1>5, <1>6, <1>7, <1>8, <1>9, <1>10 DEF IInv

-------------------------------------------------------------------------------
(* The invariant *)

LEMMA InitInv == Init => IInv
<1> SUFFICES ASSUME Init PROVE IInv
  OBVIOUS
<1>1. TypeOK
  BY InitType
<1>2. \A t : ~Held(t)
  BY DEF Init, Held
<1>3. Published = {} /\ \A t \in Vacant : t \in Nat
  BY Constants DEF Init, Published, Vacant
<1>4. \A s \in Slots : stages[s] = AllOnes /\ op[s] = DONE
  BY DEF Init
<1>5. CountersInOrder
  <2>1. \A p \in Pipes : p > 0 => p - 1 \in Pipes
    BY Constants DEF Pipes
  <2> QED
    BY <2>1, PipesAreIds DEF Init, CountersInOrder
<1>6. \A w \in Workers : wtid[w] = 0 /\ wlast[w] = 0 /\ wpc[w] = "spin" /\ wstage[w] = 1
  BY DEF Init
<1>7. NoTask # 0
  BY DEF NoTask
<1>8. StopInOrder
  BY <1>6, <1>7 DEF Init, StopInOrder
<1>9. ClientsInOrder
  BY <1>3 DEF Init, ClientsInOrder, Writing
<1>10. PublishedSlots
  BY <1>3 DEF PublishedSlots
<1>11. VacantSlots
  <2>1. 0 \in Slots /\ Slot(nCommitted) \in Slots
    <3>1. nCommitted \in Nat
      BY <1>1 DEF TypeOK
    <3> QED
      BY <3>1, SlotInRing, Constants DEF Slots
  <2>2. \A t \in Vacant : Slot(t) \in Slots
    BY <1>3, SlotInRing
  <2>3. \A c \in Clients : cpc[c] # "publish"
    BY DEF Init
  <2> QED
    BY <1>4, <2>1, <2>2, <2>3 DEF VacantSlots, VacantSlot
<1>12. WorkersInOrder
  <2>1. \A w \in Workers : ~HasTask(w) /\ ~Running(w)
    BY <1>6 DEF HasTask, Running
  <2>2. pdone[NPipes] = 0 /\ avail \subseteq Workers
    BY PipesAreIds DEF Init
  <2> QED
    BY <1>6, <2>1, <2>2 DEF WorkersInOrder
<1> QED
  BY <1>1, <1>5, <1>8, <1>9, <1>10, <1>11, <1>12 DEF IInv

LEMMA StutterInv == IInv /\ UNCHANGED vars => IInv'
<1> SUFFICES ASSUME IInv, UNCHANGED vars PROVE IInv'
  OBVIOUS
<1> USE DEF vars, counters, ctxs, pipes, workers, clients, monitor
<1>1. TypeOK'
  BY DEF IInv, TypeOK
<1>2. /\ Published' = Published
      /\ PublishedSlots' /\ VacantSlots' /\ WorkersInOrder'
  BY MonitorFrame
<1>3. CountersInOrder' /\ StopInOrder'
  BY DEF IInv, CountersInOrder, StopInOrder
<1>4. ClientsInOrder'
  BY <1>2 DEF IInv, ClientsInOrder, Writing
<1> QED
  BY <1>1, <1>2, <1>3, <1>4 DEF IInv

LEMMA StepInv == IInv /\ [Next]_vars => IInv'
<1> SUFFICES ASSUME IInv, [Next]_vars PROVE IInv'
  OBVIOUS
<1>1. TypeOK'
  BY StepType DEF IInv
<1>2. ASSUME NEW c \in Clients, Claim(c) \/ Submitting(c) PROVE IInv'
  BY <1>1, <1>2, ClaimInv, EnterInv, PublishCheckpointInv, WriteInv, PublishInv
  DEF Submitting
<1>3. ASSUME Entry PROVE IInv'
  BY <1>1, <1>3, EntryCheckpointInv, EntrySkipInv, EntryTaskInv, EntryBubbleInv
  DEF Entry
<1>4. ASSUME NEW p \in InnerPipes, Inner(p) PROVE IInv'
  BY <1>1, <1>4, InnerTaskInv, InnerPassInv DEF Inner
<1>5. ASSUME Exit PROVE IInv'
  BY <1>1, <1>5, ExitHandOffInv, ExitDoneInv DEF Exit
<1>6. ASSUME NEW p \in Pipes, Batch(p) PROVE IInv'
  BY <1>1, <1>6, BatchInv
<1>7. ASSUME NEW w \in Workers, Worker(w) PROVE IInv'
  BY <1>1, <1>7, WorkerIdleInv, ExecInv, StoreStageInv, FinishInv DEF Worker
<1>8. ASSUME Monitor PROVE IInv'
  BY <1>1, <1>8, ReadCountersInv, ScanInitedInv, AdvanceInitedInv,
     ScanCommittedInv, PreStoreInv, StoreCommittedInv, AppendBubblesInv
  DEF Monitor
<1> QED
  BY <1>1, <1>2, <1>3, <1>4, <1>5, <1>6, <1>7, <1>8,
     StopInv, StopWorkersInv, StutterInv DEF Next

\* The inductive invariant holds: the ids of the window are where the
\* counters, the ring and the workers agree they are.
THEOREM Invariance == Spec => []IInv
<1>1. Init => IInv
  BY InitInv
<1>2. IInv /\ [Next]_vars => IInv'
  BY StepInv
<1> QED
  BY <1>1, <1>2, PTL DEF Spec
-------------------------------------------------------------------------------
(* What the invariant gives *)

LEMMA IInvSlotExclusive == IInv => SlotExclusive
<1> SUFFICES ASSUME IInv, NEW c \in Clients, Writing(c)
             PROVE  LET s == Slot(ctid[c]) IN
                    /\ \A d \in Clients \ {c} : Writing(d) => Slot(ctid[d]) # s
                    /\ \A p \in Pipes : Ready(p) => Slot(Tid(p)) # s
                    /\ \A w \in Workers : /\ Running(w) => Slot(wjob[w]) # s
                                          /\ HasTask(w) => Slot(wtid[w]) # s
                    /\ \A t \in (nCommitted + 1)..mInited : Slot(t) # s
  BY DEF SlotExclusive
<1> DEFINE u == ctid[c]
<1>1. /\ u \in Nat /\ u <= nSubmitted /\ Held(u) /\ u > mInited
      /\ u > nCommitted /\ u < nCommitted + BufferSize
  BY ClaimedId DEF Writing
<1>2. TypeOK /\ nCommitted \in Nat /\ mInited \in Nat /\ nSubmitted \in Nat
  BY DEF IInv, TypeOK
<1>3. ASSUME NEW d \in Clients \ {c}, Writing(d) PROVE Slot(ctid[d]) # Slot(u)
  <2>1. /\ ctid[d] \in Nat /\ ctid[d] > nCommitted
        /\ ctid[d] < nCommitted + BufferSize
    BY <1>3, ClaimedId DEF Writing
  <2>2. ctid[d] # u
    BY <1>3 DEF IInv, ClientsInOrder, Writing
  <2> QED
    BY <1>1, <1>2, <2>1, <2>2, OtherSlot
<1>4. ASSUME NEW p \in Pipes, Ready(p) PROVE Slot(Tid(p)) # Slot(u)
  <2>1. /\ Tid(p) \in Nat /\ Tid(p) > nCommitted
        /\ Tid(p) < nCommitted + BufferSize
        /\ Tid(p) <= mInited \/ Tid(p) > nSubmitted
    BY <1>4, ReadyId
  <2> QED
    BY <1>1, <1>2, <2>1, OtherSlot
<1>5. ASSUME NEW w \in Workers, HasTask(w) PROVE Slot(wtid[w]) # Slot(u)
  <2>1. /\ wtid[w] \in Nat /\ wtid[w] \in Published /\ wtid[w] > nCommitted
        /\ wtid[w] < nCommitted + BufferSize
    BY <1>5, TaskId
  <2>2. wtid[w] # u
    BY <1>1, <2>1 DEF Published
  <2> QED
    BY <1>1, <1>2, <2>1, <2>2, OtherSlot
<1>6. \A w \in Workers : Running(w) => HasTask(w) /\ wjob[w] = wtid[w]
  BY DEF IInv, WorkersInOrder
<1>7. ASSUME NEW t \in (nCommitted + 1)..mInited PROVE Slot(t) # Slot(u)
  <2>1. t \in Nat /\ nCommitted < t /\ t <= mInited
    BY <1>2, <1>7
  <2>2. t < nCommitted + BufferSize
    BY <2>1, InitedPublished
  <2> QED
    BY <1>1, <1>2, <2>1, <2>2, OtherSlot
<1> QED
  BY <1>3, <1>4, <1>5, <1>6, <1>7

\* A client fills a context that no other thread is at.
THEOREM SlotExclusion == Spec => []SlotExclusive
<1>1. IInv => SlotExclusive
  BY IInvSlotExclusive
<1> QED
  BY <1>1, Invariance, PTL

LEMMA IInvEntryMeetsInit == IInv => EntryMeetsInit
<1> SUFFICES ASSUME IInv, Ready(0), ~IsCheckpoint(Tid(0))
             PROVE  LET s == Slot(Tid(0)) IN
                    IF Tid(0) <= nSubmitted
                    THEN op[s] = 0 /\ waitChild[s] = 0 /\ sno[s] = Tid(0)
                    ELSE op[s] = DONE
  BY DEF EntryMeetsInit
<1>1. /\ Tid(0) \in Nat /\ Tid(0) = pdone[0] + 1
      /\ nSubmitted \in Nat /\ pdone[0] \in Nat
  BY PipesAreIds, PipeTypes DEF IInv, TypeOK, Tid
<1>2. \/ Tid(0) \in Published
      \/ Tid(0) > nSubmitted /\ op[Slot(Tid(0))] = DONE
  BY ReadyId, PipesAreIds
<1>3. CASE Tid(0) \in Published
  <2>1. Tid(0) <= nSubmitted
    BY <1>1, <1>3 DEF Published
  <2>2. PublishedSlot(Tid(0))
    BY <1>3 DEF IInv, PublishedSlots
  <2> QED
    BY <1>1, <2>1, <2>2 DEF PublishedSlot
<1>4. CASE Tid(0) > nSubmitted /\ op[Slot(Tid(0))] = DONE
  BY <1>1, <1>4
<1> QED
  BY <1>2, <1>3, <1>4

\* ENTRY meets each update as its client wrote it, and a finished context
\* where the bubbles of the shutdown are.
THEOREM EntryCorrect == Spec => []EntryMeetsInit
<1>1. IInv => EntryMeetsInit
  BY IInvEntryMeetsInit
<1> QED
  BY <1>1, Invariance, PTL

LEMMA IInvTaskHasWorker == IInv => TaskHasWorker
<1> SUFFICES ASSUME IInv PROVE TaskHasWorker
  OBVIOUS
<1>1. ASSUME NEW t \in (mNext + 1)..pdone[NPipes]
      PROVE  \/ stages[Slot(t)] = AllOnes
             \/ \E w \in Workers :
                  /\ wtid[w] = t /\ HasTask(w)
                  /\ \A x \in Workers \ {w} : HasTask(x) => wtid[x] # t
  <2>1. /\ mNext \in Nat /\ nCommitted \in Nat /\ nSubmitted \in Nat
        /\ mInited \in Nat
        /\ pdone[NPipes] \in Nat /\ pdone[0] \in Nat /\ pace[0] \in Nat
    BY PipesAreIds DEF IInv, TypeOK
  <2>2. /\ nCommitted <= mNext /\ pdone[NPipes] <= pdone[0] /\ pdone[0] <= pace[0]
        /\ mpc # "exited" => pace[0] <= mInited
    BY PipesAreIds, Constants DEF IInv, CountersInOrder
  <2>3. t \in Nat /\ nCommitted < t /\ t <= pdone[NPipes] /\ t <= pace[0]
    BY <1>1, <2>1, <2>2
  <2>4. CASE mpc # "exited"
    <3>1. PublishedSlot(t)
      BY <2>1, <2>2, <2>3, <2>4, InitedPublished DEF IInv, PublishedSlots
    <3>2. stages[Slot(t)] # AllOnes => \E w \in Workers : HasTask(w) /\ wtid[w] = t
      BY <2>3, <3>1 DEF PublishedSlot
    <3> QED
      BY <3>2 DEF IInv, WorkersInOrder
  <2>5. CASE mpc = "exited"
    <3>1. nCommitted = nSubmitted /\ pace[0] < nSubmitted + BufferSize
      BY <2>5 DEF IInv, StopInOrder
    <3>2. t \in Vacant
      BY <2>1, <2>3, <3>1, Constants DEF Vacant
    <3> QED
      BY <3>2 DEF IInv, VacantSlots, VacantSlot
  <2> QED
    BY <2>4, <2>5
<1>2. \A w \in avail : ~HasTask(w)
  BY DEF IInv, WorkersInOrder
<1> QED
  BY <1>1, <1>2 DEF TaskHasWorker

\* An unfinished id that left the pipes is one worker's, and an available
\* worker has no task that EXIT could overwrite.
THEOREM TaskOwnership == Spec => []TaskHasWorker
<1>1. IInv => TaskHasWorker
  BY IInvTaskHasWorker
<1> QED
  BY <1>1, Invariance, PTL
===============================================================================
