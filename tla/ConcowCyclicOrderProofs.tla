----------------------- MODULE ConcowCyclicOrderProofs ------------------------
(***************************************************************************)
(* The contract of the B-tree's handlers and the promise of the interface, *)
(* proved for the cyclic pipeline: a handler meets a node only when the    *)
(* task that made it is two handlers further, and the roots hold prefixes. *)
(***************************************************************************)
EXTENDS ConcowCyclicProofs

LEMMA PublishedIds ==
    ASSUME IInv
    PROVE  \A t \in Published :
             /\ t \in Nat /\ nCommitted < t /\ t < nCommitted + BufferSize
             /\ t <= nSubmitted /\ Slot(t) \in Slots /\ Seat(t) \in Pipes
             /\ PublishedSlot(t)
<1> SUFFICES ASSUME NEW t \in Published
             PROVE  /\ t \in Nat /\ nCommitted < t
                    /\ t < nCommitted + BufferSize /\ t <= nSubmitted
                    /\ Slot(t) \in Slots /\ Seat(t) \in Pipes
                    /\ PublishedSlot(t)
  OBVIOUS
<1>1. t \in Nat /\ nCommitted < t /\ t < nCommitted + BufferSize
  BY WindowIds
<1>2. t <= nSubmitted
  BY DEF Published, IInv, TypeOK
<1> QED
  BY <1>1, <1>2, SlotInRing, SeatInPipes DEF IInv, PublishedSlots

\* Other published ids have other slots.
LEMMA OtherTask ==
    ASSUME IInv, NEW u \in Nat, nCommitted <= u, u < nCommitted + BufferSize
    PROVE  \A t \in Published \ {u} : Slot(t) # Slot(u)
<1> SUFFICES ASSUME NEW t \in Published \ {u} PROVE Slot(t) # Slot(u)
  OBVIOUS
<1>1. t \in Nat /\ nCommitted < t /\ t < nCommitted + BufferSize
  BY PublishedIds
<1>2. TypeOK /\ nCommitted <= t
  BY <1>1 DEF IInv, TypeOK
<1> QED
  BY <1>1, <1>2, OtherSlot

\* A step that leaves the slot of a task and its place in the pipes alone.
LEMMA TaskKept ==
    ASSUME NEW t \in Nat, TaskInOrder(t),
           op'[Slot(t)] = op[Slot(t)],
           stages'[Slot(t)] = stages[Slot(t)],
           pastVer'[Slot(t)] = pastVer[Slot(t)],
           \A p \in Pipes :
               /\ t <= pdone'[p] <=> t <= pdone[p]
               /\ giving'[p] /\ t = pdone'[p] + 1 <=>
                      giving[p] /\ t = pdone[p] + 1
    PROVE  TaskInOrder(t)'
<1>1. Seat(t) \in Pipes
  BY SeatInPipes
<1>2. (Entered(t)' <=> Entered(t)) /\ (Exited(t)' <=> Exited(t))
  BY <1>1 DEF Entered, Exited
<1> QED
  BY <1>2 DEF TaskInOrder, Tid

LEMMA TasksFrame ==
    ASSUME OrderInv, Published' \subseteq Published,
           UNCHANGED <<op, stages, pastVer, pdone, giving>>
    PROVE  TasksInOrder'
<1>1. ASSUME NEW t \in Published PROVE TaskInOrder(t)'
  <2>1. t \in Nat /\ TaskInOrder(t)
    BY PublishedIds DEF OrderInv, TasksInOrder
  <2> QED
    BY <2>1, TaskKept
<1> QED
  BY <1>1 DEF TasksInOrder

LEMMA StagesFrame ==
    ASSUME OrderInv, UNCHANGED <<wtid, wlast, wpc, wstage>>,
           \A w \in Workers : HasTask(w) =>
               op'[Slot(wtid[w])] = op[Slot(wtid[w])]
    PROVE  StagesInOrder'
BY DEF OrderInv, StagesInOrder, HasTask, Progress

LEMMA RootsFrame ==
    ASSUME OrderInv, Rooted' \subseteq Rooted,
           UNCHANGED <<nCommitted, root, ctxRoot, ctxRootVer, mpc, mNext>>
    PROVE  RootsInOrder'
BY DEF OrderInv, RootsInOrder

\* A step that moves no task: only the counters and what the workers say of
\* themselves may change.
LEMMA OrderFrame ==
    ASSUME OrderInv, IInv', Published' \subseteq Published, RootsInOrder',
           UNCHANGED <<op, stages, pastVer, pdone, giving, wtid, wlast, wpc,
                       wstage>>
    PROVE  OrderInv'
<1>1. TasksInOrder'
  BY TasksFrame
<1>2. StagesInOrder'
  BY StagesFrame
<1>3. HandOversInOrder'
  BY DEF OrderInv, HandOversInOrder, Entered, Tid
<1> QED
  BY <1>1, <1>2, <1>3 DEF OrderInv

\* The task EXIT holds between its handler and the hand-over is published.
LEMMA GivingId ==
    ASSUME OrderInv, NEW p \in Pipes, giving[p]
    PROVE  /\ Tid(p) \in Published /\ ~stop /\ AtExit(p)
           /\ Slot(Tid(p)) \in Slots /\ op[Slot(Tid(p))] \in {NPipes, DONE}
<1> DEFINE t == Tid(p)
<1>1. /\ IInv /\ AtExit(p) /\ t <= nSubmitted /\ Entered(t)
      /\ op[Slot(t)] \in {NPipes, DONE}
  BY DEF OrderInv, IInv, PipesInOrder, HandOversInOrder
<1>2. /\ t \in Nat /\ pdone[p] \in Nat /\ t = pdone[p] + 1 /\ Slot(t) \in Slots
      /\ nCommitted \in Nat /\ mNext \in Nat /\ nSubmitted \in Nat
      /\ nInited \in Nat /\ mInited \in Nat /\ pdone \in [Pipes -> Nat]
  BY <1>1, PipeTypes DEF IInv, TypeOK
<1>3. nCommitted < t
  BY <1>1, <1>2 DEF IInv, CountersInOrder
<1>4. ~stop /\ mpc # "exited"
  BY <1>1, <1>2, <1>3 DEF IInv, StopInOrder
<1>5. Seat(t) \in Pipes
  BY <1>2, SeatInPipes
<1>6. t <= mInited
  <2>1. pdone[Seat(t)] <= nInited /\ nInited <= mInited /\ t <= pdone[Seat(t)]
    BY <1>1, <1>4, <1>5 DEF IInv, CountersInOrder, Entered
  <2> HIDE DEF t
  <2> QED
    BY <1>2, <1>5, <2>1
<1> QED
  BY <1>1, <1>2, <1>3, <1>4, <1>6, InitedPublished

\* A step of another pipe, or of no pipe, while EXIT holds a task.
LEMMA HandOversKept ==
    ASSUME OrderInv, pdone \in [Pipes -> Nat],
           \A q \in Pipes : pdone'[q] \in Nat /\ pdone'[q] >= pdone[q],
           \A q \in Pipes : giving'[q] =>
               /\ giving[q] /\ pdone'[q] = pdone[q]
               /\ op'[Slot(Tid(q))] = op[Slot(Tid(q))]
    PROVE  HandOversInOrder'
<1> SUFFICES ASSUME NEW q \in Pipes, giving'[q]
             PROVE  /\ \A t : t = Tid(q)' => Entered(t)'
                    /\ op'[Slot(Tid(q)')] \in {NPipes, DONE}
  BY DEF HandOversInOrder, Entered
<1>1. giving[q] /\ Tid(q)' = Tid(q) /\ op'[Slot(Tid(q))] = op[Slot(Tid(q))]
  BY DEF Tid
<1>2. Entered(Tid(q)) /\ Tid(q) \in Nat
  BY <1>1 DEF OrderInv, HandOversInOrder, Tid
<1>3. \A t : t = Tid(q) => Entered(t)'
  <2> SUFFICES ASSUME NEW t, t = Tid(q) PROVE Entered(t)'
    OBVIOUS
  <2>1. t \in Nat /\ Seat(t) \in Pipes /\ t <= pdone[Seat(t)]
    BY <1>2, SeatInPipes DEF Entered
  <2>2. pdone'[Seat(t)] >= pdone[Seat(t)] /\ pdone[Seat(t)] \in Nat
        /\ pdone'[Seat(t)] \in Nat
    BY <2>1
  <2>3. t <= pdone'[Seat(t)]
    BY <2>1, <2>2
  <2> QED
    BY <2>3 DEF Entered
<1> QED
  BY <1>1, <1>3, GivingId DEF Tid

-------------------------------------------------------------------------------
(* Steps of clients *)

LEMMA ClaimOrder ==
    ASSUME OrderInv, IInv', NEW c \in Clients, Claim(c)
    PROVE  OrderInv'
<1> USE DEF ctxs, pipes, workers, monitor
<1>1. /\ IInv /\ TypeOK /\ nSubmitted \in Nat /\ nInited \in Nat
      /\ mInited \in Nat /\ nCommitted \in Nat
      /\ nSubmitted' = nSubmitted + 1
      /\ UNCHANGED <<nCommitted, root, ctxRoot, ctxRootVer, mpc, mNext, op,
                     stages, pastVer, pdone, giving, wtid, wlast, wpc, wstage>>
  BY DEF OrderInv, IInv, TypeOK, Claim
<1>2. Published' \subseteq Published
  <2>1. \A t \in Nat : Held(t)' <=> Held(t) \/ t = nSubmitted + 1
    BY <1>1 DEF Claim, Held, TypeOK
  <2> QED
    BY <1>1, <2>1 DEF Published
<1>3. Rooted' \subseteq Rooted
  <2>1. mpc # "exited"
    BY <1>1 DEF Claim, IInv, StopInOrder
  <2>2. \A t \in Nat : Entered(t) => t <= nSubmitted
    <3> SUFFICES ASSUME NEW t \in Nat, Entered(t) PROVE t <= nSubmitted
      OBVIOUS
    <3>1. Seat(t) \in Pipes /\ t <= pdone[Seat(t)]
      BY SeatInPipes DEF Entered
    <3>2. pdone[Seat(t)] <= nInited /\ nInited <= mInited /\ mInited <= nSubmitted
      BY <1>1, <2>1, <3>1 DEF IInv, CountersInOrder
    <3>3. pdone[Seat(t)] \in Nat
      BY <1>1, <3>1 DEF TypeOK
    <3> QED
      BY <1>1, <3>1, <3>2, <3>3
  <2>3. nCommitted <= nSubmitted
    BY <1>1 DEF IInv, CountersInOrder, TypeOK
  <2>4. \A t : Entered(t)' <=> Entered(t)
    BY <1>1 DEF Entered
  <2> QED
    BY <1>1, <2>2, <2>3, <2>4 DEF Rooted
<1>4. RootsInOrder'
  BY <1>1, <1>3, RootsFrame
<1> QED
  BY <1>1, <1>2, <1>4, OrderFrame

\* The slot a client fills is no task's.
LEMMA WriteOrder ==
    ASSUME OrderInv, IInv', NEW c \in Clients, Write(c)
    PROVE  OrderInv'
<1> USE DEF counters, pipes, workers, monitor
<1> DEFINE u == ctid[c]
<1>1. IInv /\ TypeOK
  BY DEF OrderInv, IInv
<1>2. /\ u \in Nat /\ u > nCommitted /\ u < nCommitted + BufferSize /\ Held(u)
  <2>1. u < nCommitted + BufferSize
    BY <1>1, Constants DEF Write, BufferFull, TypeOK
  <2> QED
    BY <1>1, <2>1, ClaimedId DEF Write
<1>3. /\ UNCHANGED <<nSubmitted, nCommitted, root, ctxRoot, ctxRootVer, mpc,
                     mNext, stages, pastVer, pdone, giving, wtid, wlast, wpc,
                     wstage>>
      /\ \A s \in Slots \ {Slot(u)} : op'[s] = op[s]
  BY <1>1 DEF Write, TypeOK
<1>4. Published' = Published
  <2>1. \A t : Held(t)' <=> Held(t)
    BY <1>1 DEF Write, Held, TypeOK
  <2> QED
    BY <1>3, <2>1 DEF Published
<1>5. \A t \in Published : op'[Slot(t)] = op[Slot(t)]
  <2>1. u \notin Published /\ nCommitted <= u
    BY <1>1, <1>2 DEF Published, TypeOK
  <2> QED
    BY <1>1, <1>2, <1>3, <2>1, OtherTask, PublishedIds
<1>6. TasksInOrder'
  <2>1. ASSUME NEW t \in Published PROVE TaskInOrder(t)'
    <3>1. t \in Nat /\ TaskInOrder(t)
      BY <1>1, PublishedIds DEF OrderInv, TasksInOrder
    <3> QED
      BY <1>3, <1>5, <3>1, TaskKept
  <2> QED
    BY <1>4, <2>1 DEF TasksInOrder
<1>7. HandOversInOrder'
  <2>1. \A q \in Pipes : giving[q] =>
          op'[Slot(Tid(q))] = op[Slot(Tid(q))]
    BY <1>5, GivingId
  <2>2. \A q \in Pipes : pdone[q] \in Nat /\ pdone[q] >= pdone[q]
    BY <1>1 DEF TypeOK
  <2> QED
    BY <1>1, <1>3, <2>1, <2>2, HandOversKept DEF TypeOK
<1>8. StagesInOrder'
  BY <1>1, <1>3, <1>5, TaskId, StagesFrame
<1>9. RootsInOrder'
  <2>1. Rooted' = Rooted
    BY <1>3 DEF Rooted, Entered
  <2> QED
    BY <1>3, <2>1, RootsFrame
<1> QED
  BY <1>6, <1>7, <1>8, <1>9 DEF OrderInv

LEMMA PublishOrder ==
    ASSUME OrderInv, IInv', NEW c \in Clients, Publish(c)
    PROVE  OrderInv'
<1> USE DEF counters, ctxs, pipes, workers, monitor
<1> DEFINE u == ctid[c]
<1>1. IInv /\ TypeOK
  BY DEF OrderInv, IInv
<1>2. /\ u \in Nat /\ u > nCommitted /\ u < nCommitted + BufferSize
      /\ Held(u) /\ ~Entered(u) /\ ~Exited(u) /\ VacantSlot(u)
      /\ Slot(u) \in Slots
  <2>1. u < nCommitted + BufferSize
    BY <1>1 DEF Publish, IInv, ClientsInOrder
  <2> QED
    BY <1>1, <2>1, ClaimedId, SlotInRing DEF Publish
<1>3. /\ UNCHANGED <<nSubmitted, nCommitted, root, ctxRoot, ctxRootVer, mpc,
                     mNext, op, pastVer, pdone, giving, wtid, wlast, wpc,
                     wstage>>
      /\ \A s \in Slots \ {Slot(u)} : stages'[s] = stages[s]
  BY <1>1 DEF Publish, TypeOK
<1>4. Published' \subseteq Published \union {u}
  <2>1. \A t : Held(t) => Held(t)' \/ t = u
    BY <1>1 DEF Publish, Held, TypeOK
  <2> QED
    BY <1>3, <2>1 DEF Published
<1>5. ASSUME NEW t \in Published, t # u PROVE TaskInOrder(t)'
  <2>1. t \in Nat /\ TaskInOrder(t) /\ Slot(t) \in Slots
    BY <1>1, PublishedIds DEF OrderInv, TasksInOrder
  <2>2. Slot(t) # Slot(u)
    <3>1. nCommitted <= u
      BY <1>1, <1>2 DEF TypeOK
    <3> QED
      BY <1>1, <1>2, <1>5, <3>1, OtherTask
  <2> QED
    BY <1>3, <2>1, <2>2, TaskKept
<1>6. \A t : t = u => TaskInOrder(t)'
  <2>1. op[Slot(u)] = 0
    BY <1>2 DEF VacantSlot, Publish
  <2>2. \A p \in Pipes : ~(u <= pdone[p]) /\ Pos(u, p) \in 0..(NPipes - 1)
    <3> SUFFICES ASSUME NEW p \in Pipes
                 PROVE  ~(u <= pdone[p]) /\ Pos(u, p) \in 0..(NPipes - 1)
      OBVIOUS
    <3>1. Pos(u, p) \in 0..(NPipes - 1) /\ Seat(u) \in Pipes
      BY <1>2, PosIs, SeatInPipes
    <3>2. Pos(u, Seat(u)) = 0
      BY <1>2, <3>1, PosIs
    <3>3. u \in 1..pdone[p] => Entered(u)
      BY <1>1, <3>1, <3>2, Constants DEF IInv, PipesInOrder, Entered
    <3>4. u >= 1 /\ pdone[p] \in Nat
      BY <1>1, <1>2 DEF TypeOK
    <3> HIDE DEF u
    <3> QED
      BY <1>2, <3>1, <3>3, <3>4
  <2> SUFFICES ASSUME NEW t, t = u PROVE TaskInOrder(t)'
    OBVIOUS
  <2> HIDE DEF u
  <2>3. ~Entered(t)' /\ ~Exited(t)' /\ op'[Slot(t)] = 0
    BY <1>2, <1>3, <2>1 DEF Entered, Exited
  <2>4. \A p \in Pipes : ~(t <= pdone'[p]) /\ 0 <= Pos(t, p)
    BY <1>3, <2>2
  <2> QED
    BY <2>3, <2>4, Constants DEF TaskInOrder
<1>7. TasksInOrder' /\ HandOversInOrder'
  BY <1>3, <1>4, <1>5, <1>6
  DEF TasksInOrder, OrderInv, HandOversInOrder, Entered, Tid
<1>8. StagesInOrder'
  BY <1>3, StagesFrame
<1>9. RootsInOrder'
  <2>1. Rooted' = Rooted
    BY <1>3 DEF Rooted, Entered
  <2> QED
    BY <1>3, <2>1, RootsFrame
<1> QED
  BY <1>7, <1>8, <1>9 DEF OrderInv

-------------------------------------------------------------------------------
(* Steps of pipes *)

\* A pipe that takes its next id through a handler has it at the level of the
\* pipe, and no EXIT holds that id.
LEMMA RunPlace ==
    ASSUME OrderInv, NEW p \in Pipes, Ready(p), ~giving[p],
           op[Slot(Tid(p))] # DONE
    PROVE  LET t == Tid(p) IN
           /\ t \in Nat /\ t \in Published /\ Slot(t) \in Slots /\ ~stop
           /\ t <= mInited /\ t = pdone[p] + 1 /\ nCommitted <= t
           /\ nCommitted < t /\ t < nCommitted + BufferSize
           /\ stages[Slot(t)] = 0 /\ ~Exited(t)
           /\ op[Slot(t)] = Pos(t, p) /\ op[Slot(t)] < MaxOps
           /\ \A q \in Pipes : giving[q] => Tid(q) # t
<1> DEFINE t == Tid(p)
           s == Slot(t)
<1>1. /\ IInv /\ TypeOK /\ op \in [Slots -> 0..DONE] /\ pdone \in [Pipes -> Nat]
      /\ nCommitted \in Nat
  BY DEF OrderInv, IInv, TypeOK
<1>2. /\ t \in Nat /\ t > nCommitted /\ s \in Slots /\ t \in Published /\ ~stop
      /\ t <= mInited /\ t < nCommitted + BufferSize /\ stages[s] = 0
      /\ ~Exited(t) /\ t = pdone[p] + 1
  BY <1>1, ReadyId DEF Tid
<1>3. TaskInOrder(t)
  BY <1>2 DEF OrderInv, TasksInOrder
<1>4. ~(t <= pdone[p]) /\ pdone[p] \in Nat
  BY <1>1, <1>2
<1>5. op[s] <= Pos(t, p) /\ op[s] < MaxOps /\ op[s] \in Nat
  <2>1. op[s] <= Pos(t, p)
    BY <1>3, <1>4 DEF TaskInOrder
  <2> QED
    BY <1>1, <1>2, <1>3, <2>1 DEF TaskInOrder
<1>6. Pos(t, p) \in 0..(NPipes - 1)
  BY <1>2, PosIs
<1>7. op[s] >= Pos(t, p)
  <2>1. CASE Pos(t, p) = 0
    BY <1>5, <2>1
  <2>2. CASE Pos(t, p) # 0
    <3>1. PICK q \in Pipes : NextPipe(q) = p
      BY PrevPipe
    <3>2. Seat(t) # p
      BY <1>2, <2>2, PosIs
    <3>3. Pos(t, p) = Pos(t, q) + 1 /\ Pos(t, q) \in 0..(NPipes - 1)
      BY <1>2, <3>1, <3>2, PosIs
    <3>4. Pos(t, q) < Pos(t, p)
      BY <3>3
    <3>5. t <= pdone[q]
      BY <1>1, <3>4, ReadyOrder
    <3>6. op[s] > Pos(t, q)
      BY <1>3, <3>5 DEF TaskInOrder
    <3> HIDE DEF t, s
    <3> QED
      BY <1>5, <3>3, <3>6
  <2> QED
    BY <2>1, <2>2
<1>8. ASSUME NEW q \in Pipes, giving[q], Tid(q) = t PROVE FALSE
  <2>1. op[s] = NPipes
    BY <1>8, GivingId
  <2> HIDE DEF s
  <2> QED
    BY <1>5, <1>6, <2>1, Constants
<1>9. nCommitted <= t
  BY <1>1, <1>2
<1> HIDE DEF s
<1>10. op[s] = Pos(t, p)
  BY <1>5, <1>6, <1>7
<1> QED
  BY <1>2, <1>5, <1>8, <1>9, <1>10 DEF s

\* A step at id u keeps the tasks of the other ids.
LEMMA OthersKept ==
    ASSUME OrderInv, NEW u \in Nat,
           u \in Published \/ Published = {},
           \A r \in Slots \ {Slot(u)} :
               op'[r] = op[r] /\ stages'[r] = stages[r] /\ pastVer'[r] = pastVer[r],
           \A t \in Published \ {u} : \A p \in Pipes :
               /\ t <= pdone'[p] <=> t <= pdone[p]
               /\ giving'[p] /\ t = pdone'[p] + 1 <=>
                      giving[p] /\ t = pdone[p] + 1
    PROVE  \A t \in Published \ {u} :
               TaskInOrder(t)' /\ op'[Slot(t)] = op[Slot(t)]
<1> SUFFICES ASSUME NEW t \in Published \ {u}
             PROVE  TaskInOrder(t)' /\ op'[Slot(t)] = op[Slot(t)]
  OBVIOUS
<1>1. u \in Nat /\ nCommitted <= u /\ u < nCommitted + BufferSize
  <2>1. IInv /\ u \in Published /\ nCommitted \in Nat
    BY DEF OrderInv, IInv, TypeOK
  <2>2. nCommitted < u /\ u < nCommitted + BufferSize
    BY <2>1, PublishedIds
  <2> QED
    BY <2>1, <2>2
<1>2. IInv
  BY DEF OrderInv
<1>3. Slot(t) \in Slots \ {Slot(u)} /\ t \in Nat
  BY <1>1, <1>2, OtherTask, PublishedIds
<1>4. TaskInOrder(t)
  BY DEF OrderInv, TasksInOrder
<1> QED
  BY <1>3, <1>4, TaskKept

\* A pipe that passes an id on, after its handler or without one.
LEMMA AdvanceTasks ==
    ASSUME OrderInv, IInv', NEW p \in Pipes, Ready(p), Advance(p),
           UNCHANGED <<counters, clients, monitor>>,
           ~giving'[p], \A q \in Pipes \ {p} : giving'[q] = giving[q],
           \A r \in Slots \ {Slot(Tid(p))} :
               op'[r] = op[r] /\ stages'[r] = stages[r] /\ pastVer'[r] = pastVer[r]
    PROVE  /\ Published' = Published /\ Tid(p) \in Nat
           /\ \A t \in Published \ {Tid(p)} :
                TaskInOrder(t)' /\ op'[Slot(t)] = op[Slot(t)]
           /\ \A q \in Pipes : pdone'[q] = IF q = p THEN Tid(p) ELSE pdone[q]
           /\ \A t \in Nat \ {Tid(p)} :
                (Entered(t)' <=> Entered(t)) /\ (Exited(t)' <=> Exited(t))
           /\ \A t : t = Tid(p) => Entered(t)' /\ (Exited(t)' <=> AtExit(p))
           /\ \A q \in Pipes : pdone'[q] \in Nat /\ pdone'[q] >= pdone[q]
<1> USE DEF counters, clients, monitor
<1> DEFINE u == Tid(p)
<1>1. IInv /\ TypeOK /\ TypeOK' /\ pdone \in [Pipes -> Nat]
  BY DEF OrderInv, IInv, TypeOK
<1>2. /\ \A q \in Pipes : pdone'[q] = IF q = p THEN u ELSE pdone[q]
      /\ \A t \in Nat \ {u} :
           (Entered(t)' <=> Entered(t)) /\ (Exited(t)' <=> Exited(t))
      /\ \A t : t = u => Entered(t)' /\ (Exited(t)' <=> AtExit(p))
  BY <1>1, AdvanceOrder
<1>3. u \in Nat /\ u = pdone[p] + 1 /\ pdone[p] \in Nat
  BY <1>1, PipeTypes
<1>4. Published' = Published
  BY IdsKept
<1>5. u \in Published \/ Published = {}
  <2>1. stop => Published = {}
    BY <1>1 DEF IInv, StopInOrder, TypeOK, Published
  <2> QED
    BY <1>1, <2>1, ReadyId
<1>6. \A q \in Pipes : pdone'[q] \in Nat /\ pdone'[q] >= pdone[q]
  BY <1>1, <1>2, <1>3
<1>7. ASSUME NEW t \in Published \ {u}, NEW q \in Pipes
      PROVE  /\ t <= pdone'[q] <=> t <= pdone[q]
             /\ giving'[q] /\ t = pdone'[q] + 1 <=> giving[q] /\ t = pdone[q] + 1
  <2>1. t \in Nat /\ t # u /\ IInv
    BY <1>1, PublishedIds
  <2>2. CASE q # p
    BY <1>2, <2>2
  <2>3. CASE q = p
    BY <1>2, <1>3, <2>1, <2>3
  <2> QED
    BY <2>2, <2>3
<1> HIDE DEF u
<1>8. \A t \in Published \ {u} : TaskInOrder(t)' /\ op'[Slot(t)] = op[Slot(t)]
  BY <1>3, <1>5, <1>7, OthersKept DEF u
<1> QED
  BY <1>2, <1>3, <1>4, <1>6, <1>8 DEF u

LEMMA RootedIds ==
    ASSUME OrderInv
    PROVE  \A t \in Rooted :
             t \in Nat /\ nCommitted <= t /\ t < nCommitted + BufferSize
<1> SUFFICES ASSUME NEW t \in Rooted
             PROVE  t \in Nat /\ nCommitted <= t /\ t < nCommitted + BufferSize
  OBVIOUS
<1>1. /\ IInv /\ nCommitted \in Nat /\ nSubmitted \in Nat /\ nInited \in Nat
      /\ mInited \in Nat /\ pdone \in [Pipes -> Nat]
  BY DEF OrderInv, IInv, TypeOK
<1>2. t \in Nat /\ nCommitted <= t /\ t <= nSubmitted
  BY <1>1 DEF Rooted
<1>3. CASE t = nCommitted
  BY <1>1, <1>3, Constants
<1>4. CASE t # nCommitted
  <2>1. Seat(t) \in Pipes /\ t <= pdone[Seat(t)]
    BY <1>2, <1>4, SeatInPipes DEF Rooted, Entered
  <2>2. mpc # "exited"
    BY <1>1, <1>2, <1>4 DEF IInv, StopInOrder
  <2>3. pdone[Seat(t)] <= nInited /\ nInited <= mInited
    BY <1>1, <2>1, <2>2 DEF IInv, CountersInOrder
  <2>4. t <= mInited /\ nCommitted < t
    <3>1. pdone[Seat(t)] \in Nat
      BY <1>1, <2>1
    <3> QED
      BY <1>1, <1>2, <1>4, <2>1, <2>3, <3>1
  <2> QED
    BY <1>1, <1>2, <2>4, InitedPublished
<1> QED
  BY <1>3, <1>4

\* A finished task, or a bubble, is let through.
LEMMA LetThrough ==
    ASSUME OrderInv, IInv', NEW p \in Pipes, Ready(p), Advance(p), ~giving[p],
           op[Slot(Tid(p))] = DONE,
           UNCHANGED <<counters, ctxs, giving, workers, clients, monitor>>,
           \A r \in Slots \ {Slot(Tid(p))} : stages'[r] = stages[r]
    PROVE  OrderInv'
<1> USE DEF counters, ctxs, workers, monitor
<1> DEFINE u == Tid(p)
<1>1. /\ Published' = Published /\ u \in Nat
      /\ \A t \in Published \ {u} : TaskInOrder(t)'
      /\ \A q \in Pipes : pdone'[q] = IF q = p THEN u ELSE pdone[q]
      /\ \A t \in Nat \ {u} : Entered(t)' <=> Entered(t)
      /\ \A q \in Pipes : pdone'[q] \in Nat /\ pdone'[q] >= pdone[q]
  BY AdvanceTasks
<1>2. /\ IInv /\ nCommitted \in Nat /\ nSubmitted \in Nat
      /\ pdone \in [Pipes -> Nat]
  BY DEF OrderInv, IInv, TypeOK
<1>3. TasksInOrder'
  <2>1. \A t : t = u => TaskInOrder(t)'
    BY DEF TaskInOrder
  <2> QED
    BY <1>1, <2>1 DEF TasksInOrder
<1>4. HandOversInOrder'
  BY <1>1, <1>2, HandOversKept
<1>5. StagesInOrder'
  BY StagesFrame
<1>6. Rooted' \subseteq Rooted
  <2>1. u > nSubmitted \/ Entered(u)
    <3>1. CASE AtEntry(p)
      <4>1. ~Entered(u)
        BY <1>2, <3>1, ReadyOrder
      <4>2. u \notin Published
        BY <1>2, <4>1, Constants DEF IInv, PublishedSlots, PublishedSlot
      <4> QED
        BY <1>2, <4>2, ReadyId
    <3>2. CASE ~AtEntry(p)
      BY <1>2, <3>2, ReadyOrder
    <3> QED
      BY <3>1, <3>2
  <2> QED
    BY <1>1, <1>2, <2>1 DEF Rooted
<1>7. RootsInOrder'
  BY <1>6, RootsFrame
<1> QED
  BY <1>3, <1>4, <1>5, <1>7 DEF OrderInv

LEMMA PassOrder ==
    ASSUME OrderInv, IInv', NEW p \in Pipes, Pass(p)
    PROVE  OrderInv'
<1>1. ~giving[p]
  BY DEF OrderInv, IInv, PipesInOrder, Pass
<1> QED
  BY <1>1, LetThrough DEF Pass

LEMMA ExitDoneOrder ==
    ASSUME OrderInv, IInv', NEW p \in Pipes, ExitDone(p)
    PROVE  OrderInv'
<1>1. \A r \in Slots \ {Slot(Tid(p))} : stages'[r] = stages[r]
  BY DEF ExitDone, OrderInv, IInv, TypeOK
<1> QED
  BY <1>1, LetThrough DEF ExitDone

\* The id before ENTRY's next one has been through ENTRY, with its root.
LEMMA PrevRoot ==
    ASSUME OrderInv, NEW p \in Pipes, Ready(p), AtEntry(p), ~stop
    PROVE  LET v == Tid(p) - 1 IN
           /\ v \in Nat /\ v \in Rooted
           /\ ctxRoot[Slot(v)] = 1..v /\ ctxRootVer[Slot(v)] = v
           /\ v > nCommitted => v <= pdone[p]
<1> DEFINE v == Tid(p) - 1
<1>1. /\ IInv /\ Tid(p) \in Nat /\ Tid(p) > nCommitted /\ nCommitted \in Nat
      /\ v = pdone[p] /\ v \in Nat /\ Tid(p) \in Published
      /\ nSubmitted \in Nat
  BY ReadyId, PipeTypes DEF OrderInv, IInv, TypeOK
<1>2. nCommitted <= v /\ v <= nSubmitted /\ v <= pdone[p]
  <2>1. Tid(p) <= nSubmitted
    BY <1>1, PublishedIds
  <2> QED
    BY <1>1, <2>1
<1>3. v # nCommitted => Entered(v)
  <2> SUFFICES ASSUME v # nCommitted PROVE Entered(v)
    OBVIOUS
  <2>1. v \in 1..pdone[p] /\ Seat(v) \in Pipes
    BY <1>1, <1>2, SeatInPipes
  <2> HIDE DEF v
  <2>2. Pos(v, Seat(v)) = 0 /\ Pos(v, p) \in 0..(NPipes - 1)
    BY <1>1, <2>1, PosIs
  <2>3. Pos(v, Seat(v)) <= Pos(v, p)
    BY <2>2, Constants
  <2> QED
    BY <1>1, <2>1, <2>3 DEF Entered, IInv, PipesInOrder
<1>4. v \in Rooted
  BY <1>1, <1>2, <1>3 DEF Rooted
<1> HIDE DEF v
<1>5. ctxRoot[Slot(v)] = 1..v /\ ctxRootVer[Slot(v)] = v
  BY <1>4 DEF OrderInv, RootsInOrder
<1> QED
  BY <1>1, <1>2, <1>4, <1>5 DEF v

LEMMA EntryTaskOrder ==
    ASSUME OrderInv, IInv', NEW p \in Pipes, EntryTask(p)
    PROVE  OrderInv'
<1> USE DEF counters, workers, monitor
<1> DEFINE u == Tid(p)
           s == Slot(u)
<1>1. /\ IInv /\ Ready(p) /\ AtEntry(p) /\ Advance(p) /\ op[s] # DONE
      /\ nCommitted \in Nat /\ nSubmitted \in Nat /\ pdone \in [Pipes -> Nat]
      /\ UNCHANGED <<counters, stages, sno, giving, workers, clients, monitor>>
  BY DEF OrderInv, IInv, TypeOK, EntryTask
<1>2. ~AtExit(p) /\ ~giving[p] /\ ~giving'[p]
  BY <1>1 DEF OrderInv, IInv, PipesInOrder, AtExit
<1>3. /\ u \in Nat /\ u \in Published /\ s \in Slots /\ ~stop
      /\ u = pdone[p] + 1 /\ u > nCommitted /\ u < nCommitted + BufferSize
      /\ op[s] = Pos(u, p) /\ \A q \in Pipes : giving[q] => Tid(q) # u
  BY <1>1, <1>2, RunPlace
<1>4. Pos(u, p) = 0 /\ op[s] = 0 /\ sno[s] = u /\ ~Entered(u)
  <2>1. Seat(u) = p
    BY <1>1, <1>3, RolesAre
  <2>2. Pos(u, p) = 0
    BY <1>3, <2>1, PosIs
  <2> QED
    BY <1>1, <1>3, <2>2, ReadyOrder DEF IInv, PublishedSlots, PublishedSlot
<1> DEFINE v == u - 1
<1>5. /\ v \in Nat /\ v \in Rooted
      /\ ctxRoot[Slot(v)] = 1..v /\ ctxRootVer[Slot(v)] = v
  BY <1>1, <1>3, PrevRoot
<1>6. /\ op \in [Slots -> 0..DONE] /\ pastVer \in [Slots -> Nat]
      /\ ctxRoot \in [Slots -> SUBSET Nat] /\ ctxRootVer \in [Slots -> Nat]
  BY <1>1 DEF IInv, TypeOK
<1>7. /\ \A r \in Slots \ {s} :
           /\ op'[r] = op[r] /\ stages'[r] = stages[r] /\ pastVer'[r] = pastVer[r]
           /\ ctxRoot'[r] = ctxRoot[r] /\ ctxRootVer'[r] = ctxRootVer[r]
      /\ op'[s] # DONE => op'[s] = 1 /\ pastVer'[s] = v
      /\ ctxRoot'[s] = (1..v) \union {u} /\ ctxRootVer'[s] = u
  <2>1. /\ ctxRoot' = [ctxRoot EXCEPT ![s] = (1..v) \union {u}]
        /\ ctxRootVer' = [ctxRootVer EXCEPT ![s] = u]
        /\ \/ /\ op' = [op EXCEPT ![s] = DONE]
              /\ pastVer' = [pastVer EXCEPT ![s] = 0]
           \/ /\ op' = [op EXCEPT ![s] = 1]
              /\ pastVer' = [pastVer EXCEPT ![s] = v]
    BY <1>4, <1>5 DEF EntryTask
  <2> HIDE DEF s, v, u
  <2> QED
    BY <1>1, <1>3, <1>6, <2>1
<1>8. /\ Published' = Published
      /\ \A t \in Published \ {u} :
           TaskInOrder(t)' /\ op'[Slot(t)] = op[Slot(t)]
      /\ \A q \in Pipes : pdone'[q] = IF q = p THEN u ELSE pdone[q]
      /\ \A t \in Nat \ {u} : Entered(t)' <=> Entered(t)
      /\ \A t : t = u => Entered(t)' /\ (Exited(t)' <=> AtExit(p))
      /\ \A q \in Pipes : pdone'[q] \in Nat /\ pdone'[q] >= pdone[q]
  BY <1>1, <1>2, <1>7, AdvanceTasks
<1>9. TasksInOrder'
  <2>1. \A q \in Pipes : IF u <= pdone'[q] THEN 1 > Pos(u, q) ELSE 1 <= Pos(u, q)
    <3> SUFFICES ASSUME NEW q \in Pipes
                 PROVE  IF u <= pdone'[q] THEN 1 > Pos(u, q) ELSE 1 <= Pos(u, q)
      OBVIOUS
    <3>1. CASE q = p
      BY <1>3, <1>4, <1>8, <3>1
    <3>2. CASE q # p
      <4>1. Seat(u) = p /\ Seat(u) \in Pipes /\ Pos(u, q) \in 0..(NPipes - 1)
        BY <1>3, <1>4, PosIs, SeatInPipes
      <4>2. Pos(u, q) # 0
        BY <1>3, <3>2, <4>1, PosIs
      <4>3. ~(u <= pdone[q])
        <5>1. Pos(u, Seat(u)) <= Pos(u, q)
          BY <1>4, <4>1, <4>2, Constants
        <5>2. u \in 1..pdone[q] => u <= pdone[Seat(u)]
          BY <1>1, <4>1, <5>1 DEF IInv, PipesInOrder
        <5>3. u >= 1 /\ pdone[q] \in Nat
          BY <1>1, <1>3
        <5> HIDE DEF u
        <5> QED
          BY <1>3, <1>4, <5>2, <5>3 DEF Entered
      <4> HIDE DEF u
      <4> QED
        BY <1>8, <3>2, <4>1, <4>2, <4>3
    <3> QED
      BY <3>1, <3>2
  <2>2. \A t : t = u => TaskInOrder(t)'
    <3> SUFFICES ASSUME NEW t, t = u, op'[Slot(t)] # DONE PROVE TaskInOrder(t)'
      BY DEF TaskInOrder
    <3>1. op'[Slot(t)] = 1 /\ pastVer'[Slot(t)] = v /\ v < u /\ u \in Nat
      BY <1>3, <1>5, <1>7
    <3>2. ~Exited(t)'
      BY <1>2, <1>8
    <3>3. \A q \in Pipes : IF t <= pdone'[q] THEN 1 > Pos(t, q) ELSE 1 <= Pos(t, q)
      BY <2>1
    <3> HIDE DEF u, v
    <3> QED
      BY <3>1, <3>2, <3>3, Constants DEF TaskInOrder
  <2> QED
    BY <1>8, <2>2 DEF TasksInOrder
<1>10. HandOversInOrder'
  <2>1. \A q \in Pipes : giving'[q] =>
          /\ giving[q] /\ pdone'[q] = pdone[q]
          /\ op'[Slot(Tid(q))] = op[Slot(Tid(q))]
    <3> SUFFICES ASSUME NEW q \in Pipes, giving'[q]
                 PROVE  /\ giving[q] /\ pdone'[q] = pdone[q]
                        /\ op'[Slot(Tid(q))] = op[Slot(Tid(q))]
      OBVIOUS
    <3>1. giving[q] /\ q # p
      BY <1>1, <1>2
    <3>2. Tid(q) \in Published \ {u}
      BY <1>3, <3>1, GivingId
    <3> QED
      BY <1>8, <3>1, <3>2
  <2> QED
    BY <1>1, <1>8, <2>1, HandOversKept
<1>11. StagesInOrder'
  <2>1. \A w \in Workers : HasTask(w) => wtid[w] \in Published \ {u}
    BY <1>1, <1>4, TaskId
  <2> QED
    BY <1>1, <1>8, <2>1, StagesFrame
<1>12. RootsInOrder'
  <2>1. Rooted' \subseteq Rooted \union {u}
    BY <1>1, <1>8 DEF Rooted
  <2>2. \A t \in Rooted : Slot(t) # s /\ Slot(t) \in Slots
    <3> SUFFICES ASSUME NEW t \in Rooted PROVE Slot(t) # s /\ Slot(t) \in Slots
      OBVIOUS
    <3>1. t \in Nat /\ nCommitted <= t /\ t < nCommitted + BufferSize
      BY RootedIds
    <3>2. t # u /\ nCommitted <= u
      BY <1>1, <1>3, <1>4 DEF Rooted
    <3> QED
      BY <1>1, <1>3, <3>1, <3>2, OtherSlot, SlotInRing DEF IInv
  <2>3. \A t \in Rooted : ctxRoot'[Slot(t)] = 1..t /\ ctxRootVer'[Slot(t)] = t
    BY <1>7, <2>2 DEF OrderInv, RootsInOrder
  <2>4. ctxRoot'[s] = 1..u /\ ctxRootVer'[s] = u
    <3>1. (1..v) \union {u} = 1..u
      <4>1. u >= 1 /\ v = u - 1
        BY <1>1, <1>3
      <4> HIDE DEF u, v
      <4> QED
        BY <1>3, <4>1
    <3> QED
      BY <1>7, <3>1
  <2>5. root = 1..(IF mpc = "root" THEN mNext ELSE nCommitted)
    BY DEF OrderInv, RootsInOrder
  <2>6. \A t \in Rooted' : ctxRoot'[Slot(t)] = 1..t /\ ctxRootVer'[Slot(t)] = t
    BY <2>1, <2>3, <2>4
  <2> QED
    BY <1>1, <2>5, <2>6 DEF RootsInOrder
<1> QED
  BY <1>9, <1>10, <1>11, <1>12 DEF OrderInv

\* A handler after the first moves its own task on by one, to a node that is
\* no newer, or ends it.
LEMMA HandleOrder ==
    ASSUME TypeOK, NEW s \in Slots, NEW u \in Nat, op[s] # DONE, Handle(s),
           pastVer[s] < u
    PROVE  /\ \A r \in Slots \ {s} : op'[r] = op[r] /\ pastVer'[r] = pastVer[r]
           /\ op'[s] # DONE =>
                op'[s] = op[s] + 1 /\ op'[s] < MaxOps /\ pastVer'[s] < u
<1>1. /\ op \in [Slots -> 0..DONE] /\ pastVer \in [Slots -> Nat]
      /\ op[s] \in Nat /\ pastVer[s] \in Nat
  BY DEF TypeOK
<1>2. CASE op' = [op EXCEPT ![s] = DONE] /\ pastVer' = [pastVer EXCEPT ![s] = 0]
  BY <1>1, <1>2
<1>3. CASE /\ op[s] + 1 < MaxOps
           /\ op' = [op EXCEPT ![s] = op[s] + 1]
           /\ \E v \in 0..pastVer[s] : pastVer' = [pastVer EXCEPT ![s] = v]
  <2>1. PICK v \in 0..pastVer[s] : pastVer' = [pastVer EXCEPT ![s] = v]
    BY <1>3
  <2>2. v < u
    BY <1>1, <2>1
  <2> QED
    BY <1>1, <1>3, <2>1, <2>2
<1> QED
  BY <1>2, <1>3 DEF Handle

\* Workers' tasks are not at a pipe.
LEMMA StagesKept ==
    ASSUME OrderInv, NEW u \in Nat, ~Exited(u),
           UNCHANGED <<wtid, wlast, wpc, wstage>>,
           \A t \in Published \ {u} : op'[Slot(t)] = op[Slot(t)]
    PROVE  StagesInOrder'
<1>1. IInv
  BY DEF OrderInv
<1>2. \A w \in Workers : HasTask(w) => wtid[w] \in Published \ {u}
  BY <1>1, TaskId
<1> QED
  BY <1>2, StagesFrame

LEMMA InnerTaskOrder ==
    ASSUME OrderInv, IInv', NEW p \in Pipes, InnerTask(p)
    PROVE  OrderInv'
<1> USE DEF counters, workers, monitor
<1> DEFINE u == Tid(p)
           s == Slot(u)
<1>1. /\ IInv /\ TypeOK /\ Ready(p) /\ ~AtEntry(p) /\ ~AtExit(p) /\ Advance(p)
      /\ op[s] # DONE /\ Handle(s)
      /\ pdone \in [Pipes -> Nat] /\ op \in [Slots -> 0..DONE]
      /\ UNCHANGED <<counters, stages, sno, ctxRoot, ctxRootVer, giving,
                     workers, clients, monitor>>
  BY DEF OrderInv, IInv, TypeOK, InnerTask
<1>2. ~giving[p] /\ ~giving'[p]
  BY <1>1 DEF OrderInv, IInv, PipesInOrder
<1>3. /\ u \in Nat /\ u \in Published /\ s \in Slots /\ ~stop /\ ~Exited(u)
      /\ u = pdone[p] + 1 /\ op[s] = Pos(u, p)
      /\ \A q \in Pipes : giving[q] => Tid(q) # u
  BY <1>1, <1>2, RunPlace
<1>4. TaskInOrder(u) /\ Entered(u) /\ pastVer[s] < u
  <2>1. TaskInOrder(u) /\ Entered(u)
    BY <1>1, <1>3, ReadyOrder DEF OrderInv, TasksInOrder
  <2> QED
    BY <1>1, <2>1 DEF TaskInOrder
<1>5. /\ \A r \in Slots \ {s} :
           op'[r] = op[r] /\ stages'[r] = stages[r] /\ pastVer'[r] = pastVer[r]
      /\ op'[s] # DONE =>
           op'[s] = op[s] + 1 /\ op'[s] < MaxOps /\ pastVer'[s] < u
  BY <1>1, <1>3, <1>4, HandleOrder
<1>6. /\ Published' = Published
      /\ \A t \in Published \ {u} :
           TaskInOrder(t)' /\ op'[Slot(t)] = op[Slot(t)]
      /\ \A q \in Pipes : pdone'[q] = IF q = p THEN u ELSE pdone[q]
      /\ \A t \in Nat \ {u} : Entered(t)' <=> Entered(t)
      /\ \A t : t = u => Entered(t)' /\ (Exited(t)' <=> AtExit(p))
      /\ \A q \in Pipes : pdone'[q] \in Nat /\ pdone'[q] >= pdone[q]
  BY <1>1, <1>2, <1>5, AdvanceTasks
<1>7. TasksInOrder'
  <2> DEFINE k == Pos(u, p)
  <2>1. ASSUME NEW q \in Pipes
        PROVE  IF u <= pdone'[q] THEN k + 1 > Pos(u, q) ELSE k + 1 <= Pos(u, q)
    <3>1. k \in Nat /\ Pos(u, q) \in Nat
      <4>1. k \in 0..(NPipes - 1) /\ Pos(u, q) \in 0..(NPipes - 1)
        BY <1>3, PosIs
      <4> QED
        BY <4>1
    <3>2. CASE q = p
      BY <1>3, <1>6, <3>1, <3>2
    <3>3. CASE q # p /\ u <= pdone[q]
      <4>1. k > Pos(u, q)
        BY <1>1, <1>3, <1>4, <3>3 DEF TaskInOrder
      <4> HIDE DEF k
      <4>2. k + 1 > Pos(u, q)
        BY <3>1, <4>1
      <4> QED
        BY <1>6, <3>3, <4>2
    <3>4. CASE q # p /\ ~(u <= pdone[q])
      <4>1. u \in 1..pdone'[p] /\ ~(u <= pdone'[q])
        BY <1>1, <1>3, <1>6, <3>4
      <4>2. ~(Pos(u, q) <= k)
        BY <4>1 DEF IInv, PipesInOrder
      <4> HIDE DEF k
      <4>3. k + 1 <= Pos(u, q)
        BY <3>1, <4>2
      <4> QED
        BY <4>1, <4>3
    <3> QED
      BY <3>2, <3>3, <3>4
  <2>2. \A t : t = u => TaskInOrder(t)'
    <3> SUFFICES ASSUME NEW t, t = u, op'[Slot(t)] # DONE PROVE TaskInOrder(t)'
      BY DEF TaskInOrder
    <3>1. /\ op'[Slot(t)] = k + 1 /\ op'[Slot(t)] < MaxOps
          /\ pastVer'[Slot(t)] < t
      BY <1>3, <1>5
    <3>2. ~Exited(t)'
      BY <1>1, <1>6
    <3>3. \A q \in Pipes :
            IF t <= pdone'[q] THEN k + 1 > Pos(t, q) ELSE k + 1 <= Pos(t, q)
      BY <2>1
    <3> HIDE DEF u, k
    <3> QED
      BY <3>1, <3>2, <3>3 DEF TaskInOrder
  <2> QED
    BY <1>6, <2>2 DEF TasksInOrder
<1>8. HandOversInOrder'
  <2>1. \A q \in Pipes : giving'[q] =>
          /\ giving[q] /\ pdone'[q] = pdone[q]
          /\ op'[Slot(Tid(q))] = op[Slot(Tid(q))]
    <3> SUFFICES ASSUME NEW q \in Pipes, giving'[q]
                 PROVE  /\ giving[q] /\ pdone'[q] = pdone[q]
                        /\ op'[Slot(Tid(q))] = op[Slot(Tid(q))]
      OBVIOUS
    <3>1. giving[q] /\ q # p
      BY <1>1, <1>2
    <3>2. Tid(q) \in Published \ {u}
      BY <1>3, <3>1, GivingId
    <3> QED
      BY <1>6, <3>1, <3>2
  <2> QED
    BY <1>1, <1>6, <2>1, HandOversKept
<1>9. StagesInOrder'
  BY <1>1, <1>3, <1>6, StagesKept
<1>10. RootsInOrder'
  <2>1. Rooted' \subseteq Rooted
    <3>1. nCommitted \in Nat /\ nSubmitted \in Nat
      BY <1>1 DEF TypeOK
    <3> QED
      BY <1>1, <1>4, <1>6, <3>1 DEF Rooted
  <2> QED
    BY <1>1, <2>1, RootsFrame
<1> QED
  BY <1>7, <1>8, <1>9, <1>10 DEF OrderInv

\* EXIT is the last pipe of its id: all others have passed it.
LEMMA ExitLast ==
    ASSUME IInv, NEW p \in Pipes, Ready(p), AtExit(p)
    PROVE  /\ Pos(Tid(p), p) = NPipes - 1
           /\ \A q \in Pipes \ {p} : Tid(p) <= pdone[q]
<1> DEFINE u == Tid(p)
<1>1. u \in Nat
  BY PipeTypes DEF IInv
<1>2. Pos(u, p) = NPipes - 1 /\ Seat(u) = NextPipe(p)
  BY <1>1, RolesAre
<1>3. ASSUME NEW q \in Pipes \ {p} PROVE u <= pdone[q]
  <2>1. Seat(u) # NextPipe(q)
    BY <1>2, NextInjective
  <2>2. Pos(u, q) # NPipes - 1 /\ Pos(u, q) \in 0..(NPipes - 1)
    BY <1>1, <2>1, PosIs
  <2>3. Pos(u, q) < Pos(u, p)
    BY <1>2, <2>2, Constants
  <2> QED
    BY <2>3, ReadyOrder
<1> QED
  BY <1>2, <1>3

LEMMA ExitRunOrder ==
    ASSUME OrderInv, IInv', NEW p \in Pipes, ExitRun(p)
    PROVE  OrderInv'
<1> USE DEF counters, workers, monitor
<1> DEFINE u == Tid(p)
           s == Slot(u)
<1>1. /\ IInv /\ TypeOK /\ Ready(p) /\ AtExit(p) /\ ~giving[p]
      /\ op[s] # DONE /\ Handle(s)
      /\ pdone \in [Pipes -> Nat] /\ op \in [Slots -> 0..DONE]
      /\ giving' = [giving EXCEPT ![p] = TRUE] /\ giving \in [Pipes -> BOOLEAN]
      /\ UNCHANGED <<counters, stages, sno, ctxRoot, ctxRootVer, pdone,
                     workers, clients, monitor>>
  BY DEF OrderInv, IInv, TypeOK, ExitRun
<1>2. /\ u \in Nat /\ u \in Published /\ s \in Slots /\ ~stop /\ ~Exited(u)
      /\ u = pdone[p] + 1 /\ op[s] = Pos(u, p)
      /\ \A q \in Pipes : giving[q] => Tid(q) # u
  BY <1>1, RunPlace
<1>3. /\ op[s] = NPipes - 1 /\ ~AtEntry(p)
      /\ \A q \in Pipes \ {p} : u <= pdone[q]
  BY <1>1, <1>2, ExitLast DEF AtExit
<1>4. TaskInOrder(u) /\ Entered(u) /\ pastVer[s] < u
  <2>1. TaskInOrder(u) /\ Entered(u)
    BY <1>1, <1>2, <1>3, ReadyOrder DEF OrderInv, TasksInOrder
  <2> QED
    BY <1>1, <2>1 DEF TaskInOrder
<1>5. /\ \A r \in Slots \ {s} :
           op'[r] = op[r] /\ stages'[r] = stages[r] /\ pastVer'[r] = pastVer[r]
      /\ op'[s] # DONE =>
           op'[s] = NPipes /\ op'[s] < MaxOps /\ pastVer'[s] < u
  <2>1. /\ \A r \in Slots \ {s} : op'[r] = op[r] /\ pastVer'[r] = pastVer[r]
        /\ op'[s] # DONE =>
             op'[s] = op[s] + 1 /\ op'[s] < MaxOps /\ pastVer'[s] < u
    BY <1>1, <1>2, <1>4, HandleOrder
  <2> HIDE DEF s, u
  <2> QED
    BY <1>1, <1>3, <2>1, Constants
<1>6. Published' = Published
  BY <1>1, IdsKept DEF clients
<1>7. \A t \in Published \ {u} : TaskInOrder(t)' /\ op'[Slot(t)] = op[Slot(t)]
  <2>1. ASSUME NEW t \in Published \ {u}, NEW q \in Pipes
        PROVE  giving'[q] /\ t = pdone'[q] + 1 <=> giving[q] /\ t = pdone[q] + 1
    BY <1>1, <1>2
  <2> HIDE DEF u
  <2> QED
    BY <1>1, <1>2, <1>5, <2>1, OthersKept DEF u
<1>8. TasksInOrder'
  <2>1. ASSUME NEW t, t = u, op'[Slot(t)] # DONE PROVE TaskInOrder(t)'
    <3>1. /\ op'[Slot(t)] = NPipes /\ op'[Slot(t)] < MaxOps
          /\ pastVer'[Slot(t)] < t
      BY <1>2, <1>5, <2>1
    <3>2. ~Exited(t)'
      BY <1>1, <1>2, <2>1 DEF Exited
    <3>3. \A q \in Pipes : IF t <= pdone'[q] THEN NPipes > Pos(t, q)
                           ELSE giving'[q] /\ t = Tid(q)'
      <4> SUFFICES ASSUME NEW q \in Pipes
                   PROVE  IF t <= pdone'[q] THEN NPipes > Pos(t, q)
                          ELSE giving'[q] /\ t = Tid(q)'
        OBVIOUS
      <4>1. Pos(t, q) \in 0..(NPipes - 1)
        BY <1>2, <2>1, PosIs
      <4>2. NPipes > Pos(t, q)
        BY <4>1, Constants
      <4>3. q = p => giving'[q] /\ t = Tid(q)'
        BY <1>1, <2>1 DEF Tid
      <4> QED
        BY <1>1, <1>3, <2>1, <4>2, <4>3
    <3> HIDE DEF u
    <3> QED
      BY <3>1, <3>2, <3>3 DEF TaskInOrder
  <2>2. \A t : t = u => TaskInOrder(t)'
    BY <2>1 DEF TaskInOrder
  <2> QED
    BY <1>6, <1>7, <2>2 DEF TasksInOrder
<1>9. HandOversInOrder'
  <2> SUFFICES ASSUME NEW q \in Pipes, giving'[q]
               PROVE  /\ \A t : t = Tid(q)' => Entered(t)'
                      /\ op'[Slot(Tid(q)')] \in {NPipes, DONE}
    BY DEF HandOversInOrder, Entered
  <2>1. Tid(q)' = Tid(q) /\ \A t : Entered(t)' <=> Entered(t)
    BY <1>1 DEF Tid, Entered
  <2>2. CASE q = p
    BY <1>4, <1>5, <2>1, <2>2
  <2>3. CASE q # p
    <3>1. giving[q]
      BY <1>1, <2>3
    <3>2. Tid(q) \in Published \ {u} /\ op[Slot(Tid(q))] \in {NPipes, DONE}
      BY <1>2, <3>1, GivingId
    <3>3. Entered(Tid(q))
      BY <3>1 DEF OrderInv, HandOversInOrder
    <3> QED
      BY <1>7, <2>1, <3>2, <3>3
  <2> QED
    BY <2>2, <2>3
<1>10. StagesInOrder'
  BY <1>1, <1>2, <1>7, StagesKept
<1>11. RootsInOrder'
  <2>1. Rooted' = Rooted
    BY <1>1 DEF Rooted, Entered
  <2> QED
    BY <1>1, <2>1, RootsFrame
<1> QED
  BY <1>8, <1>9, <1>10, <1>11 DEF OrderInv

\* The worker gets the task with its handlers in the pipes run and its stage
\* still 0.
LEMMA ExitGiveOrder ==
    ASSUME OrderInv, IInv', NEW p \in Pipes, ExitGive(p)
    PROVE  OrderInv'
<1> USE DEF counters, ctxs, monitor
<1> DEFINE u == Tid(p)
           s == Slot(u)
<1>1. /\ IInv /\ TypeOK /\ Ready(p) /\ giving[p] /\ Advance(p)
      /\ pdone \in [Pipes -> Nat] /\ wtid \in [Workers -> Nat \union {NoTask}]
      /\ giving' = [giving EXCEPT ![p] = FALSE] /\ giving \in [Pipes -> BOOLEAN]
      /\ UNCHANGED <<counters, stages, ctxs, wlast, wjob, wstage, wpc, clients,
                     monitor>>
  BY DEF OrderInv, IInv, TypeOK, ExitGive
<1>2. /\ u \in Published /\ ~stop /\ AtExit(p) /\ op[s] \in {NPipes, DONE}
  BY <1>1, GivingId
<1>3. u \in Nat /\ s \in Slots /\ stages[s] = 0 /\ u > nCommitted
  BY <1>1, <1>2, ReadyId
<1>4. /\ TaskInOrder(u)
      /\ \A q \in Pipes \ {p} : u <= pdone[q]
  BY <1>1, <1>2, ExitLast DEF OrderInv, TasksInOrder
<1>5. PICK v \in avail : wtid' = [wtid EXCEPT ![v] = u]
  BY DEF ExitGive
<1>6. v \in Workers /\ wpc[v] = "spin" /\ wstage[v] = 1 /\ ~HasTask(v)
  <2>1. v \in Workers /\ wpc[v] \in {"spin", "exited"} /\ ~HasTask(v)
    BY <1>1 DEF IInv, TypeOK, WorkersInOrder
  <2>2. wpc[v] # "exited"
    <3>1. phase[p] # "exited"
      BY <1>1 DEF Ready, Running
    <3> QED
      BY <1>1, <2>1, <3>1 DEF IInv, WorkersInOrder, StopInOrder
  <2> QED
    BY <1>1, <2>1, <2>2 DEF IInv, WorkersInOrder
<1>7. /\ Published' = Published
      /\ \A t \in Published \ {u} : TaskInOrder(t)'
      /\ \A q \in Pipes : pdone'[q] = IF q = p THEN u ELSE pdone[q]
      /\ \A t \in Nat \ {u} : Entered(t)' <=> Entered(t)
      /\ \A t : t = u => Entered(t)' /\ (Exited(t)' <=> AtExit(p))
      /\ \A q \in Pipes : pdone'[q] \in Nat /\ pdone'[q] >= pdone[q]
  <2>1. /\ ~giving'[p] /\ \A q \in Pipes \ {p} : giving'[q] = giving[q]
    BY <1>1
  <2> HIDE DEF u, s
  <2> QED
    BY <1>1, <2>1, AdvanceTasks DEF u
<1>8. TasksInOrder'
  <2>1. ASSUME NEW t, t = u, op'[Slot(t)] # DONE PROVE TaskInOrder(t)'
    <3>1. /\ op'[Slot(t)] = NPipes /\ op'[Slot(t)] < MaxOps
          /\ stages'[Slot(t)] = 0 /\ pastVer'[Slot(t)] < t
      <4>1. op[s] < MaxOps /\ pastVer[s] < u
        <5>1. Entered(u)
          BY <1>1 DEF OrderInv, HandOversInOrder
        <5> QED
          BY <1>1, <1>4, <2>1, <5>1 DEF TaskInOrder
      <4> QED
        BY <1>1, <1>2, <1>3, <2>1, <4>1
    <3>2. \A q \in Pipes : t <= pdone'[q] /\ NPipes > Pos(t, q)
      <4> SUFFICES ASSUME NEW q \in Pipes
                   PROVE  t <= pdone'[q] /\ NPipes > Pos(t, q)
        OBVIOUS
      <4>1. Pos(t, q) \in 0..(NPipes - 1)
        BY <1>3, <2>1, PosIs
      <4>2. NPipes > Pos(t, q)
        BY <4>1, Constants
      <4> QED
        BY <1>3, <1>4, <1>7, <2>1, <4>2
    <3>3. NPipes >= NPipes + 0
      BY Constants
    <3> HIDE DEF u, s
    <3> QED
      BY <3>1, <3>2, <3>3 DEF TaskInOrder
  <2>2. \A t : t = u => TaskInOrder(t)'
    BY <2>1 DEF TaskInOrder
  <2> QED
    BY <1>7, <2>2 DEF TasksInOrder
<1>9. HandOversInOrder'
  <2>1. \A q \in Pipes : giving'[q] => giving[q] /\ pdone'[q] = pdone[q]
    BY <1>1, <1>7
  <2> QED
    BY <1>1, <1>7, <2>1, HandOversKept
<1>10. StagesInOrder'
  <2> SUFFICES ASSUME NEW w \in Workers, HasTask(w)', op[Slot(wtid'[w])] # DONE
               PROVE  op[Slot(wtid'[w])] = NPipes + Progress(w)'
    BY <1>1 DEF StagesInOrder
  <2>1. Progress(w)' = Progress(w)
    BY <1>1 DEF Progress
  <2>2. CASE w = v
    <3>1. wtid'[w] = u /\ Progress(w) = 0
      BY <1>1, <1>5, <1>6, <2>2 DEF Progress
    <3> HIDE DEF u
    <3> QED
      BY <1>2, <2>1, <3>1, Constants
  <2>3. CASE w # v
    <3>1. wtid'[w] = wtid[w] /\ HasTask(w)
      BY <1>1, <1>5, <2>3 DEF HasTask
    <3> QED
      BY <2>1, <3>1 DEF OrderInv, StagesInOrder
  <2> QED
    BY <2>2, <2>3
<1>11. RootsInOrder'
  <2>1. Rooted' \subseteq Rooted
    <3>1. Entered(u) /\ nCommitted \in Nat /\ nSubmitted \in Nat
      BY <1>1 DEF OrderInv, HandOversInOrder, TypeOK
    <3> QED
      BY <1>1, <1>7, <3>1 DEF Rooted
  <2> QED
    BY <1>1, <2>1, RootsFrame
<1> QED
  BY <1>8, <1>9, <1>10, <1>11 DEF OrderInv

LEMMA BatchOrder ==
    ASSUME OrderInv, IInv', NEW p \in Pipes,
           NextBatch(p) \/ Drain(p) \/ PipeExit(p)
    PROVE  OrderInv'
<1>1. UNCHANGED <<counters, stages, ctxs, pdone, giving, workers, clients,
                  monitor>>
  BY DEF NextBatch, Drain, PipeExit
<1>2. Published' = Published /\ Rooted' = Rooted
  BY <1>1, IdsKept DEF counters, clients, Rooted, Entered
<1>3. RootsInOrder'
  BY <1>1, <1>2, RootsFrame DEF counters, ctxs, monitor
<1> QED
  BY <1>1, <1>2, <1>3, OrderFrame DEF ctxs, workers

-------------------------------------------------------------------------------
(* Steps of workers *)

\* A step at the slot of a task that left the pipes is none of another task.
LEMMA WorkerOrderFrame ==
    ASSUME OrderInv, NEW u \in Published, Exited(u),
           UNCHANGED <<counters, ctxRoot, ctxRootVer, pdone, giving, clients,
                       monitor>>,
           \A r \in Slots \ {Slot(u)} :
               op'[r] = op[r] /\ stages'[r] = stages[r] /\ pastVer'[r] = pastVer[r],
           \A t : t = u => TaskInOrder(t)'
    PROVE  /\ TasksInOrder' /\ HandOversInOrder' /\ RootsInOrder'
           /\ \A t \in Published \ {u} : op'[Slot(t)] = op[Slot(t)]
<1> USE DEF counters, clients, monitor
<1>1. IInv /\ u \in Nat /\ pdone \in [Pipes -> Nat]
  BY PublishedIds DEF OrderInv, IInv, TypeOK
<1>2. Published' = Published /\ Rooted' = Rooted
  BY IdsKept DEF Rooted, Entered
<1>3. \A t \in Published \ {u} : TaskInOrder(t)' /\ op'[Slot(t)] = op[Slot(t)]
  BY <1>1, OthersKept
<1>4. TasksInOrder'
  BY <1>2, <1>3 DEF TasksInOrder
<1>5. HandOversInOrder'
  <2>1. ASSUME NEW q \in Pipes, giving[q]
        PROVE  op'[Slot(Tid(q))] = op[Slot(Tid(q))]
    <3>1. Tid(q) \in Published
      BY <2>1, GivingId
    <3>2. Tid(q) # u
      BY <1>1 DEF Exited, Tid
    <3> QED
      BY <1>3, <3>1, <3>2
  <2>2. \A q \in Pipes : pdone'[q] \in Nat /\ pdone'[q] >= pdone[q]
    BY <1>1
  <2> QED
    BY <1>1, <2>1, <2>2, HandOversKept
<1>6. RootsInOrder'
  BY <1>2, RootsFrame
<1> QED
  BY <1>3, <1>4, <1>5, <1>6

LEMMA WorkerIdleOrder ==
    ASSUME OrderInv, IInv', NEW w \in Workers,
           Take(w) \/ Push(w) \/ WorkerExit(w)
    PROVE  OrderInv'
<1> USE DEF ctxs, pipes
<1>1. IInv /\ TypeOK
  BY DEF OrderInv, IInv
<1>2. UNCHANGED <<counters, stages, ctxs, pipes, wtid, clients, monitor>>
  BY DEF Take, Push, WorkerExit
<1>3. Published' = Published /\ Rooted' = Rooted
  BY <1>2, IdsKept DEF counters, clients, Rooted, Entered
<1>4. RootsInOrder' /\ TasksInOrder' /\ HandOversInOrder'
  <2>1. HandOversInOrder'
    BY <1>2 DEF OrderInv, HandOversInOrder, Entered, Tid
  <2> QED
    BY <1>2, <1>3, <2>1, RootsFrame, TasksFrame DEF counters, monitor
<1>5. StagesInOrder'
  <2> SUFFICES ASSUME NEW x \in Workers, HasTask(x)', op[Slot(wtid[x])] # DONE
               PROVE  op[Slot(wtid[x])] = NPipes + Progress(x)'
    BY <1>2 DEF StagesInOrder
  <2>1. HasTask(x) /\ Progress(x)' = Progress(x)
    <3>1. CASE x # w
      BY <1>1, <3>1 DEF Take, Push, WorkerExit, HasTask, Progress, TypeOK
    <3>2. CASE x = w
      <4>1. CASE Take(w)
        BY <1>1, <3>2, <4>1 DEF Take, HasTask, Progress, TypeOK
      <4>2. CASE Push(w)
        <5>1. wtid[w] \in {NoTask, wjob[w]} /\ wlast'[w] = wjob[w]
          BY <1>1, <4>2 DEF Push, IInv, WorkersInOrder, TypeOK
        <5> QED
          BY <1>2, <3>2, <5>1 DEF HasTask
      <4>3. CASE WorkerExit(w)
        BY <3>2, <4>3 DEF WorkerExit, HasTask
      <4> QED
        BY <4>1, <4>2, <4>3
    <3> QED
      BY <3>1, <3>2
  <2> QED
    BY <2>1 DEF OrderInv, StagesInOrder
<1> QED
  BY <1>4, <1>5 DEF OrderInv

LEMMA ExecOrder ==
    ASSUME OrderInv, IInv', NEW w \in Workers, Exec(w)
    PROVE  OrderInv'
<1> DEFINE u == wjob[w]
           s == Slot(u)
<1>1. /\ IInv /\ TypeOK /\ wpc[w] = "exec" /\ op[s] # DONE /\ Handle(s)
      /\ wpc' = [wpc EXCEPT ![w] = "store"]
      /\ UNCHANGED <<counters, stages, sno, ctxRoot, ctxRootVer, pipes, wtid,
                     wlast, wjob, wstage, clients, monitor>>
      /\ op \in [Slots -> 0..DONE] /\ stages \in [Slots -> Nat]
      /\ wstage \in [Workers -> Nat] /\ pdone \in [Pipes -> Nat]
      /\ wpc \in [Workers -> {"spin", "exec", "store", "push", "exited"}]
  BY DEF OrderInv, IInv, TypeOK, Exec
<1>2. /\ HasTask(w) /\ wtid[w] = u /\ u \in Published /\ u \in Nat
      /\ Exited(u) /\ Entered(u) /\ s \in Slots
  BY <1>1, BusyId DEF Busy
<1>3. TaskInOrder(u) /\ pastVer[s] < u
  <2>1. TaskInOrder(u)
    BY <1>2 DEF OrderInv, TasksInOrder
  <2> QED
    BY <1>1, <1>2, <2>1 DEF TaskInOrder
<1>4. /\ \A r \in Slots \ {s} :
           op'[r] = op[r] /\ stages'[r] = stages[r] /\ pastVer'[r] = pastVer[r]
      /\ op'[s] # DONE =>
           op'[s] = op[s] + 1 /\ op'[s] < MaxOps /\ pastVer'[s] < u
  BY <1>1, <1>2, <1>3, HandleOrder
<1>5. ASSUME NEW t, t = u, op'[Slot(t)] # DONE PROVE TaskInOrder(t)'
  <2>1. /\ op'[Slot(t)] = op[s] + 1 /\ op'[Slot(t)] < MaxOps
        /\ pastVer'[Slot(t)] < t /\ stages'[Slot(t)] = stages[s]
        /\ op[s] \in Nat /\ stages[s] \in Nat /\ NPipes \in Nat
    BY <1>1, <1>2, <1>4, <1>5, Constants
  <2>2. op[s] >= NPipes + stages[s]
    BY <1>1, <1>2, <1>3 DEF TaskInOrder
  <2>3. \A q \in Pipes : t <= pdone'[q] /\ op[s] + 1 > Pos(t, q)
    <3> SUFFICES ASSUME NEW q \in Pipes
                 PROVE  t <= pdone'[q] /\ op[s] + 1 > Pos(t, q)
      OBVIOUS
    <3>1. t <= pdone'[q]
      BY <1>1, <1>2, <1>5 DEF Exited, pipes
    <3>2. Pos(t, q) \in 0..(NPipes - 1)
      BY <1>2, <1>5, PosIs
    <3> HIDE DEF s
    <3>3. op[s] + 1 > Pos(t, q)
      BY <2>1, <2>2, <3>2
    <3> QED
      BY <3>1, <3>3
  <2> HIDE DEF u, s
  <2>4. op'[Slot(t)] >= NPipes + stages'[Slot(t)]
    BY <2>1, <2>2
  <2> QED
    BY <2>1, <2>3, <2>4 DEF TaskInOrder
<1>6. /\ TasksInOrder' /\ HandOversInOrder' /\ RootsInOrder'
      /\ \A t \in Published \ {u} : op'[Slot(t)] = op[Slot(t)]
  <2>1. \A t : t = u => TaskInOrder(t)'
    BY <1>5 DEF TaskInOrder
  <2> HIDE DEF u
  <2> QED
    BY <1>1, <1>2, <1>4, <2>1, WorkerOrderFrame DEF pipes
<1>7. StagesInOrder'
  <2> SUFFICES ASSUME NEW x \in Workers, HasTask(x)', op'[Slot(wtid[x])] # DONE
               PROVE  op'[Slot(wtid[x])] = NPipes + Progress(x)'
    BY <1>1 DEF StagesInOrder
  <2>1. HasTask(x)
    BY <1>1, <1>2 DEF HasTask
  <2>2. CASE x = w
    <3>1. op[s] = NPipes + (wstage[w] - 1)
      BY <1>1, <1>2 DEF OrderInv, StagesInOrder, Progress
    <3>2. op'[s] = op[s] + 1 /\ Progress(w)' = wstage[w] /\ wstage[w] \in Nat
      BY <1>1, <1>2, <1>4, <2>2 DEF Progress
    <3> HIDE DEF s
    <3>3. op'[s] = NPipes + Progress(w)'
      BY <3>1, <3>2, Constants
    <3> QED
      BY <1>2, <2>2, <3>3 DEF s
  <2>3. CASE x # w
    <3>1. wtid[x] \in Published \ {u}
      BY <1>1, <1>2, <2>1, <2>3, TaskId DEF IInv, WorkersInOrder
    <3>2. op'[Slot(wtid[x])] = op[Slot(wtid[x])]
      BY <1>6, <3>1
    <3>3. Progress(x)' = Progress(x)
      BY <1>1, <2>3 DEF Progress
    <3> QED
      BY <2>1, <3>2, <3>3 DEF OrderInv, StagesInOrder
  <2> QED
    BY <2>2, <2>3
<1> QED
  BY <1>6, <1>7 DEF OrderInv

LEMMA StoreStageOrder ==
    ASSUME OrderInv, IInv', NEW w \in Workers, StoreStage(w)
    PROVE  OrderInv'
<1> DEFINE u == wjob[w]
           s == Slot(u)
<1>1. /\ IInv /\ TypeOK /\ wpc[w] = "store"
      /\ wpc' = [wpc EXCEPT ![w] = "exec"]
      /\ wstage' = [wstage EXCEPT ![w] = wstage[w] + 1]
      /\ stages' = [stages EXCEPT ![Slot(sno[s])] = wstage[w]]
      /\ UNCHANGED <<counters, ctxs, pipes, wtid, wlast, wjob, clients, monitor>>
      /\ op \in [Slots -> 0..DONE] /\ stages \in [Slots -> Nat]
      /\ wstage \in [Workers -> Nat] /\ pdone \in [Pipes -> Nat]
      /\ wpc \in [Workers -> {"spin", "exec", "store", "push", "exited"}]
  BY DEF OrderInv, IInv, TypeOK, StoreStage
<1>2. /\ HasTask(w) /\ wtid[w] = u /\ u \in Published /\ u \in Nat
      /\ Exited(u) /\ s \in Slots /\ sno[s] = u
  BY <1>1, BusyId DEF Busy
<1>3. op[s] # DONE => op[s] = NPipes + wstage[w]
  BY <1>1, <1>2 DEF OrderInv, StagesInOrder, Progress
<1>4. /\ \A r \in Slots \ {s} : stages'[r] = stages[r]
      /\ stages'[s] = wstage[w]
  BY <1>1, <1>2
<1>5. \A t : t = u => TaskInOrder(t)'
  <2>1. TaskInOrder(u)
    BY <1>2 DEF OrderInv, TasksInOrder
  <2>2. op[s] # DONE => op[s] >= NPipes + stages'[s]
    <3>1. op[s] \in Nat
      BY <1>1, <1>2
    <3> HIDE DEF s
    <3> QED
      BY <1>3, <1>4, <3>1
  <2>3. \A t : (Entered(t)' <=> Entered(t)) /\ (Exited(t)' <=> Exited(t))
    BY <1>1 DEF Entered, Exited, pipes
  <2> HIDE DEF u
  <2> QED
    BY <1>1, <2>1, <2>2, <2>3 DEF TaskInOrder, Tid, ctxs, pipes
<1>6. TasksInOrder' /\ HandOversInOrder' /\ RootsInOrder'
  <2> HIDE DEF u
  <2> QED
    BY <1>1, <1>2, <1>4, <1>5, WorkerOrderFrame DEF ctxs, pipes
<1>7. StagesInOrder'
  <2>1. Progress(w)' = Progress(w)
    <3>1. wpc'[w] = "exec" /\ wstage'[w] = wstage[w] + 1 /\ wstage[w] \in Nat
      BY <1>1
    <3> QED
      BY <1>1, <3>1 DEF Progress
  <2>2. \A x \in Workers \ {w} : wpc'[x] = wpc[x] /\ Progress(x)' = Progress(x)
    BY <1>1 DEF Progress
  <2>3. \A x \in Workers : HasTask(x)' => HasTask(x)
    BY <1>1, <1>2, <2>2 DEF HasTask
  <2> QED
    BY <1>1, <2>1, <2>2, <2>3 DEF OrderInv, StagesInOrder, ctxs
<1> QED
  BY <1>6, <1>7 DEF OrderInv

LEMMA FinishOrder ==
    ASSUME OrderInv, IInv', NEW w \in Workers, Finish(w)
    PROVE  OrderInv'
<1> DEFINE u == wjob[w]
           s == Slot(u)
<1>1. /\ IInv /\ TypeOK /\ wpc[w] = "exec" /\ op[s] = DONE
      /\ wpc' = [wpc EXCEPT ![w] = "push"]
      /\ stages' = [stages EXCEPT ![Slot(sno[s])] = AllOnes]
      /\ UNCHANGED <<counters, ctxs, pipes, wtid, wlast, wjob, wstage, clients,
                     monitor>>
      /\ stages \in [Slots -> Nat]
      /\ wpc \in [Workers -> {"spin", "exec", "store", "push", "exited"}]
  BY DEF OrderInv, IInv, TypeOK, Finish
<1>2. u \in Published /\ Exited(u) /\ s \in Slots /\ sno[s] = u
  BY <1>1, BusyId DEF Busy
<1>3. \A r \in Slots \ {s} : stages'[r] = stages[r]
  BY <1>1, <1>2
<1>4. \A t : t = u => TaskInOrder(t)'
  BY <1>1 DEF TaskInOrder, ctxs
<1>5. TasksInOrder' /\ HandOversInOrder' /\ RootsInOrder'
  <2> HIDE DEF u
  <2> QED
    BY <1>1, <1>2, <1>3, <1>4, WorkerOrderFrame DEF ctxs, pipes
<1>6. StagesInOrder'
  <2>1. \A x \in Workers : HasTask(x)' => x # w /\ HasTask(x)
    BY <1>1 DEF HasTask
  <2>2. \A x \in Workers \ {w} : Progress(x)' = Progress(x)
    BY <1>1 DEF Progress
  <2> QED
    BY <1>1, <2>1, <2>2 DEF OrderInv, StagesInOrder, ctxs
<1> QED
  BY <1>5, <1>6 DEF OrderInv

-------------------------------------------------------------------------------
(* Steps of the monitor and of the owner *)

LEMMA MonitorOrder ==
    ASSUME OrderInv, IInv', Monitor
    PROVE  OrderInv'
<1> USE DEF counters, ctxs, pipes, workers, clients, monitor
<1>1. /\ IInv /\ nCommitted \in Nat /\ nSubmitted \in Nat /\ mNext \in Nat
      /\ mInited \in Nat /\ pdone \in [Pipes -> Nat]
      /\ nCommitted <= mNext /\ mNext <= nSubmitted
      /\ \A p \in Pipes : mNext <= pdone[p]
  BY DEF OrderInv, IInv, TypeOK, CountersInOrder
<1>2. /\ UNCHANGED <<nSubmitted, ctxs, stages, pipes, workers, clients>>
      /\ nCommitted' = nCommitted \/ StoreCommitted
  BY DEF Monitor, ReadCounters, ScanInited, AdvanceInited, ScanCommitted,
         NothingCommitted, StoreRoot, StoreCommitted, AppendBubbles
<1>3. \A t : Entered(t)' <=> Entered(t)
  BY <1>2 DEF Entered
<1>4. nCommitted' \in Nat /\ nCommitted <= nCommitted'
  BY <1>1, <1>2 DEF StoreCommitted
<1>5. Published' \subseteq Published
  <2>1. \A t : Held(t)' <=> Held(t)
    BY <1>2 DEF Held
  <2> QED
    BY <1>1, <1>2, <1>4, <2>1 DEF Published
<1>6. mNext \in Rooted
  <2>1. Entered(mNext)
    BY <1>1, SeatInPipes DEF Entered
  <2> QED
    BY <1>1, <2>1 DEF Rooted
<1>7. Rooted' \subseteq Rooted
  <2>1. CASE nCommitted' = nCommitted
    BY <1>2, <1>3, <2>1 DEF Rooted
  <2>2. CASE StoreCommitted
    <3>1. nCommitted' = mNext
      BY <2>2 DEF StoreCommitted
    <3> QED
      BY <1>1, <1>2, <1>3, <1>6, <3>1 DEF Rooted
  <2> QED
    BY <1>2, <2>1, <2>2
<1>8. root' = 1..(IF mpc' = "root" THEN mNext' ELSE nCommitted')
  <2>1. root = 1..(IF mpc = "root" THEN mNext ELSE nCommitted)
    BY DEF OrderInv, RootsInOrder
  <2>2. CASE StoreRoot
    <3>1. ctxRoot[Slot(mNext)] = 1..mNext
      BY <1>6 DEF OrderInv, RootsInOrder
    <3> QED
      BY <2>2, <3>1 DEF StoreRoot
  <2>3. CASE StoreCommitted
    BY <2>1, <2>3 DEF StoreCommitted
  <2>4. CASE ReadCounters \/ ScanInited \/ AdvanceInited \/ ScanCommitted
             \/ NothingCommitted \/ AppendBubbles
    BY <2>1, <2>4
    DEF ReadCounters, ScanInited, AdvanceInited, ScanCommitted,
        NothingCommitted, AppendBubbles
  <2> QED
    BY <2>2, <2>3, <2>4 DEF Monitor
<1>9. RootsInOrder'
  BY <1>2, <1>7, <1>8 DEF OrderInv, RootsInOrder
<1> QED
  BY <1>2, <1>5, <1>9, OrderFrame

LEMMA OwnerOrder ==
    ASSUME OrderInv, IInv', Stop \/ StopWorkers \/ UNCHANGED vars
    PROVE  OrderInv'
<1> USE DEF counters, ctxs, pipes, workers, clients, monitor
<1>1. /\ UNCHANGED <<nSubmitted, nCommitted, root, stages, ctxs, pipes, wlast,
                     wjob, wstage, wpc, clients, monitor>>
      /\ wtid' = wtid \/ wtid' = [w \in Workers |-> NoTask]
  BY DEF Stop, StopWorkers, vars
<1>2. Published' = Published /\ Rooted' = Rooted
  BY <1>1, IdsKept DEF Rooted, Entered
<1>3. RootsInOrder' /\ TasksInOrder' /\ HandOversInOrder'
  <2>1. HandOversInOrder'
    BY <1>1 DEF OrderInv, HandOversInOrder, Entered, Tid
  <2> QED
    BY <1>1, <1>2, <2>1, RootsFrame, TasksFrame
<1>4. StagesInOrder'
  <2>1. CASE wtid' = wtid
    BY <1>1, <2>1, StagesFrame
  <2>2. CASE wtid' = [w \in Workers |-> NoTask]
    BY <1>1, <2>2 DEF StagesInOrder, HasTask
  <2> QED
    BY <1>1, <2>1, <2>2
<1> QED
  BY <1>3, <1>4 DEF OrderInv

-------------------------------------------------------------------------------
(* The invariant *)

LEMMA OrderInit == Init => OrderInv
<1> SUFFICES ASSUME Init PROVE OrderInv
  OBVIOUS
<1>1. IInv
  BY InitInv
<1>2. Published = {} /\ Rooted \subseteq {0} /\ Slot(0) \in Slots
  BY SlotInRing DEF Init, Published, Rooted
<1>3. 1..0 = {}
  OBVIOUS
<1>4. RootsInOrder
  BY <1>2, <1>3 DEF Init, RootsInOrder
<1>5. TasksInOrder /\ HandOversInOrder /\ StagesInOrder
  BY <1>2
  DEF Init, TasksInOrder, HandOversInOrder, StagesInOrder, HasTask
<1> QED
  BY <1>1, <1>4, <1>5 DEF OrderInv

LEMMA OrderStep == OrderInv /\ [Next]_vars => OrderInv'
<1> SUFFICES ASSUME OrderInv, [Next]_vars PROVE OrderInv'
  OBVIOUS
<1>1. IInv'
  BY StepInv DEF OrderInv
<1>2. ASSUME NEW c \in Clients, Claim(c) \/ Submitting(c) PROVE OrderInv'
  BY <1>1, <1>2, ClaimOrder, WriteOrder, PublishOrder DEF Submitting
<1>3. ASSUME NEW p \in Pipes, Pipe(p) PROVE OrderInv'
  BY <1>1, <1>3, EntryTaskOrder, InnerTaskOrder, PassOrder, ExitRunOrder,
     ExitGiveOrder, ExitDoneOrder, BatchOrder
  DEF Pipe
<1>4. ASSUME NEW w \in Workers, Worker(w) PROVE OrderInv'
  BY <1>1, <1>4, WorkerIdleOrder, ExecOrder, StoreStageOrder, FinishOrder
  DEF Worker
<1>5. ASSUME Monitor PROVE OrderInv'
  BY <1>1, <1>5, MonitorOrder
<1> QED
  BY <1>1, <1>2, <1>3, <1>4, <1>5, OwnerOrder DEF Next

\* Every unfinished task has run one handler in each pipe it passed and one
\* for each stage of its worker, and every id past ENTRY has a root with the
\* updates up to it.
THEOREM OrderInvariance == Spec => []OrderInv
<1>1. Init => OrderInv
  BY OrderInit
<1>2. OrderInv /\ [Next]_vars => OrderInv'
  BY OrderStep
<1> QED
  BY <1>1, <1>2, PTL DEF Spec

-------------------------------------------------------------------------------
(* The order of handlers *)

\* Counting on from the id, and round the pipes, one comes to the pipe.
LEMMA PosSum ==
    ASSUME NEW t \in Nat, NEW p \in Pipes
    PROVE  \E m \in Int : (t - 1) + Pos(t, p) = NPipes * m + p
<1>1. NPipes \in Nat /\ NPipes >= 2 /\ p \in Nat
  BY Constants DEF Pipes
<1> DEFINE q == (t - 1) \div NPipes
           r == (t - 1) % NPipes
<1>2. q \in Int /\ r \in 0..(NPipes - 1) /\ t - 1 = NPipes * q + r
  BY <1>1
<1>3. Pos(t, p) = IF r <= p THEN p - r ELSE p + NPipes - r
  BY DEF Pos, Seat
<1> HIDE DEF q, r
<1>4. NPipes * (q + 1) = NPipes * q + NPipes
  BY <1>1, <1>2
<1>5. r <= p => (t - 1) + Pos(t, p) = NPipes * q + p
  BY <1>1, <1>2, <1>3
<1>6. ~(r <= p) => (t - 1) + Pos(t, p) = NPipes * (q + 1) + p
  BY <1>1, <1>2, <1>3, <1>4
<1>7. q + 1 \in Int
  BY <1>2
<1> QED
  BY <1>2, <1>5, <1>6, <1>7

\* An id j earlier comes to the pipe as its j-th pipe more.
LEMMA PosEarlier ==
    ASSUME NEW t \in Nat, NEW p \in Pipes, NEW v \in Nat, v <= t,
           Pos(t, p) + (t - v) <= NPipes - 1
    PROVE  Pos(v, p) = Pos(t, p) + (t - v)
<1> DEFINE k == Pos(t, p)
           l == Pos(v, p)
           d == k + (t - v) - l
<1>1. /\ NPipes \in Nat /\ NPipes >= 2 /\ p \in Nat
      /\ k \in 0..(NPipes - 1) /\ l \in 0..(NPipes - 1)
  <2>1. k \in 0..(NPipes - 1) /\ l \in 0..(NPipes - 1)
    BY PosIs
  <2> QED
    BY <2>1, Constants DEF Pipes
<1>2. PICK m \in Int : (t - 1) + k = NPipes * m + p
  BY PosSum
<1>3. PICK n \in Int : (v - 1) + l = NPipes * n + p
  BY PosSum
<1> HIDE DEF k, l
<1>4. d \in Int /\ d < NPipes /\ d > -NPipes
  BY <1>1 DEF k
<1>5. NPipes * (m - n) = d
  BY <1>1, <1>2, <1>3
<1> DEFINE e == m - n
<1>6. e \in Int /\ NPipes * e = d
  BY <1>2, <1>3, <1>5
<1> HIDE DEF d, e
<1>7. e >= 1 => NPipes * e >= NPipes
  BY <1>1, <1>6
<1>8. e <= -1 => NPipes * e <= -NPipes
  BY <1>1, <1>6
<1>9. e = 0
  BY <1>1, <1>4, <1>6, <1>7, <1>8
<1>10. d = 0
  BY <1>1, <1>6, <1>9
<1> QED
  BY <1>1, <1>10 DEF d, k, l

\* The slot before that of an id is the slot of the id before.
LEMMA PrevSlot ==
    ASSUME NEW t \in Nat, t > 0
    PROVE  (Slot(t) - 1) % BufferSize = Slot(t - 1)
<1>1. BufferSize \in Nat /\ BufferSize >= 1
  BY Constants
<1> DEFINE q == (t - 1) \div BufferSize
           r == (t - 1) % BufferSize
<1>2. q \in Int /\ r \in 0..(BufferSize - 1) /\ t - 1 = BufferSize * q + r
  BY <1>1
<1> HIDE DEF q, r
<1>3. CASE r + 1 < BufferSize
  <2>1. /\ t \in Int /\ t = BufferSize * q + (r + 1)
        /\ r + 1 \in 0..(BufferSize - 1)
    BY <1>1, <1>2, <1>3
  <2>2. t % BufferSize = r + 1
    BY <1>1, <1>2, <2>1, RemainderIs
  <2>3. r \in Int /\ r = BufferSize * 0 + r
    BY <1>1, <1>2
  <2>4. r % BufferSize = r
    BY <1>1, <1>2, <2>3, RemainderIs
  <2>5. (t % BufferSize) - 1 = r
    BY <1>2, <2>2
  <2> QED
    BY <2>4, <2>5 DEF Slot, r
<1>4. CASE ~(r + 1 < BufferSize)
  <2>1. r = BufferSize - 1
    BY <1>1, <1>2, <1>4
  <2>2. /\ t \in Int /\ q + 1 \in Int /\ 0 \in 0..(BufferSize - 1)
        /\ t = BufferSize * (q + 1) + 0
    <3>1. BufferSize * (q + 1) = BufferSize * q + BufferSize
      BY <1>1, <1>2
    <3> QED
      BY <1>1, <1>2, <2>1, <3>1
  <2>3. t % BufferSize = 0
    BY <1>1, <2>2, RemainderIs
  <2>4. -1 \in Int /\ -1 = BufferSize * (-1) + r
    BY <1>1, <2>1
  <2>5. (-1) % BufferSize = r
    BY <1>1, <1>2, <2>4, RemainderIs
  <2>6. (t % BufferSize) - 1 = -1
    BY <2>3
  <2> QED
    BY <2>5, <2>6 DEF Slot, r
<1> QED
  BY <1>3, <1>4

\* A version older than an inited task is committed or a published task.
LEMMA EarlierTask ==
    ASSUME OrderInv, NEW u \in Nat, u <= mInited, NEW v \in Nat,
           nCommitted < v, v < u
    PROVE  /\ v \in Published /\ sno[Slot(v)] = v /\ Slot(v) \in Slots
           /\ op[Slot(v)] \in Nat /\ stages[Slot(v)] \in Nat
           /\ TaskInOrder(v)
<1>1. IInv /\ v <= mInited
  BY DEF OrderInv, IInv, TypeOK
<1>2. v \in Published /\ PublishedSlot(v) /\ Slot(v) \in Slots
  BY <1>1, InitedPublished, PublishedIds
<1> QED
  BY <1>1, <1>2
  DEF IInv, TypeOK, PublishedSlot, OrderInv, TasksInOrder

\* The condition HandlersInOrder puts on a step.
HandlersReady ==
    \A s \in Slots : op'[s] > op[s] =>
        PastReady(s, IF op[s] = 0 THEN ctxRootVer[(s - 1) % BufferSize]
                                  ELSE pastVer[s])

\* It is enough to look at the slot of the handler that runs.
LEMMA ReadyHere ==
    ASSUME NEW s \in Slots, op \in [Slots -> 0..DONE],
           \A r \in Slots \ {s} : op'[r] = op[r],
           PastReady(s, IF op[s] = 0 THEN ctxRootVer[(s - 1) % BufferSize]
                                     ELSE pastVer[s])
    PROVE  HandlersReady
<1>1. \A r \in Slots : ~(op[r] > op[r])
  OBVIOUS
<1> QED
  BY <1>1 DEF HandlersReady

LEMMA EntryReady ==
    ASSUME OrderInv, NEW p \in Pipes, EntryTask(p)
    PROVE  HandlersReady
<1> DEFINE u == Tid(p)
           s == Slot(u)
           v == u - 1
<1>1. /\ IInv /\ Ready(p) /\ AtEntry(p) /\ op[s] # DONE
      /\ op \in [Slots -> 0..DONE] /\ pdone \in [Pipes -> Nat]
      /\ nCommitted \in Nat
  BY DEF OrderInv, IInv, TypeOK, EntryTask
<1>2. ~giving[p]
  BY <1>1 DEF IInv, PipesInOrder, AtExit
<1>3. /\ u \in Nat /\ s \in Slots /\ ~stop /\ u <= mInited
      /\ u = pdone[p] + 1 /\ u > nCommitted /\ op[s] = Pos(u, p)
  BY <1>1, <1>2, RunPlace
<1>4. v \in Nat /\ ctxRootVer[Slot(v)] = v /\ (v > nCommitted => v <= pdone[p])
  BY <1>1, <1>3, PrevRoot
<1>5. Pos(u, p) = 0
  BY <1>1, <1>3, RolesAre
<1>6. (s - 1) % BufferSize = Slot(v)
  BY <1>1, <1>3, PrevSlot
<1>7. PastReady(s, v)
  <2>1. CASE v <= nCommitted
    BY <2>1 DEF PastReady
  <2>2. CASE v > nCommitted
    <3>1. Pos(v, p) = 1
      <4>1. v <= u /\ u - v = 1
        BY <1>3
      <4> HIDE DEF u, v
      <4>2. Pos(u, p) + (u - v) <= NPipes - 1
        BY <1>5, <4>1, Constants
      <4>3. Pos(v, p) = Pos(u, p) + (u - v)
        BY <1>3, <1>4, <4>1, <4>2, PosEarlier
      <4> QED
        BY <1>5, <4>1, <4>3
    <3>2. v < u
      BY <1>3
    <3> HIDE DEF u, v
    <3>3. /\ sno[Slot(v)] = v /\ op[Slot(v)] \in Nat /\ TaskInOrder(v)
      BY <1>3, <1>4, <2>2, <3>2, EarlierTask
    <3>4. op[Slot(v)] # DONE => op[Slot(v)] > 1
      BY <1>4, <2>2, <3>1, <3>3 DEF TaskInOrder
    <3>5. op[Slot(v)] >= 0 + 2
      BY <3>3, <3>4, Constants
    <3> QED
      BY <1>3, <1>5, <3>3, <3>5 DEF PastReady
  <2> QED
    BY <1>1, <1>4, <2>1, <2>2
<1>8. \A r \in Slots \ {s} : op'[r] = op[r]
  BY <1>1 DEF EntryTask
<1> HIDE DEF s, v
<1> QED
  BY <1>1, <1>3, <1>4, <1>5, <1>6, <1>7, <1>8, ReadyHere

LEMMA InnerReady ==
    ASSUME OrderInv, NEW p \in Pipes, InnerTask(p)
    PROVE  HandlersReady
<1> DEFINE u == Tid(p)
           s == Slot(u)
           v == pastVer[s]
           k == Pos(u, p)
<1>1. /\ IInv /\ TypeOK /\ Ready(p) /\ ~AtEntry(p) /\ ~AtExit(p) /\ op[s] # DONE
      /\ Handle(s) /\ op \in [Slots -> 0..DONE] /\ pdone \in [Pipes -> Nat]
      /\ nCommitted \in Nat /\ pastVer \in [Slots -> Nat]
  BY DEF OrderInv, IInv, TypeOK, InnerTask
<1>2. ~giving[p]
  BY <1>1 DEF IInv, PipesInOrder
<1>3. /\ u \in Nat /\ u \in Published /\ s \in Slots /\ ~stop /\ u <= mInited
      /\ u = pdone[p] + 1 /\ op[s] = k /\ op[s] < MaxOps
  BY <1>1, <1>2, RunPlace
<1>4. /\ k \in 0..(NPipes - 1) /\ k # 0 /\ k # NPipes - 1
  BY <1>1, <1>3, PosIs, RolesAre, Constants
<1>5. v \in Nat /\ v < u
  <2>1. TaskInOrder(u) /\ Entered(u)
    BY <1>1, <1>3, ReadyOrder DEF OrderInv, TasksInOrder
  <2> QED
    BY <1>1, <1>3, <2>1 DEF TaskInOrder
<1>6. PastReady(s, v)
  <2>1. CASE v <= nCommitted
    BY <2>1 DEF PastReady
  <2>2. CASE v > nCommitted
    <3> HIDE DEF u, s, v, k
    <3>1. /\ v \in Published /\ sno[Slot(v)] = v /\ op[Slot(v)] \in Nat
          /\ stages[Slot(v)] \in Nat /\ TaskInOrder(v)
      BY <1>3, <1>5, <2>2, EarlierTask
    <3>2. v <= pdone[p] /\ v >= 1
      BY <1>1, <1>3, <1>5, <2>2
    <3>3. op[Slot(v)] # DONE => op[Slot(v)] >= k + 2
      <4> SUFFICES ASSUME op[Slot(v)] # DONE PROVE op[Slot(v)] >= k + 2
        OBVIOUS
      <4>1. CASE k + (u - v) <= NPipes - 1
        <5>1. Pos(v, p) = k + (u - v)
          BY <1>3, <1>5, <4>1, PosEarlier DEF k
        <5>2. op[Slot(v)] > Pos(v, p)
          BY <3>1, <3>2 DEF TaskInOrder
        <5> QED
          BY <1>3, <1>4, <1>5, <3>1, <5>1, <5>2
      <4>2. CASE k + (u - v) > NPipes - 1
        <5> DEFINE x == u - (NPipes - 1 - k)
        <5>1. /\ x \in Nat /\ x >= v /\ x <= u /\ x <= pdone[p] /\ x >= 1
              /\ k + (u - x) = NPipes - 1
          BY <1>1, <1>3, <1>4, <1>5, <3>2, <4>2, Constants
        <5> HIDE DEF x
        <5>2. k + (u - x) <= NPipes - 1
          BY <5>1, Constants
        <5>3. Pos(x, p) = NPipes - 1
          BY <1>3, <5>1, <5>2, PosEarlier DEF k
        <5>4. \A q \in Pipes : x <= pdone[q]
          <6> SUFFICES ASSUME NEW q \in Pipes PROVE x <= pdone[q]
            OBVIOUS
          <6>1. Pos(x, q) \in 0..(NPipes - 1)
            BY <5>1, PosIs
          <6>2. Pos(x, q) <= Pos(x, p)
            BY <5>3, <6>1, Constants
          <6>3. x \in 1..pdone[p]
            BY <1>1, <5>1
          <6> QED
            BY <1>1, <6>2, <6>3 DEF IInv, PipesInOrder
        <5>5. Exited(v)
          <6> SUFFICES ASSUME NEW q \in Pipes PROVE v <= pdone[q]
            BY <1>4 DEF Exited
          <6>1. x <= pdone[q] /\ pdone[q] \in Nat
            BY <1>1, <5>4
          <6> QED
            BY <1>5, <5>1, <6>1
        <5>6. op[Slot(v)] >= NPipes + stages[Slot(v)]
          BY <3>1, <5>5 DEF TaskInOrder
        <5> QED
          BY <1>4, <3>1, <5>6, Constants
      <4> QED
        BY <1>3, <1>4, <1>5, <4>1, <4>2, Constants
    <3>4. DONE >= k + 2
      BY <1>3, <1>4, Constants
    <3>5. op[Slot(v)] >= op[s] + 2
      BY <1>3, <3>3, <3>4
    <3> QED
      BY <3>1, <3>5 DEF PastReady
  <2> QED
    BY <1>1, <1>5, <2>1, <2>2
<1>7. \A r \in Slots \ {s} : op'[r] = op[r]
  BY <1>1, <1>3, HandleOp
<1>8. op[s] # 0
  BY <1>3, <1>4
<1> HIDE DEF s, v
<1> QED
  BY <1>1, <1>3, <1>6, <1>7, <1>8, ReadyHere DEF v

\* EXIT and the workers wait for the stage of a task that left the pipes.
LEMMA StageIsReached ==
    ASSUME OrderInv, NEW u \in Nat, u <= mInited, Exited(u),
           NEW s \in Slots, NEW stage \in Nat,
           StageReached(s, stage), pastVer[s] \in Nat, pastVer[s] < u,
           op[s] \in Nat, op[s] < MaxOps, op[s] + 2 <= NPipes + stage
    PROVE  PastReady(s, pastVer[s])
<1> DEFINE v == pastVer[s]
<1>1. /\ IInv /\ nCommitted \in Nat /\ pdone \in [Pipes -> Nat]
  BY DEF OrderInv, IInv, TypeOK
<1>2. CASE v <= nCommitted
  BY <1>2 DEF PastReady
<1>3. CASE v > nCommitted
  <2>1. stages[Slot(v)] >= stage
    BY <1>1, <1>3 DEF StageReached
  <2> HIDE DEF v
  <2>2. v \in Nat /\ v < u
    BY DEF v
  <2>3. /\ sno[Slot(v)] = v /\ op[Slot(v)] \in Nat
        /\ stages[Slot(v)] \in Nat /\ TaskInOrder(v)
    BY <1>3, <2>2, EarlierTask
  <2>4. Exited(v)
    <3>1. ASSUME NEW q \in Pipes PROVE v <= pdone[q]
      <4>1. u <= pdone[q] /\ pdone[q] \in Nat
        BY <1>1 DEF Exited
      <4> QED
        BY <2>2, <4>1
    <3> QED
      BY <3>1 DEF Exited
  <2>5. op[Slot(v)] # DONE => op[Slot(v)] >= NPipes + stages[Slot(v)]
    BY <2>3, <2>4 DEF TaskInOrder
  <2>6. op[Slot(v)] >= op[s] + 2
    BY <2>1, <2>3, <2>5, Constants
  <2> QED
    BY <2>3, <2>6 DEF PastReady, v
<1> QED
  BY <1>1, <1>2, <1>3

LEMMA ExitReady ==
    ASSUME OrderInv, NEW p \in Pipes, ExitRun(p)
    PROVE  HandlersReady
<1> DEFINE u == Tid(p)
           s == Slot(u)
           v == pastVer[s]
<1>1. /\ IInv /\ TypeOK /\ Ready(p) /\ AtExit(p) /\ ~giving[p] /\ op[s] # DONE
      /\ Handle(s) /\ StageReached(s, 1)
      /\ op \in [Slots -> 0..DONE] /\ pdone \in [Pipes -> Nat]
      /\ pastVer \in [Slots -> Nat] /\ nCommitted \in Nat
  BY DEF OrderInv, IInv, TypeOK, ExitRun
<1>2. /\ u \in Nat /\ u \in Published /\ s \in Slots /\ u <= mInited
      /\ u = pdone[p] + 1 /\ op[s] = Pos(u, p) /\ op[s] < MaxOps
  BY <1>1, RunPlace
<1>3. /\ Pos(u, p) = NPipes - 1
      /\ \A q \in Pipes \ {p} : u <= pdone[q]
  BY <1>1, ExitLast
<1>4. v \in Nat /\ v < u
  <2>1. TaskInOrder(u) /\ Entered(u)
    BY <1>1, <1>2, ReadyOrder DEF OrderInv, TasksInOrder, AtExit
  <2> QED
    BY <1>1, <1>2, <2>1 DEF TaskInOrder
<1>5. PastReady(s, v)
  <2>1. CASE v <= nCommitted
    BY <2>1 DEF PastReady
  <2>2. CASE v > nCommitted
    <3> DEFINE x == u - 1
    <3>1. x \in Nat /\ x = pdone[p] /\ x <= mInited /\ v <= x
      <4>1. mInited \in Nat
        BY <1>1 DEF TypeOK
      <4> HIDE DEF u, v
      <4> QED
        BY <1>1, <1>2, <1>4, <4>1
    <3> HIDE DEF x
    <3>2. stages[Slot(v)] >= 1
      BY <1>1, <1>4, <2>2 DEF StageReached
    <3>3. \A q \in Pipes : v <= pdone[q]
      <4> SUFFICES ASSUME NEW q \in Pipes PROVE v <= pdone[q]
        OBVIOUS
      <4>1. pdone[q] \in Nat
        BY <1>1
      <4>2. CASE q = p
        BY <3>1, <4>2
      <4>3. CASE q # p
        <5>1. u <= pdone[q]
          BY <1>3, <4>3
        <5> HIDE DEF u, v
        <5> QED
          BY <1>2, <1>4, <4>1, <5>1
      <4> QED
        BY <4>2, <4>3
    <3> HIDE DEF u, v, s
    <3>4. /\ sno[Slot(v)] = v /\ op[Slot(v)] \in Nat
          /\ stages[Slot(v)] \in Nat /\ TaskInOrder(v)
      BY <1>2, <1>4, <2>2, EarlierTask
    <3>5. op[Slot(v)] # DONE => op[Slot(v)] >= NPipes + stages[Slot(v)]
      BY <1>3, <3>3, <3>4 DEF TaskInOrder, Exited
    <3>6. op[Slot(v)] >= op[s] + 2
      BY <1>2, <1>3, <3>2, <3>4, <3>5, Constants
    <3> QED
      BY <3>4, <3>6 DEF PastReady
  <2> QED
    BY <1>1, <1>4, <2>1, <2>2
<1>6. \A r \in Slots \ {s} : op'[r] = op[r]
  BY <1>1, <1>2, HandleOp
<1>7. op[s] # 0
  BY <1>2, <1>3, Constants
<1> HIDE DEF s, v
<1> QED
  BY <1>1, <1>2, <1>5, <1>6, <1>7, ReadyHere DEF v

LEMMA ExecReady ==
    ASSUME OrderInv, NEW w \in Workers, Exec(w)
    PROVE  HandlersReady
<1> DEFINE u == wjob[w]
           s == Slot(u)
           stage == wstage[w] + 1
<1>1. /\ IInv /\ TypeOK /\ wpc[w] = "exec" /\ op[s] # DONE
      /\ Handle(s) /\ StageReached(s, stage)
      /\ op \in [Slots -> 0..DONE] /\ pastVer \in [Slots -> Nat]
      /\ wstage[w] \in Nat
  BY DEF OrderInv, IInv, TypeOK, Exec
<1>2. /\ HasTask(w) /\ wtid[w] = u /\ u \in Published /\ u \in Nat /\ ~stop
      /\ Exited(u) /\ Entered(u) /\ s \in Slots /\ op[s] > 0
  BY <1>1, BusyId DEF Busy
<1>3. op[s] = NPipes + (wstage[w] - 1)
  BY <1>1, <1>2 DEF OrderInv, StagesInOrder, Progress
<1>4. pastVer[s] \in Nat /\ pastVer[s] < u /\ op[s] < MaxOps /\ op[s] \in Nat
  <2>1. TaskInOrder(u)
    BY <1>2 DEF OrderInv, TasksInOrder
  <2> QED
    BY <1>1, <1>2, <2>1 DEF TaskInOrder
<1>5. u <= mInited
  <2>1. Seat(u) \in Pipes /\ u <= pdone[Seat(u)]
    BY <1>2, SeatInPipes DEF Entered
  <2>2. mpc # "exited"
    BY <1>1, <1>2 DEF IInv, StopInOrder
  <2>3. /\ pdone[Seat(u)] <= nInited /\ nInited <= mInited
        /\ pdone[Seat(u)] \in Nat /\ nInited \in Nat /\ mInited \in Nat
    BY <1>1, <2>1, <2>2 DEF IInv, CountersInOrder, TypeOK
  <2> HIDE DEF u
  <2> QED
    BY <1>2, <2>1, <2>3
<1>6. PastReady(s, pastVer[s])
  <2> HIDE DEF u, s
  <2>1. stage \in Nat /\ op[s] + 2 <= NPipes + stage
    BY <1>1, <1>3, Constants
  <2> HIDE DEF stage
  <2> QED
    BY <1>1, <1>2, <1>4, <1>5, <2>1, StageIsReached
<1>7. \A r \in Slots \ {s} : op'[r] = op[r]
  BY <1>1, <1>2, HandleOp
<1>8. op[s] # 0
  BY <1>1, <1>2
<1> HIDE DEF s
<1> QED
  BY <1>1, <1>2, <1>6, <1>7, <1>8, ReadyHere

\* No step but these four runs a handler.
LEMMA StepReady ==
    OrderInv /\ [Next]_vars => [HandlersReady]_vars
<1> SUFFICES ASSUME OrderInv, [Next]_vars
             PROVE  [HandlersReady]_vars
  OBVIOUS
<1> USE DEF ctxs
<1>1. op \in [Slots -> 0..DONE] /\ \A s \in Slots : ~(op[s] > op[s]) /\ ~(0 > op[s])
  BY DEF OrderInv, IInv, TypeOK
<1>2. ASSUME op' = op PROVE HandlersReady
  BY <1>1, <1>2 DEF HandlersReady
<1>3. ASSUME NEW c \in Clients, Claim(c) \/ Submitting(c) PROVE HandlersReady
  <2>1. CASE Write(c)
    <3>1. \A s \in Slots : op'[s] = op[s] \/ op'[s] = 0
      BY <1>1, <2>1 DEF Write
    <3> QED
      BY <1>1, <3>1 DEF HandlersReady
  <2> QED
    BY <1>2, <1>3, <2>1 DEF Submitting, Claim, Publish
<1>4. ASSUME NEW p \in Pipes, Pipe(p) PROVE HandlersReady
  BY <1>2, <1>4, EntryReady, InnerReady, ExitReady
  DEF Pipe, Pass, ExitGive, ExitDone, NextBatch, Drain, PipeExit
<1>5. ASSUME NEW w \in Workers, Worker(w) PROVE HandlersReady
  BY <1>2, <1>5, ExecReady
  DEF Worker, Take, StoreStage, Finish, Push, WorkerExit
<1>6. ASSUME Monitor PROVE HandlersReady
  BY <1>2, <1>6
  DEF Monitor, ReadCounters, ScanInited, AdvanceInited, ScanCommitted,
      NothingCommitted, StoreRoot, StoreCommitted, AppendBubbles
<1>7. ASSUME Stop \/ StopWorkers PROVE HandlersReady
  BY <1>2, <1>7 DEF Stop, StopWorkers
<1> QED
  BY <1>3, <1>4, <1>5, <1>6, <1>7 DEF Next

\* No handler, in a pipe, at EXIT or in a worker, copies a node before the
\* task that made the node is two handlers further.
THEOREM HandlerOrder == Spec => HandlersInOrder
<1>1. OrderInv /\ [Next]_vars => [HandlersReady]_vars
  BY StepReady
<1> QED
  BY <1>1, OrderInvariance, PTL DEF Spec, HandlersInOrder, HandlersReady

-------------------------------------------------------------------------------
(* Refinement *)

\* The bound on the calls of update() keeps the ids below the size with which
\* OrderedCommit is used, so that no id is a checkpoint's.
Bounded == nSubmitted <= MaxUpdates

LEMMA BoundedStep == Bounded /\ TypeOK /\ [Next]_vars => Bounded'
<1> SUFFICES ASSUME Bounded, TypeOK, [Next]_vars PROVE Bounded'
  OBVIOUS
<1>1. CASE \E c \in Clients : Claim(c)
  BY <1>1, BoundsAssumption DEF Claim, Bounded, TypeOK
<1>2. CASE UNCHANGED nSubmitted
  BY <1>2 DEF Bounded
<1>3. ASSUME NEW c \in Clients, Submitting(c) PROVE UNCHANGED nSubmitted
  BY <1>3 DEF Submitting, Write, Publish, counters
<1>4. ASSUME NEW p \in Pipes, Pipe(p) PROVE UNCHANGED nSubmitted
  BY <1>4
  DEF Pipe, EntryTask, InnerTask, Pass, ExitRun, ExitGive, ExitDone,
      NextBatch, Drain, PipeExit, counters
<1>5. ASSUME NEW w \in Workers, Worker(w) PROVE UNCHANGED nSubmitted
  BY <1>5
  DEF Worker, Take, Exec, StoreStage, Finish, Push, WorkerExit, counters
<1>6. ASSUME Monitor PROVE UNCHANGED nSubmitted
  BY <1>6
  DEF Monitor, ReadCounters, ScanInited, AdvanceInited, ScanCommitted,
      NothingCommitted, StoreRoot, StoreCommitted, AppendBubbles, counters
<1>7. ASSUME Stop \/ StopWorkers \/ UNCHANGED vars PROVE UNCHANGED nSubmitted
  BY <1>7 DEF Stop, StopWorkers, vars, counters
<1> QED
  BY <1>1, <1>2, <1>3, <1>4, <1>5, <1>6, <1>7 DEF Next

LEMMA PrefixIs ==
    ASSUME NEW n \in Nat, n <= MaxUpdates
    PROVE  OC!UpdatesUpTo(n) = 1..n
<1>1. ASSUME NEW t \in 1..n PROVE t % (MaxUpdates + 1) # 0
  <2> DEFINE b == MaxUpdates + 1
  <2>1. b \in Nat /\ b >= 1 /\ t \in 0..(b - 1) /\ t # 0
    BY <1>1, BoundsAssumption
  <2> HIDE DEF b
  <2>2. t \in Int /\ t = b * 0 + t
    BY <1>1, <2>1
  <2>3. t % b = t
    BY <2>1, <2>2, RemainderIs
  <2> QED
    BY <2>1, <2>3 DEF b
<1> QED
  BY <1>1 DEF OC!UpdatesUpTo

LEMMA PromiseStep ==
    OrderInv /\ OrderInv' /\ Bounded /\ [Next]_vars => [OC!Next]_(OC!vars)
<1> SUFFICES ASSUME OrderInv, OrderInv', Bounded, [Next]_vars
             PROVE  [OC!Next]_(OC!vars)
  OBVIOUS
<1> USE DEF counters
<1>1. /\ nCommitted \in Nat /\ mNext \in Nat /\ nSubmitted \in Nat
      /\ nCommitted <= mNext /\ mNext <= nSubmitted
      /\ MaxUpdates \in Nat /\ mNext <= MaxUpdates
  <2>1. /\ nCommitted \in Nat /\ mNext \in Nat /\ nSubmitted \in Nat
        /\ nCommitted <= mNext /\ mNext <= nSubmitted
    BY DEF OrderInv, IInv, CountersInOrder, TypeOK
  <2> QED
    BY <2>1, BoundsAssumption DEF Bounded
<1>2. PICK n \in Nat : n = mNext
  BY <1>1
<1>3. OC!UpdatesUpTo(n) = 1..n
  BY <1>1, <1>2, PrefixIs
<1>4. ASSUME NEW c \in Clients, Claim(c) PROVE OC!Next
  BY <1>4 DEF Claim, OC!Next, OC!Submit
<1>5. ASSUME StoreRoot PROVE OC!Next
  <2>1. n \in 1..nSubmitted /\ n > nCommitted
    BY <1>1, <1>2, <1>5 DEF StoreRoot
  <2>2. root = 1..nCommitted /\ root' = 1..n
    BY <1>2, <1>5 DEF StoreRoot, OrderInv, RootsInOrder
  <2>3. root # 1..n /\ root \subseteq 1..n
    <3>1. n \in 1..n /\ n \notin 1..nCommitted
      BY <1>1, <2>1
    <3>2. 1..nCommitted \subseteq 1..n
      BY <1>1, <1>2
    <3> QED
      BY <2>2, <3>1, <3>2
  <2>4. OC!Expose(n)
    BY <1>3, <1>5, <2>2, <2>3 DEF StoreRoot, OC!Expose
  <2> QED
    BY <2>1, <2>4 DEF OC!Next
<1>6. ASSUME StoreCommitted PROVE [OC!Next]_(OC!vars)
  <2>1. CASE mNext = nCommitted
    BY <1>6, <2>1 DEF StoreCommitted, OC!vars
  <2>2. CASE mNext # nCommitted
    <3>1. n \in 1..nSubmitted /\ n > nCommitted
      BY <1>1, <1>2, <2>2
    <3>2. root = 1..n
      BY <1>2, <1>6 DEF StoreCommitted, OrderInv, RootsInOrder
    <3>3. OC!Commit(n)
      BY <1>2, <1>3, <1>6, <3>1, <3>2 DEF StoreCommitted, OC!Commit
    <3> QED
      BY <3>1, <3>3 DEF OC!Next
  <2> QED
    BY <2>1, <2>2
<1>7. ASSUME UNCHANGED <<nSubmitted, nCommitted, root>>
      PROVE  [OC!Next]_(OC!vars)
  BY <1>7 DEF OC!vars
<1>8. ASSUME NEW c \in Clients, Submitting(c)
      PROVE  UNCHANGED <<nSubmitted, nCommitted, root>>
  BY <1>8 DEF Submitting, Write, Publish
<1>9. ASSUME NEW p \in Pipes, Pipe(p)
      PROVE  UNCHANGED <<nSubmitted, nCommitted, root>>
  BY <1>9
  DEF Pipe, EntryTask, InnerTask, Pass, ExitRun, ExitGive, ExitDone,
      NextBatch, Drain, PipeExit
<1>10. ASSUME NEW w \in Workers, Worker(w)
       PROVE  UNCHANGED <<nSubmitted, nCommitted, root>>
  BY <1>10 DEF Worker, Take, Exec, StoreStage, Finish, Push, WorkerExit
<1>11. ASSUME ReadCounters \/ ScanInited \/ AdvanceInited \/ ScanCommitted
              \/ NothingCommitted \/ AppendBubbles \/ Stop \/ StopWorkers
       PROVE  UNCHANGED <<nSubmitted, nCommitted, root>>
  BY <1>11 DEF ReadCounters, ScanInited, AdvanceInited, ScanCommitted,
               NothingCommitted, AppendBubbles, Stop, StopWorkers
<1>12. ASSUME UNCHANGED vars PROVE UNCHANGED <<nSubmitted, nCommitted, root>>
  BY <1>12 DEF vars
<1> QED
  BY <1>4, <1>5, <1>6, <1>7, <1>8, <1>9, <1>10, <1>11, <1>12
  DEF Next, Monitor

\* The cyclic pipeline implements the promise of its interface, with any
\* number of pipes.
THEOREM KeepsPromise == Spec => OrderedCommitSpec
<1>1. Init => OC!Init /\ Bounded
  BY BoundsAssumption DEF Init, OC!Init, Bounded
<1>2. Bounded /\ OrderInv /\ [Next]_vars => Bounded'
  BY BoundedStep DEF OrderInv, IInv
<1>3. OrderInv /\ OrderInv' /\ Bounded /\ [Next]_vars => [OC!Next]_(OC!vars)
  BY PromiseStep
<1> QED
  BY <1>1, <1>2, <1>3, OrderInvariance, PTL
  DEF Spec, OrderedCommitSpec, OC!Spec
===============================================================================
