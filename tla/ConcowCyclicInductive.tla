------------------------ MODULE ConcowCyclicInductive -------------------------
(***************************************************************************)
(* Inductive invariants of ConcowCyclic, in named parts.  As in the ones of *)
(* Concow each part speaks of an id of the window nCommitted ..            *)
(* nCommitted + BufferSize - 1 and of the slot it has now.  What is new is *)
(* where an id is: every id has its own order of the pipes.                *)
(***************************************************************************)
EXTENDS ConcowCyclic

\* The pipe at which id t begins, and how many pipes t passes before p.
Seat(t) == (t - 1) % NPipes
Pos(t, p) == IF Seat(t) <= p THEN p - Seat(t) ELSE p + NPipes - Seat(t)

NextPipe(p) == (p + 1) % NPipes

\* Id t has been through ENTRY, and through EXIT.
Entered(t) == t <= pdone[Seat(t)]
Exited(t) == \A p \in Pipes : t <= pdone[p]

\* A call of update() has claimed t and not published it yet.
Held(t) == \E c \in Clients : cpc[c] # "idle" /\ ctid[c] = t

Published == {t \in (nCommitted + 1)..nSubmitted : ~Held(t)}

\* The other ids of the window after nCommitted.
Vacant == {t \in (nCommitted + 1)..(nCommitted + BufferSize - 1) :
              t > nSubmitted \/ Held(t)}

\* An id is submitted, inited, goes through all pipes, is found finished, and
\* is then committed.
CountersInOrder ==
    /\ nCommitted <= mNext /\ mNext <= mInited
    /\ mInited <= nSubmitted /\ mSub <= nSubmitted
    /\ mpc # "exited" => nInited <= mInited
    /\ \A p \in Pipes : mNext <= pdone[p] /\ pdone[p] <= nInited

\* An id is not passed by a pipe before all pipes that come first for it.
PipesInOrder ==
    /\ \A p \in Pipes : pace[NextPipe(p)] <= pdone[p]
    /\ \A p, q \in Pipes : \A t \in 1..pdone[p] :
         Pos(t, q) <= Pos(t, p) => t <= pdone[q]
    /\ \A p \in Pipes : giving[p] => AtExit(p) /\ Tid(p) <= nSubmitted

\* stop_ is set when nothing submitted is uncommitted: from then on all
\* contexts are finished, for bubbles on any lap of the ring.
StopInOrder ==
    /\ mStop => stop /\ mSub = nSubmitted
    /\ mpc \in {"top", "inited"} => mNext = nCommitted
    /\ mpc = "exited" => stop
    /\ stop => /\ nCommitted = nSubmitted
               /\ \A c \in Clients : cpc[c] = "idle"
               /\ \A s \in Slots : op[s] = DONE /\ stages[s] = AllOnes
    /\ (\E w \in Workers : wtid[w] = NoTask) =>
         \A p \in Pipes : phase[p] = "exited"

\* Claimed ids are distinct, not inited, and within the ring once a client
\* writes.
ClientsInOrder ==
    /\ \A c \in Clients :
         cpc[c] # "idle" => ctid[c] > mInited /\ ctid[c] <= nSubmitted
    /\ \A c, d \in Clients :
         c # d /\ cpc[c] # "idle" /\ cpc[d] # "idle" => ctid[c] # ctid[d]
    /\ \A c \in Clients :
         cpc[c] = "publish" => ctid[c] < nCommitted + BufferSize
    /\ \A t \in Published : t < nCommitted + BufferSize

\* What a published id's slot holds, by how far the id has come.
PublishedSlot(t) ==
    LET s == Slot(t) IN
    /\ sno[s] = t
    /\ IF Entered(t) THEN op[s] > 0 ELSE op[s] = 0
    /\ ~Exited(t) => stages[s] = 0
    /\ t <= mNext => stages[s] = AllOnes
    /\ stages[s] = AllOnes => op[s] = DONE
    /\ Exited(t) /\ stages[s] # AllOnes =>
         \E w \in Workers : HasTask(w) /\ wtid[w] = t

PublishedSlots == \A t \in Published : PublishedSlot(t)

\* A slot without a published id is finished, until its client writes it.
VacantSlot(t) ==
    LET s == Slot(t) IN
    /\ stages[s] = AllOnes
    /\ IF \E c \in Clients : cpc[c] = "publish" /\ ctid[c] = t
       THEN op[s] = 0 /\ sno[s] = t
       ELSE op[s] = DONE

VacantSlots ==
    /\ stages[Slot(nCommitted)] = AllOnes /\ op[Slot(nCommitted)] = DONE
    /\ \A t \in Vacant : VacantSlot(t)

\* A worker in its loop.
Busy(w) == wpc[w] \in {"exec", "store"}

\* A worker's task is one unfinished id that left the pipes, and its own.
WorkersInOrder ==
    /\ \A w \in Workers : HasTask(w) =>
         /\ wtid[w] > mNext /\ wtid[w] <= nSubmitted /\ Exited(wtid[w])
         /\ stages[Slot(wtid[w])] # AllOnes
    /\ \A w, x \in Workers :
         w # x /\ HasTask(w) /\ HasTask(x) => wtid[w] # wtid[x]
    /\ \A w \in Workers : Busy(w) => HasTask(w) /\ wjob[w] = wtid[w]
    /\ \A w \in Workers : wpc[w] = "push" =>
         wtid[w] \in {NoTask, wjob[w]} /\ Exited(wjob[w])
    /\ \A w \in Workers : wpc[w] = "exited" => wtid[w] = NoTask
    /\ \A w \in avail : wpc[w] \in {"spin", "exited"} /\ ~HasTask(w)
    /\ \A w \in Workers : wlast[w] = 0 \/ Exited(wlast[w])
    /\ \A w \in Workers : wpc[w] = "spin" => wstage[w] = 1
    /\ \A w \in Workers : wpc[w] = "exec" => wstage[w] <= op[Slot(wjob[w])]
    /\ \A w \in Workers : wpc[w] = "store" => wstage[w] < op[Slot(wjob[w])]

\* The inductive invariant: every id of the window is where counters, ring,
\* pipes and workers agree it is.
IInv ==
    /\ TypeOK
    /\ CountersInOrder
    /\ PipesInOrder
    /\ StopInOrder
    /\ ClientsInOrder
    /\ PublishedSlots
    /\ VacantSlots
    /\ WorkersInOrder

-------------------------------------------------------------------------------
\* The ids with a root of their own in the window: the last committed one and
\* those that have been through ENTRY.
Rooted == {t \in nCommitted..nSubmitted : t = nCommitted \/ Entered(t)}

\* Their roots hold the updates up to them and have their version, and root_
\* holds a prefix: the committed one, until the monitor is about to tell
\* waiters of a longer one.
RootsInOrder ==
    /\ \A t \in Rooted : ctxRoot[Slot(t)] = 1..t /\ ctxRootVer[Slot(t)] = t
    /\ root = 1..(IF mpc = "root" THEN mNext ELSE nCommitted)

\* While a task has handlers left it has run one in every pipe it passed and
\* its stage does not run ahead of its handlers, and it copies a node of an
\* earlier task.
TaskInOrder(t) ==
    LET s == Slot(t) IN
    op[s] # DONE =>
      /\ op[s] < MaxOps
      /\ \A p \in Pipes :
           IF t <= pdone[p] THEN op[s] > Pos(t, p)
           ELSE (giving[p] /\ t = Tid(p)) \/ op[s] <= Pos(t, p)
      /\ Exited(t) => op[s] >= NPipes + stages[s]
      /\ Entered(t) => pastVer[s] < t

TasksInOrder == \A t \in Published : TaskInOrder(t)

\* Between EXIT's handler and the hand-over the pipes' handlers are all run.
HandOversInOrder ==
    \A p \in Pipes : giving[p] =>
        Entered(Tid(p)) /\ op[Slot(Tid(p))] \in {NPipes, DONE}

\* local_stage counts the handlers a worker has run.
Progress(w) == IF wpc[w] = "store" THEN wstage[w] ELSE wstage[w] - 1

StagesInOrder ==
    \A w \in Workers :
        HasTask(w) /\ op[Slot(wtid[w])] # DONE =>
            op[Slot(wtid[w])] = NPipes + Progress(w)

\* The inductive invariant of HandlersInOrder and the promise: pipes, stages,
\* handlers and roots of a task keep pace with each other.
OrderInv ==
    /\ IInv
    /\ RootsInOrder
    /\ TasksInOrder
    /\ HandOversInOrder
    /\ StagesInOrder
===============================================================================
