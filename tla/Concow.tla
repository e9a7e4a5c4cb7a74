-------------------------------- MODULE Concow --------------------------------
(***************************************************************************)
(* The pipelined copy-on-write scheduler, lib/conctrl/concow.hpp.          *)
(*                                                                         *)
(* Clients claim task ids and fill the slot id % BufferSize of a ring of   *)
(* contexts.  The monitor thread passes the filled prefix to pipe 0.  Pipe *)
(* 0 (ENTRY) runs the first handler of every task on the root left by the  *)
(* task before it, pipes 1..NPipes-1 (INNER) run one more handler each,    *)
(* pipe NPipes (EXIT) gives what is left of the task to an idle worker.    *)
(* A worker publishes its progress in stages[slot], which the workers of   *)
(* later tasks wait for.  The monitor publishes the root of the longest    *)
(* finished prefix to readers, then its id to waiters.                     *)
(*                                                                         *)
(* The tree operation behind T::handlers is abstract: op[slot] counts the  *)
(* handlers run so far (0 is operand::INIT), a handler either finishes the *)
(* task (DONE) or moves it one level down, to a node of version pastVer.   *)
(* The flags retry and wait_subtree are read by the code and set by no     *)
(* tree, so they are constantly 0 and left out.                            *)
(***************************************************************************)
EXTENDS Integers, FiniteSets

CONSTANTS
    Clients,      \* the threads that call update()
    Workers,      \* workers_
    NPipes,       \* n_pipes_: pipe 0 is ENTRY, pipe NPipes is EXIT
    BufferSize,   \* BUFFER_SIZE
    BatchSize,    \* BATCH_SIZE
    MaxOps,       \* bound: no task runs more handlers than this
    Boundary,     \* the handler that meets a BOUNDARY node and sets
                  \* wait_child (MaxOps or more: a tree that has none)
    MaxUpdates    \* bound: the number of calls of update()

\* operand::DONE; the stage ~0UL of a finished task, above every local_stage;
\* the tid ~0UL that tells a worker to leave, which is no task's id.
DONE == 15
AllOnes == 16
NoTask == -1

ASSUME RingAssumption ==
    /\ BufferSize \in Nat /\ BatchSize \in Nat
    /\ BatchSize >= 1 /\ BufferSize >= 2 * BatchSize
ASSUME PipesAssumption == NPipes \in Nat /\ NPipes >= 1
ASSUME HandlersAssumption ==
    /\ MaxOps \in Nat /\ MaxOps > NPipes /\ MaxOps < DONE
    /\ Boundary \in Nat
ASSUME BoundAssumption == MaxUpdates \in Nat

VARIABLES
    nSubmitted, nCommitted, checkpoint, \* the shared counters
    root,                               \* root_: the updates its tree holds
    stop,                               \* stop_
    stages,                             \* stages_
    op, waitChild, newCheckpoint, sno,  \* the fields of ctxs_ ...
    pastVer,                            \* ... t_past->ver
    ctxRoot,                            \* ... root: the updates it holds
    ctxRootVer,                         \* ... root->ver
    pace,                               \* pipes_[p].pace
    pdone, plast, phase,                \* a pipe's loop: ids done, last id
                                        \* of this batch, RUN/DRAIN/EXITED
    lastCheckpoint,                     \* last_checkpoint of ENTRY
    wtid, wlast, wjob, wstage, wpc,     \* a worker: tid, last_tid, local tid,
                                        \* local_stage, program counter
    avail,                              \* workers_available_
    cpc, ctid, nUpdates,                \* a client in update(), its tid, and
                                        \* the number of calls so far
    mpc, mStop, mSub, mInited, mNext    \* the monitor and its locals

counters == <<nSubmitted, nCommitted, checkpoint, root>>
ctxs     == <<op, waitChild, newCheckpoint, sno, pastVer, ctxRoot, ctxRootVer>>
pipes    == <<pace, pdone, plast, phase, lastCheckpoint>>
workers  == <<wtid, wlast, wjob, wstage, wpc, avail>>
clients  == <<cpc, ctid, nUpdates>>
monitor  == <<mpc, mStop, mSub, mInited, mNext>>
vars     == <<counters, stop, stages, ctxs, pipes, workers, clients, monitor>>

Slots == 0..(BufferSize - 1)
Pipes == 0..NPipes
Slot(tid) == tid % BufferSize
IsCheckpoint(tid) == tid % BufferSize = 0

\* The ids up to n that carry an update.
UpdatesUpTo(n) == {t \in 1..n : ~IsCheckpoint(t)}

-------------------------------------------------------------------------------
(* update(): clients *)

\* fetch_add on n_submitted_: the call takes the next id.
Claim(c) ==
    /\ cpc[c] = "idle" /\ ~stop
    /\ nUpdates < MaxUpdates
    /\ nUpdates' = nUpdates + 1
    /\ nSubmitted' = nSubmitted + 1
    /\ ctid' = [ctid EXCEPT ![c] = nSubmitted + 1]
    /\ cpc' = [cpc EXCEPT ![c] = "full"]
    /\ UNCHANGED <<nCommitted, checkpoint, root, stop, stages, ctxs, pipes,
                   workers, monitor>>

\* Mutant: the ring is taken to be free once a context is inited.
MutBufferFull(tid) == tid >= mInited + BufferSize

\* The spin while the buffer is full.
BufferFull(tid) == tid >= nCommitted + BufferSize

Enter(c) ==
    /\ cpc[c] = "full"
    /\ ~BufferFull(ctid[c])
    /\ cpc' = [cpc EXCEPT ![c] =
                 IF IsCheckpoint(ctid[c]) THEN "checkpoint" ELSE "write"]
    /\ UNCHANGED <<counters, stop, stages, ctxs, pipes, workers, ctid,
                   nUpdates, monitor>>

\* An id that is a multiple of BUFFER_SIZE is published as the checkpoint
\* slot, and the call claims another id.
PublishCheckpoint(c) ==
    /\ cpc[c] = "checkpoint"
    /\ sno' = [sno EXCEPT ![0] = ctid[c]]
    /\ stages' = [stages EXCEPT ![0] = 0]
    /\ nSubmitted' = nSubmitted + 1
    /\ ctid' = [ctid EXCEPT ![c] = nSubmitted + 1]
    /\ cpc' = [cpc EXCEPT ![c] = "full"]
    /\ UNCHANGED <<nCommitted, checkpoint, root, stop, op, waitChild,
                   newCheckpoint, pastVer, ctxRoot, ctxRootVer, pipes,
                   workers, nUpdates, monitor>>

\* op = INIT, flags = 0, sno, key and val; the update's data is its id.
Write(c) ==
    /\ cpc[c] = "write"
    /\ LET s == Slot(ctid[c]) IN
         /\ op' = [op EXCEPT ![s] = 0]
         /\ waitChild' = [waitChild EXCEPT ![s] = 0]
         /\ newCheckpoint' = [newCheckpoint EXCEPT ![s] = FALSE]
         /\ sno' = [sno EXCEPT ![s] = ctid[c]]
    /\ cpc' = [cpc EXCEPT ![c] = "publish"]
    /\ UNCHANGED <<counters, stop, stages, pastVer, ctxRoot, ctxRootVer,
                   pipes, workers, ctid, nUpdates, monitor>>

\* stages_[pos].store(0) "to indicate the context is inited".
Publish(c) ==
    /\ cpc[c] = "publish"
    /\ stages' = [stages EXCEPT ![Slot(ctid[c])] = 0]
    /\ cpc' = [cpc EXCEPT ![c] = "idle"]
    /\ UNCHANGED <<counters, stop, ctxs, pipes, workers, ctid, nUpdates,
                   monitor>>

-------------------------------------------------------------------------------
(* T::handlers, abstractly *)

\* A node below one of version v is no newer than it, or lies below a root
\* that a checkpoint rebuilt (with version 0) from committed nodes.
Below(v) ==
    {u \in 0..(IF v >= lastCheckpoint THEN v ELSE lastCheckpoint - 1) :
        u = 0 \/ ~IsCheckpoint(u)}

\* Handler number op[s] runs on slot s.  It ends the task or moves down a
\* level; handler Boundary leaves wait_child set; the one after it may find
\* the elastic part too high and ask for a checkpoint.  t_past is not read
\* again once the task has ended, so its version is forgotten.
Handle(s) ==
    \/ /\ op' = [op EXCEPT ![s] = DONE]
       /\ \/ UNCHANGED newCheckpoint
          \/ /\ op[s] = Boundary + 1
             /\ newCheckpoint' = [newCheckpoint EXCEPT ![s] = TRUE]
       /\ pastVer' = [pastVer EXCEPT ![s] = 0]
       /\ UNCHANGED waitChild
    \/ /\ op[s] + 1 < MaxOps
       /\ op' = [op EXCEPT ![s] = op[s] + 1]
       /\ waitChild' = IF op[s] = Boundary
                       THEN [waitChild EXCEPT ![s] = 1] ELSE waitChild
       /\ \/ UNCHANGED newCheckpoint
          \/ /\ op[s] = Boundary + 1
             /\ newCheckpoint' = [newCheckpoint EXCEPT ![s] = TRUE]
       /\ \E v \in Below(pastVer[s]) : pastVer' = [pastVer EXCEPT ![s] = v]

-------------------------------------------------------------------------------
(* Pipes *)

\* The next id of pipe p, which it may take once its predecessor (for ENTRY,
\* the monitor) has advanced the pipe's pace to it.
Tid(p) == pdone[p] + 1
Ready(p) ==
    /\ phase[p] # "exited"
    /\ pdone[p] < plast[p]
    /\ pace[p] >= Tid(p)

\* The end of an iteration of the loop over ids.
Advance(p) ==
    /\ pdone' = [pdone EXCEPT ![p] = Tid(p)]
    /\ pace' = IF p < NPipes THEN [pace EXCEPT ![p + 1] = Tid(p)] ELSE pace
    /\ UNCHANGED <<plast, phase>>

\* Mutant: the rebuild does not wait for the last root.
MutEntryCheckpoint ==
    LET tid == Tid(0)  s == Slot(tid)  prev == Slot(tid - 1) IN
    /\ Ready(0) /\ IsCheckpoint(tid)
    /\ lastCheckpoint < checkpoint
    /\ lastCheckpoint' = tid
    /\ ctxRoot' = [ctxRoot EXCEPT ![s] = ctxRoot[prev]]
    /\ ctxRootVer' = [ctxRootVer EXCEPT ![s] = 0]
    /\ Advance(0)
    /\ UNCHANGED <<counters, stop, stages, op, waitChild, newCheckpoint, sno,
                   pastVer, workers, clients, monitor>>

\* ENTRY at a checkpoint slot when a checkpoint is due: wait until the last
\* root is committed, then rebuild it.
EntryCheckpoint ==
    LET tid == Tid(0)  s == Slot(tid)  prev == Slot(tid - 1) IN
    /\ Ready(0) /\ IsCheckpoint(tid)
    /\ lastCheckpoint < checkpoint
    /\ nCommitted >= ctxRootVer[prev]
    /\ lastCheckpoint' = tid
    /\ ctxRoot' = [ctxRoot EXCEPT ![s] = ctxRoot[prev]]
    /\ ctxRootVer' = [ctxRootVer EXCEPT ![s] = 0]
    /\ Advance(0)
    /\ UNCHANGED <<counters, stop, stages, op, waitChild, newCheckpoint, sno,
                   pastVer, workers, clients, monitor>>

\* Mutant: the checkpoint slot keeps the root it had a round earlier.
MutEntrySkip ==
    /\ Ready(0) /\ IsCheckpoint(Tid(0))
    /\ lastCheckpoint >= checkpoint
    /\ Advance(0)
    /\ UNCHANGED <<counters, stop, stages, ctxs, lastCheckpoint, workers,
                   clients, monitor>>

\* ENTRY at a checkpoint slot when none is due: the root is passed on.
EntrySkip ==
    LET tid == Tid(0)  s == Slot(tid)  prev == Slot(tid - 1) IN
    /\ Ready(0) /\ IsCheckpoint(tid)
    /\ lastCheckpoint >= checkpoint
    /\ ctxRoot' = [ctxRoot EXCEPT ![s] = ctxRoot[prev]]
    /\ ctxRootVer' = [ctxRootVer EXCEPT ![s] = ctxRootVer[prev]]
    /\ Advance(0)
    /\ UNCHANGED <<counters, stop, stages, op, waitChild, newCheckpoint, sno,
                   pastVer, lastCheckpoint, workers, clients, monitor>>

\* ENTRY at a task: handler 0 makes a new root with the task's sno from the
\* root of the task before, and t_past stays at that root.
EntryTask ==
    LET tid == Tid(0)  s == Slot(tid)  prev == Slot(tid - 1) IN
    /\ Ready(0) /\ ~IsCheckpoint(tid)
    /\ op[s] = 0
    /\ ctxRoot' = [ctxRoot EXCEPT ![s] = ctxRoot[prev] \union {sno[s]}]
    /\ ctxRootVer' = [ctxRootVer EXCEPT ![s] = sno[s]]
    /\ \/ /\ op' = [op EXCEPT ![s] = DONE]
          /\ pastVer' = [pastVer EXCEPT ![s] = 0]
          /\ UNCHANGED waitChild
       \/ /\ op' = [op EXCEPT ![s] = 1]
          /\ pastVer' = [pastVer EXCEPT ![s] = ctxRootVer[prev]]
          /\ waitChild' = IF Boundary = 0
                          THEN [waitChild EXCEPT ![s] = 1] ELSE waitChild
    /\ Advance(0)
    /\ UNCHANGED <<counters, stop, stages, newCheckpoint, sno,
                   lastCheckpoint, workers, clients, monitor>>

\* ENTRY at any other slot: "just a bubble".
EntryBubble ==
    /\ Ready(0) /\ ~IsCheckpoint(Tid(0))
    /\ op[Slot(Tid(0))] # 0
    /\ Advance(0)
    /\ UNCHANGED <<counters, stop, stages, ctxs, lastCheckpoint, workers,
                   clients, monitor>>

InnerPipes == 1..(NPipes - 1)

\* INNER pipe p runs one handler, unless the task is done or iter_exec finds
\* wait_child set.
InnerTask(p) ==
    LET s == Slot(Tid(p)) IN
    /\ Ready(p)
    /\ op[s] # DONE /\ waitChild[s] = 0
    /\ Handle(s)
    /\ Advance(p)
    /\ UNCHANGED <<counters, stop, stages, sno, ctxRoot, ctxRootVer,
                   lastCheckpoint, workers, clients, monitor>>

InnerPass(p) ==
    LET s == Slot(Tid(p)) IN
    /\ Ready(p)
    /\ op[s] = DONE \/ waitChild[s] = 1
    /\ Advance(p)
    /\ UNCHANGED <<counters, stop, stages, ctxs, lastCheckpoint, workers,
                   clients, monitor>>

\* EXIT pops an idle worker (it spins while there is none) and gives it the
\* id.
ExitHandOff ==
    LET tid == Tid(NPipes) IN
    /\ Ready(NPipes)
    /\ op[Slot(tid)] # DONE
    /\ \E w \in avail :
         /\ avail' = avail \ {w}
         /\ wtid' = [wtid EXCEPT ![w] = tid]
    /\ Advance(NPipes)
    /\ UNCHANGED <<counters, stop, stages, ctxs, lastCheckpoint, wlast, wjob,
                   wstage, wpc, clients, monitor>>

\* Mutant: EXIT leaves the stage of a finished task alone.
MutExitDone ==
    /\ Ready(NPipes)
    /\ op[Slot(Tid(NPipes))] = DONE
    /\ Advance(NPipes)
    /\ UNCHANGED <<counters, stop, stages, ctxs, lastCheckpoint, workers,
                   clients, monitor>>

\* EXIT marks what is already done.
ExitDone ==
    LET tid == Tid(NPipes) IN
    /\ Ready(NPipes)
    /\ op[Slot(tid)] = DONE
    /\ stages' = [stages EXCEPT ![Slot(tid)] = AllOnes]
    /\ Advance(NPipes)
    /\ UNCHANGED <<counters, stop, ctxs, lastCheckpoint, workers, clients,
                   monitor>>

\* pipe_main_ between two batches: go on, or, once stop_ is seen, drain up
\* to n_submitted_ and leave.
NextBatch(p) ==
    /\ phase[p] = "run" /\ pdone[p] = plast[p] /\ ~stop
    /\ plast' = [plast EXCEPT ![p] = plast[p] + BatchSize]
    /\ UNCHANGED <<counters, stop, stages, ctxs, pace, pdone, phase,
                   lastCheckpoint, workers, clients, monitor>>

Drain(p) ==
    /\ phase[p] = "run" /\ pdone[p] = plast[p] /\ stop
    /\ plast' = [plast EXCEPT ![p] = nSubmitted]
    /\ phase' = [phase EXCEPT ![p] = "drain"]
    /\ UNCHANGED <<counters, stop, stages, ctxs, pace, pdone, lastCheckpoint,
                   workers, clients, monitor>>

PipeExit(p) ==
    /\ phase[p] = "drain" /\ pdone[p] >= plast[p]
    /\ phase' = [phase EXCEPT ![p] = "exited"]
    /\ UNCHANGED <<counters, stop, stages, ctxs, pace, pdone, plast,
                   lastCheckpoint, workers, clients, monitor>>

-------------------------------------------------------------------------------
(* Workers *)

\* Mutant: the worker joins workers_available_ before it has run the task.
MutTake(w) ==
    /\ wpc[w] = "spin"
    /\ wtid[w] # wlast[w] /\ wtid[w] # NoTask
    /\ wjob' = [wjob EXCEPT ![w] = wtid[w]]
    /\ wpc' = [wpc EXCEPT ![w] = "exec"]
    /\ avail' = avail \union {w}
    /\ UNCHANGED <<counters, stop, stages, ctxs, pipes, wtid, wlast, wstage,
                   clients, monitor>>

\* A worker sees a new tid.
Take(w) ==
    /\ wpc[w] = "spin"
    /\ wtid[w] # wlast[w] /\ wtid[w] # NoTask
    /\ wjob' = [wjob EXCEPT ![w] = wtid[w]]
    /\ wpc' = [wpc EXCEPT ![w] = "exec"]
    /\ UNCHANGED <<counters, stop, stages, ctxs, pipes, wtid, wlast, wstage,
                   avail, clients, monitor>>

\* Mutant: wait_child does not raise the stage to wait for.
MutStageReached(s, stage) ==
    \/ nCommitted >= pastVer[s]
    \/ stages[Slot(pastVer[s])] >= stage - waitChild[s]

\* Mutant: a task's stage 1 is not waited for.
MutFirstStage(s, stage) ==
    \/ nCommitted >= pastVer[s]
    \/ stages[Slot(pastVer[s])] >= stage - 1

\* wait_stage has nothing to wait for: the version it reads is committed, or
\* the task that made it has reached the stage.
StageReached(s, stage) ==
    \/ nCommitted >= pastVer[s]
    \/ stages[Slot(pastVer[s])] >= stage

\* worker_exec.
Exec(w) ==
    LET s == Slot(wjob[w]) IN
    /\ wpc[w] = "exec" /\ op[s] # DONE
    /\ StageReached(s, wstage[w] + waitChild[s])
    /\ Handle(s)
    /\ wpc' = [wpc EXCEPT ![w] = "store"]
    /\ UNCHANGED <<counters, stop, stages, sno, ctxRoot, ctxRootVer, pipes,
                   wtid, wlast, wjob, wstage, avail, clients, monitor>>

StoreStage(w) ==
    /\ wpc[w] = "store"
    /\ stages' = [stages EXCEPT ![Slot(sno[Slot(wjob[w])])] = wstage[w]]
    /\ wstage' = [wstage EXCEPT ![w] = wstage[w] + 1]
    /\ wpc' = [wpc EXCEPT ![w] = "exec"]
    /\ UNCHANGED <<counters, stop, ctxs, pipes, wtid, wlast, wjob, avail,
                   clients, monitor>>

Finish(w) ==
    /\ wpc[w] = "exec" /\ op[Slot(wjob[w])] = DONE
    /\ stages' = [stages EXCEPT ![Slot(sno[Slot(wjob[w])])] = AllOnes]
    /\ wpc' = [wpc EXCEPT ![w] = "push"]
    /\ UNCHANGED <<counters, stop, ctxs, pipes, wtid, wlast, wjob, wstage,
                   avail, clients, monitor>>

\* Mutant: local_stage is not declared anew for the next task.
MutPush(w) ==
    /\ wpc[w] = "push"
    /\ wlast' = [wlast EXCEPT ![w] = wjob[w]]
    /\ avail' = avail \union {w}
    /\ wpc' = [wpc EXCEPT ![w] = "spin"]
    /\ UNCHANGED <<counters, stop, stages, ctxs, pipes, wtid, wjob, wstage,
                   clients, monitor>>

\* last_tid = tid, and the worker joins workers_available_ again; the next
\* task's local_stage starts from 1.
Push(w) ==
    /\ wpc[w] = "push"
    /\ wlast' = [wlast EXCEPT ![w] = wjob[w]]
    /\ avail' = avail \union {w}
    /\ wstage' = [wstage EXCEPT ![w] = 1]
    /\ wpc' = [wpc EXCEPT ![w] = "spin"]
    /\ UNCHANGED <<counters, stop, stages, ctxs, pipes, wtid, wjob, clients,
                   monitor>>

WorkerExit(w) ==
    /\ wpc[w] = "spin" /\ wtid[w] = NoTask
    /\ wpc' = [wpc EXCEPT ![w] = "exited"]
    /\ UNCHANGED <<counters, stop, stages, ctxs, pipes, wtid, wlast, wjob,
                   wstage, avail, clients, monitor>>

-------------------------------------------------------------------------------
(* Monitor: n_inited_local is pace[0] and n_committed_local is nCommitted    *)
(* until the loop ends; mInited and mNext are n_inited_next and              *)
(* n_committed_next.                                                         *)

\* The loads of stop_ and n_submitted_ are one step: once stop_ is set no
\* client is left to change n_submitted_.
ReadCounters ==
    /\ mpc = "top"
    /\ ~mStop \/ nCommitted < mSub
    /\ mStop' = stop
    /\ mSub' = nSubmitted
    /\ mpc' = "inited"
    /\ UNCHANGED <<counters, stop, stages, ctxs, pipes, workers, clients,
                   mInited, mNext>>

\* Mutant: an id counts as inited as soon as it is submitted.
MutInitedNext == mInited < mSub

InitedNext == mInited < mSub /\ stages[Slot(mInited + 1)] = 0

ScanInited ==
    /\ mpc = "inited" /\ InitedNext
    /\ mInited' = mInited + 1
    /\ UNCHANGED <<counters, stop, stages, ctxs, pipes, workers, clients,
                   mpc, mStop, mSub, mNext>>

AdvanceInited ==
    /\ mpc = "inited" /\ ~InitedNext
    /\ pace' = [pace EXCEPT ![0] = mInited]
    /\ mpc' = "committed"
    /\ UNCHANGED <<counters, stop, stages, ctxs, pdone, plast, phase,
                   lastCheckpoint, workers, clients, mStop, mSub, mInited,
                   mNext>>

\* Mutant: a task that made any progress counts as finished.
MutCommittedNext == mNext < mInited /\ stages[Slot(mNext + 1)] # 0

CommittedNext == mNext < mInited /\ stages[Slot(mNext + 1)] = AllOnes

ScanCommitted ==
    /\ mpc = "committed" /\ CommittedNext
    /\ mNext' = mNext + 1
    /\ checkpoint' = IF newCheckpoint[Slot(mNext + 1)]
                     THEN mNext + 1 ELSE checkpoint
    /\ UNCHANGED <<nSubmitted, nCommitted, root, stop, stages, ctxs, pipes,
                   workers, clients, mpc, mStop, mSub, mInited>>

\* Nothing new is done: back to the top of the loop.
NothingCommitted ==
    /\ mpc = "committed" /\ ~CommittedNext /\ mNext = nCommitted
    /\ mpc' = "top"
    /\ UNCHANGED <<counters, stop, stages, ctxs, pipes, workers, clients,
                   mStop, mSub, mInited, mNext>>

StoreRoot ==
    /\ mpc = "committed" /\ ~CommittedNext /\ mNext > nCommitted
    /\ root' = ctxRoot[Slot(mNext)]
    /\ mpc' = "root"
    /\ UNCHANGED <<nSubmitted, nCommitted, checkpoint, stop, stages, ctxs,
                   pipes, workers, clients, mStop, mSub, mInited, mNext>>

StoreCommitted ==
    /\ mpc = "root"
    /\ nCommitted' = mNext
    /\ mpc' = "top"
    /\ UNCHANGED <<nSubmitted, checkpoint, root, stop, stages, ctxs, pipes,
                   workers, clients, mStop, mSub, mInited, mNext>>

\* Mutants: bubbles only up to the end of the batch; the sign reversed.
MutMargin(n) == (BatchSize - (n % BatchSize)) % BatchSize
MutSignMargin(n) == -MutMargin(n) - BatchSize

\* "append bubbles to terminate the pipeline"
Margin(n) == BatchSize + ((BatchSize - (n % BatchSize)) % BatchSize)

AppendBubbles ==
    /\ mpc = "top" /\ mStop /\ nCommitted >= mSub
    /\ pace' = [pace EXCEPT ![0] = mInited + Margin(mInited)]
    /\ mpc' = "exited"
    /\ UNCHANGED <<counters, stop, stages, ctxs, pdone, plast, phase,
                   lastCheckpoint, workers, clients, mStop, mSub, mInited,
                   mNext>>

-------------------------------------------------------------------------------
(* ~concow(), called as in main.cpp: the clients are joined and             *)
(* wait_for_processing has returned for the number of their updates.        *)

Stop ==
    /\ ~stop
    /\ \A c \in Clients : cpc[c] = "idle"
    /\ nCommitted >= nUpdates
    /\ stop' = TRUE
    /\ UNCHANGED <<counters, stages, ctxs, pipes, workers, clients, monitor>>

\* With the monitor and the pipes joined, the workers get the tid ~0.
StopWorkers ==
    /\ stop /\ mpc = "exited"
    /\ \A p \in Pipes : phase[p] = "exited"
    /\ \E w \in Workers : wtid[w] # NoTask
    /\ wtid' = [w \in Workers |-> NoTask]
    /\ UNCHANGED <<counters, stop, stages, ctxs, pipes, wlast, wjob, wstage,
                   wpc, avail, clients, monitor>>

-------------------------------------------------------------------------------
Init ==
    /\ nSubmitted = 0 /\ nCommitted = 0 /\ checkpoint = 0 /\ root = {}
    /\ stop = FALSE
    /\ stages = [s \in Slots |-> AllOnes]
    /\ op = [s \in Slots |-> DONE]
    /\ waitChild = [s \in Slots |-> 0]
    /\ newCheckpoint = [s \in Slots |-> FALSE]
    /\ sno = [s \in Slots |-> 0]
    /\ pastVer = [s \in Slots |-> 0]
    /\ ctxRoot = [s \in Slots |-> {}]
    /\ ctxRootVer = [s \in Slots |-> 0]
    /\ pace = [p \in Pipes |-> 0]
    /\ pdone = [p \in Pipes |-> 0]
    /\ plast = [p \in Pipes |-> 0]
    /\ phase = [p \in Pipes |-> "run"]
    /\ lastCheckpoint = 0
    /\ wtid = [w \in Workers |-> 0]
    /\ wlast = [w \in Workers |-> 0]
    /\ wjob = [w \in Workers |-> 0]
    /\ wstage = [w \in Workers |-> 1]
    /\ wpc = [w \in Workers |-> "spin"]
    /\ avail = Workers
    /\ cpc = [c \in Clients |-> "idle"]
    /\ ctid = [c \in Clients |-> 0]
    /\ nUpdates = 0
    /\ mpc = "top" /\ mStop = FALSE /\ mSub = 0 /\ mInited = 0 /\ mNext = 0

\* update() once it has claimed an id; whether it is called is the caller's.
Submitting(c) == Enter(c) \/ PublishCheckpoint(c) \/ Write(c) \/ Publish(c)

Entry == EntryCheckpoint \/ EntrySkip \/ EntryTask \/ EntryBubble
Inner(p) == InnerTask(p) \/ InnerPass(p)
Exit == ExitHandOff \/ ExitDone
Batch(p) == NextBatch(p) \/ Drain(p) \/ PipeExit(p)

Worker(w) == \/ Take(w) \/ Exec(w) \/ StoreStage(w) \/ Finish(w) \/ Push(w)
             \/ WorkerExit(w)

Monitor == \/ ReadCounters \/ ScanInited \/ AdvanceInited
           \/ ScanCommitted \/ NothingCommitted \/ StoreRoot
           \/ StoreCommitted \/ AppendBubbles

Next ==
    \/ \E c \in Clients : Claim(c) \/ Submitting(c)
    \/ Entry
    \/ \E p \in InnerPipes : Inner(p)
    \/ Exit
    \/ \E p \in Pipes : Batch(p)
    \/ \E w \in Workers : Worker(w)
    \/ Monitor
    \/ Stop
    \/ StopWorkers

Spec == Init /\ [][Next]_vars

\* Every thread of the scheduler runs on, and so does a client inside
\* update(): the loops spin and the operating system schedules them.
\* Nothing makes a client call update() or the owner destroy the scheduler.
Fairness ==
    /\ \A c \in Clients : WF_vars(Submitting(c))
    /\ WF_vars(Entry)
    /\ \A p \in InnerPipes : WF_vars(Inner(p))
    /\ WF_vars(Exit)
    /\ \A p \in Pipes : WF_vars(Batch(p))
    /\ \A w \in Workers : WF_vars(Worker(w))
    /\ WF_vars(Monitor)
    /\ WF_vars(StopWorkers)

FairSpec == Spec /\ Fairness
-------------------------------------------------------------------------------
(* Properties *)

TypeOK ==
    /\ nSubmitted \in Nat /\ nCommitted \in Nat /\ checkpoint \in Nat
    /\ root \subseteq Nat
    /\ stop \in BOOLEAN
    /\ stages \in [Slots -> Nat]
    /\ op \in [Slots -> 0..DONE]
    /\ waitChild \in [Slots -> {0, 1}]
    /\ newCheckpoint \in [Slots -> BOOLEAN]
    /\ sno \in [Slots -> Nat]
    /\ pastVer \in [Slots -> Nat]
    /\ ctxRoot \in [Slots -> SUBSET Nat]
    /\ ctxRootVer \in [Slots -> Nat]
    /\ pace \in [Pipes -> Nat]
    /\ pdone \in [Pipes -> Nat]
    /\ plast \in [Pipes -> Nat]
    /\ phase \in [Pipes -> {"run", "drain", "exited"}]
    /\ lastCheckpoint \in Nat
    /\ wtid \in [Workers -> Nat \union {NoTask}]
    /\ wlast \in [Workers -> Nat]
    /\ wjob \in [Workers -> Nat]
    /\ wstage \in [Workers -> Nat]
    /\ wpc \in [Workers -> {"spin", "exec", "store", "push", "exited"}]
    /\ avail \subseteq Workers
    /\ cpc \in [Clients -> {"idle", "full", "checkpoint", "write", "publish"}]
    /\ ctid \in [Clients -> Nat]
    /\ nUpdates \in Nat
    /\ mpc \in {"top", "inited", "committed", "root", "exited"}
    /\ mStop \in BOOLEAN
    /\ mSub \in Nat /\ mInited \in Nat /\ mNext \in Nat

\* A client writes its slot between the spin and the publication.
Writing(c) == cpc[c] \in {"checkpoint", "write", "publish"}

\* A worker has a task: it was given a tid it has not finished.
HasTask(w) == wtid[w] \notin {NoTask, wlast[w]} /\ wpc[w] # "push"
Running(w) == wpc[w] \in {"exec", "store"}

\* The plain fields of a context are written by the client, the pipes and a
\* worker without a lock.  While a client fills a slot, no other client, no
\* pipe that may proceed, no worker and no scan of the monitor is at it.
SlotExclusive ==
    \A c \in Clients : Writing(c) =>
        LET s == Slot(ctid[c]) IN
        /\ \A d \in Clients \ {c} : Writing(d) => Slot(ctid[d]) # s
        /\ \A p \in Pipes : Ready(p) => Slot(Tid(p)) # s
        /\ \A w \in Workers : /\ Running(w) => Slot(wjob[w]) # s
                              /\ HasTask(w) => Slot(wtid[w]) # s
        /\ \A t \in (nCommitted + 1)..mInited : Slot(t) # s

\* ENTRY finds what the client of the id wrote, and finds a finished context
\* at an id nobody submitted: "just a bubble", assert(op == DONE).
EntryMeetsInit ==
    (Ready(0) /\ ~IsCheckpoint(Tid(0))) =>
        LET s == Slot(Tid(0)) IN
        IF Tid(0) <= nSubmitted
        THEN op[s] = 0 /\ waitChild[s] = 0 /\ sno[s] = Tid(0)
        ELSE op[s] = DONE

\* The contract the tree handlers rely on.  The handler at depth k of a task
\* copies a node made by task v, so task v is committed or has run its own
\* handler k (k + 1 past a boundary, where v may still insert children).
PastReady(s, v) ==
    \/ v <= nCommitted
    \/ sno[Slot(v)] = v /\ op[Slot(v)] >= op[s] + 1 + waitChild[s]

HandlersInOrder ==
    [][\A s \in Slots : op'[s] > op[s] =>
          PastReady(s, IF op[s] = 0 THEN ctxRootVer[(s - 1) % BufferSize]
                                    ELSE pastVer[s])]_vars

\* Readers of root_ get the tree of a whole prefix of the updates, at least
\* as long as the one waiters were told of, with no handler left to run.
RootComplete ==
    \E n \in nCommitted..mNext :
        /\ root = UpdatesUpTo(n)
        /\ \A t \in (nCommitted + 1)..n : op[Slot(t)] = DONE
        /\ \A w \in Workers : HasTask(w) => wtid[w] > n

\* EXIT hands every id over once and no worker drops one: an id that left the
\* pipes and is not finished is held by exactly one worker, and a worker in
\* workers_available_ holds none (EXIT overwrites its tid).
TaskHasWorker ==
    /\ \A t \in (mNext + 1)..pdone[NPipes] :
         \/ stages[Slot(t)] = AllOnes
         \/ \E w \in Workers :
              /\ wtid[w] = t /\ HasTask(w)
              /\ \A x \in Workers \ {w} : HasTask(x) => wtid[x] # t
    /\ \A w \in avail : ~HasTask(w)

\* rebuild walks the whole tree, but ENTRY only waits for the version of its
\* root: every update in the tree is committed then.
RebuildAlone ==
    [][lastCheckpoint' # lastCheckpoint =>
          ctxRoot'[Slot(Tid(0))] \subseteq 1..nCommitted]_vars

\* The scheduler keeps the promise of its interface.
OC == INSTANCE OrderedCommit WITH
        submitted <- nSubmitted, committed <- nCommitted, tree <- root
OrderedCommitSpec == OC!Spec

\* Whatever was submitted is committed: no wait among tasks, workers, the
\* monitor and clients at a full buffer lasts for ever.
OrderedCommitFair == OC!FairSpec

\* "append bubbles to terminate the pipeline": the destructor's joins return.
AllExited == \A p \in Pipes : phase[p] = "exited"
StopTerminates == stop ~> AllExited

\* They do when every pipe is inside the batch of the next id when stop_ is
\* set, and then the workers leave too.
InLastBatch == \A p \in Pipes : phase[p] = "run" /\ plast[p] > nSubmitted
StopTerminatesInBatch ==
    (stop /\ InLastBatch) ~> (AllExited /\ \A w \in Workers : wpc[w] = "exited")
===============================================================================
