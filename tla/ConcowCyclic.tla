----------------------------- MODULE ConcowCyclic -----------------------------
(***************************************************************************)
(* The cyclic pipeline that runs the B-tree, lib/conctrl/concow_cyclic.hpp.*)
(*                                                                         *)
(* Every id passes all NPipes pipes, beginning with pipe (id - 1) % NPipes *)
(* and going round: the first runs handler 0 (ENTRY), the others one more  *)
(* each, and the last (EXIT) waits for the task before it, runs its        *)
(* handler and hands the id to a worker.  Clients, workers and the monitor *)
(* are those of concow.hpp without checkpoints.                            *)
(*                                                                         *)
(* The B-tree behind T::handlers is abstract as in Concow: op counts the   *)
(* handlers a task has run, pastVer is the version of the node it will     *)
(* copy next.                                                              *)
(***************************************************************************)
EXTENDS Integers, FiniteSets

CONSTANTS
    Clients,      \* the threads that call update()
    Workers,      \* workers_
    NPipes,       \* N_PIPES, one more than the command line's -p: EXIT is not
                  \* counted there
    BufferSize,   \* BUFFER_SIZE
    BatchRounds,  \* BATCH_ROUNDS
    MaxOps,       \* bound: no task runs more handlers than this
    MaxUpdates    \* bound: the number of calls of update()

DONE == 15
AllOnes == 16
NoTask == -1
BatchSize == BatchRounds * NPipes

ASSUME PipesAssumption == NPipes \in Nat /\ NPipes >= 2
ASSUME RingAssumption ==
    BatchRounds \in Nat \ {0} /\ BufferSize \in Nat /\ BufferSize >= BatchSize
ASSUME BoundsAssumption ==
    MaxOps \in Nat /\ MaxOps > NPipes /\ MaxOps < DONE /\ MaxUpdates \in Nat

VARIABLES
    nSubmitted, nInited, nCommitted,    \* the shared counters
    root,                               \* root_: the updates its tree holds
    stop,                               \* stop_
    stages,                             \* stages_
    op, sno, pastVer,                   \* ctxs_: op, sno, t_past->ver ...
    ctxRoot, ctxRootVer,                \* ... the updates in root, root->ver
    pace,                               \* pipes_[p].pace
    pdone, plast, phase,                \* a pipe's loop, as in Concow
    giving,                             \* EXIT has run its handler
    wtid, wlast, wjob, wstage, wpc,     \* the workers, as in Concow
    avail,                              \* workers_available_
    cpc, ctid,                          \* the clients
    mpc, mStop, mSub, mInited, mNext    \* the monitor and its locals

counters == <<nSubmitted, nInited, nCommitted, root, stop>>
ctxs     == <<op, sno, pastVer, ctxRoot, ctxRootVer>>
pipes    == <<pace, pdone, plast, phase, giving>>
workers  == <<wtid, wlast, wjob, wstage, wpc, avail>>
clients  == <<cpc, ctid>>
monitor  == <<mpc, mStop, mSub, mInited, mNext>>
vars     == <<counters, stages, ctxs, pipes, workers, clients, monitor>>

Slots == 0..(BufferSize - 1)
Pipes == 0..(NPipes - 1)
Slot(tid) == tid % BufferSize

-------------------------------------------------------------------------------
(* update() *)

Claim(c) ==
    /\ cpc[c] = "idle" /\ ~stop
    /\ nSubmitted < MaxUpdates
    /\ nSubmitted' = nSubmitted + 1
    /\ ctid' = [ctid EXCEPT ![c] = nSubmitted + 1]
    /\ cpc' = [cpc EXCEPT ![c] = "full"]
    /\ UNCHANGED <<nInited, nCommitted, root, stop, stages, ctxs, pipes,
                   workers, monitor>>

\* Mutant: the ring is taken to be free once a context is inited.
MutBufferFull(tid) == tid >= mInited + BufferSize

BufferFull(tid) == tid >= nCommitted + BufferSize

\* op = INIT, sno, key and val, once the buffer is not full.
Write(c) ==
    /\ cpc[c] = "full" /\ ~BufferFull(ctid[c])
    /\ op' = [op EXCEPT ![Slot(ctid[c])] = 0]
    /\ sno' = [sno EXCEPT ![Slot(ctid[c])] = ctid[c]]
    /\ cpc' = [cpc EXCEPT ![c] = "publish"]
    /\ UNCHANGED <<counters, stages, pastVer, ctxRoot, ctxRootVer, pipes,
                   workers, ctid, monitor>>

\* stages_[pos].store(0) "to indicate the context is inited".
Publish(c) ==
    /\ cpc[c] = "publish"
    /\ stages' = [stages EXCEPT ![Slot(ctid[c])] = 0]
    /\ cpc' = [cpc EXCEPT ![c] = "idle"]
    /\ UNCHANGED <<counters, ctxs, pipes, workers, ctid, monitor>>

-------------------------------------------------------------------------------
(* Pipes *)

Tid(p) == pdone[p] + 1
Running(p) == phase[p] # "exited" /\ pdone[p] < plast[p]

\* pipe_subloop_: the role of pipe p for its next id; ENTRY is tested first.
AtEntry(p) == (Tid(p) - 1) % NPipes = p
AtExit(p)  == ~AtEntry(p) /\ (Tid(p) - 1) % NPipes = (p + 1) % NPipes

\* n_inited_ or the pace of the pipe has come to the id.
Ready(p) == /\ Running(p)
            /\ IF AtEntry(p) THEN nInited >= Tid(p) ELSE pace[p] >= Tid(p)

\* The id is done here, and passed on unless this is its last pipe.
Advance(p) ==
    /\ pdone' = [pdone EXCEPT ![p] = Tid(p)]
    /\ pace' = IF AtExit(p) THEN pace
               ELSE [pace EXCEPT ![(p + 1) % NPipes] = Tid(p)]
    /\ UNCHANGED <<plast, phase>>

\* A handler after the first ends the task or moves down a level, to a node
\* no newer than the one above it.
Handle(s) ==
    \/ /\ op' = [op EXCEPT ![s] = DONE]
       /\ pastVer' = [pastVer EXCEPT ![s] = 0]
    \/ /\ op[s] + 1 < MaxOps
       /\ op' = [op EXCEPT ![s] = op[s] + 1]
       /\ \E v \in 0..pastVer[s] : pastVer' = [pastVer EXCEPT ![s] = v]

\* Handler 0 makes a new root, with the task's sno, from that of the id
\* before.
EntryTask(p) ==
    LET tid == Tid(p)  s == Slot(tid)  before == Slot(tid - 1) IN
    /\ Ready(p) /\ AtEntry(p) /\ op[s] # DONE
    /\ ctxRoot' = [ctxRoot EXCEPT ![s] = ctxRoot[before] \union {sno[s]}]
    /\ ctxRootVer' = [ctxRootVer EXCEPT ![s] = sno[s]]
    /\ \/ /\ op' = [op EXCEPT ![s] = DONE]
          /\ pastVer' = [pastVer EXCEPT ![s] = 0]
       \/ /\ op' = [op EXCEPT ![s] = 1]
          /\ pastVer' = [pastVer EXCEPT ![s] = ctxRootVer[before]]
    /\ Advance(p)
    /\ UNCHANGED <<counters, stages, sno, giving, workers, clients, monitor>>

InnerTask(p) ==
    LET s == Slot(Tid(p)) IN
    /\ Ready(p) /\ ~AtEntry(p) /\ ~AtExit(p) /\ op[s] # DONE
    /\ Handle(s)
    /\ Advance(p)
    /\ UNCHANGED <<counters, stages, sno, ctxRoot, ctxRootVer, giving,
                   workers, clients, monitor>>

\* ENTRY and INNER let a finished task and a bubble pass.
Pass(p) ==
    /\ Ready(p) /\ ~AtExit(p) /\ op[Slot(Tid(p))] = DONE
    /\ Advance(p)
    /\ UNCHANGED <<counters, stages, ctxs, giving, workers, clients, monitor>>

\* wait_stage: the version to be copied is committed, or the task that made
\* it has reached the stage.
StageReached(s, stage) ==
    \/ nCommitted >= pastVer[s]
    \/ stages[Slot(pastVer[s])] >= stage

\* Mutant: EXIT does not wait.
MutExitRun(p) ==
    LET s == Slot(Tid(p)) IN
    /\ Ready(p) /\ AtExit(p) /\ ~giving[p] /\ op[s] # DONE
    /\ Handle(s)
    /\ giving' = [giving EXCEPT ![p] = TRUE]
    /\ UNCHANGED <<counters, stages, sno, ctxRoot, ctxRootVer, pace, pdone,
                   plast, phase, workers, clients, monitor>>

ExitRun(p) ==
    LET s == Slot(Tid(p)) IN
    /\ Ready(p) /\ AtExit(p) /\ ~giving[p] /\ op[s] # DONE
    /\ StageReached(s, 1)
    /\ Handle(s)
    /\ giving' = [giving EXCEPT ![p] = TRUE]
    /\ UNCHANGED <<counters, stages, sno, ctxRoot, ctxRootVer, pace, pdone,
                   plast, phase, workers, clients, monitor>>

\* EXIT pops an idle worker, spinning while there is none; a worker gets the
\* id even when EXIT's handler was the last.
ExitGive(p) ==
    /\ Ready(p) /\ giving[p]
    /\ \E w \in avail :
         /\ avail' = avail \ {w}
         /\ wtid' = [wtid EXCEPT ![w] = Tid(p)]
    /\ giving' = [giving EXCEPT ![p] = FALSE]
    /\ Advance(p)
    /\ UNCHANGED <<counters, stages, ctxs, wlast, wjob, wstage, wpc, clients,
                   monitor>>

\* Mutant: EXIT leaves the stage of a finished task alone.
MutExitDone(p) ==
    /\ Ready(p) /\ AtExit(p) /\ ~giving[p] /\ op[Slot(Tid(p))] = DONE
    /\ Advance(p)
    /\ UNCHANGED <<counters, stages, ctxs, giving, workers, clients, monitor>>

ExitDone(p) ==
    /\ Ready(p) /\ AtExit(p) /\ ~giving[p] /\ op[Slot(Tid(p))] = DONE
    /\ stages' = [stages EXCEPT ![Slot(Tid(p))] = AllOnes]
    /\ Advance(p)
    /\ UNCHANGED <<counters, ctxs, giving, workers, clients, monitor>>

\* Between two batches the pipe goes on or, once stop_ is set, runs as many
\* whole rounds as cover n_submitted_ and leaves.
NextBatch(p) ==
    /\ phase[p] = "run" /\ pdone[p] = plast[p] /\ ~stop
    /\ plast' = [plast EXCEPT ![p] = plast[p] + BatchSize]
    /\ UNCHANGED <<counters, stages, ctxs, pace, pdone, phase, giving,
                   workers, clients, monitor>>

RoundUp(n) == n + ((NPipes - (n % NPipes)) % NPipes)

Drain(p) ==
    /\ phase[p] = "run" /\ pdone[p] = plast[p] /\ stop
    /\ plast' = [plast EXCEPT ![p] = RoundUp(nSubmitted)]
    /\ phase' = [phase EXCEPT ![p] = "drain"]
    /\ UNCHANGED <<counters, stages, ctxs, pace, pdone, giving, workers,
                   clients, monitor>>

PipeExit(p) ==
    /\ phase[p] = "drain" /\ pdone[p] >= plast[p]
    /\ phase' = [phase EXCEPT ![p] = "exited"]
    /\ UNCHANGED <<counters, stages, ctxs, pace, pdone, plast, giving,
                   workers, clients, monitor>>

-------------------------------------------------------------------------------
(* Workers *)

\* Mutant: the worker joins workers_available_ before it has run the task.
MutTake(w) ==
    /\ wpc[w] = "spin"
    /\ wtid[w] # wlast[w] /\ wtid[w] # NoTask
    /\ wjob' = [wjob EXCEPT ![w] = wtid[w]]
    /\ wpc' = [wpc EXCEPT ![w] = "exec"]
    /\ avail' = avail \union {w}
    /\ UNCHANGED <<counters, stages, ctxs, pipes, wtid, wlast, wstage, clients,
                   monitor>>

Take(w) ==
    /\ wpc[w] = "spin"
    /\ wtid[w] # wlast[w] /\ wtid[w] # NoTask
    /\ wjob' = [wjob EXCEPT ![w] = wtid[w]]
    /\ wpc' = [wpc EXCEPT ![w] = "exec"]
    /\ UNCHANGED <<counters, stages, ctxs, pipes, wtid, wlast, wstage, avail,
                   clients, monitor>>

\* One round of the loop waits for the stage after the one it will store.
Exec(w) ==
    LET s == Slot(wjob[w]) IN
    /\ wpc[w] = "exec" /\ op[s] # DONE
    /\ StageReached(s, wstage[w] + 1)
    /\ Handle(s)
    /\ wpc' = [wpc EXCEPT ![w] = "store"]
    /\ UNCHANGED <<counters, stages, sno, ctxRoot, ctxRootVer, pipes, wtid,
                   wlast, wjob, wstage, avail, clients, monitor>>

StoreStage(w) ==
    /\ wpc[w] = "store"
    /\ stages' = [stages EXCEPT ![Slot(sno[Slot(wjob[w])])] = wstage[w]]
    /\ wstage' = [wstage EXCEPT ![w] = wstage[w] + 1]
    /\ wpc' = [wpc EXCEPT ![w] = "exec"]
    /\ UNCHANGED <<counters, ctxs, pipes, wtid, wlast, wjob, avail, clients,
                   monitor>>

Finish(w) ==
    /\ wpc[w] = "exec" /\ op[Slot(wjob[w])] = DONE
    /\ stages' = [stages EXCEPT ![Slot(sno[Slot(wjob[w])])] = AllOnes]
    /\ wpc' = [wpc EXCEPT ![w] = "push"]
    /\ UNCHANGED <<counters, ctxs, pipes, wtid, wlast, wjob, wstage, avail,
                   clients, monitor>>

Push(w) ==
    /\ wpc[w] = "push"
    /\ wlast' = [wlast EXCEPT ![w] = wjob[w]]
    /\ avail' = avail \union {w}
    /\ wstage' = [wstage EXCEPT ![w] = 1]
    /\ wpc' = [wpc EXCEPT ![w] = "spin"]
    /\ UNCHANGED <<counters, stages, ctxs, pipes, wtid, wjob, clients, monitor>>

WorkerExit(w) ==
    /\ wpc[w] = "spin" /\ wtid[w] = NoTask
    /\ wpc' = [wpc EXCEPT ![w] = "exited"]
    /\ UNCHANGED <<counters, stages, ctxs, pipes, wtid, wlast, wjob, wstage,
                   avail, clients, monitor>>

-------------------------------------------------------------------------------
(* Monitor: n_inited_local and n_committed_local are nInited and nCommitted  *)
(* until the loop ends; mInited and mNext are n_inited_next and              *)
(* n_committed_next.  ReadCounters joins two loads as in Concow.             *)

ReadCounters ==
    /\ mpc = "top"
    /\ ~mStop \/ nCommitted < mSub
    /\ mStop' = stop
    /\ mSub' = nSubmitted
    /\ mpc' = "inited"
    /\ UNCHANGED <<counters, stages, ctxs, pipes, workers, clients, mInited,
                   mNext>>

InitedNext == mInited < mSub /\ stages[Slot(mInited + 1)] = 0

ScanInited ==
    /\ mpc = "inited" /\ InitedNext
    /\ mInited' = mInited + 1
    /\ UNCHANGED <<counters, stages, ctxs, pipes, workers, clients, mpc, mStop,
                   mSub, mNext>>

AdvanceInited ==
    /\ mpc = "inited" /\ ~InitedNext
    /\ nInited' = mInited
    /\ mpc' = "committed"
    /\ UNCHANGED <<nSubmitted, nCommitted, root, stop, stages, ctxs, pipes,
                   workers, clients, mStop, mSub, mInited, mNext>>

CommittedNext == mNext < mInited /\ stages[Slot(mNext + 1)] = AllOnes

ScanCommitted ==
    /\ mpc = "committed" /\ CommittedNext
    /\ mNext' = mNext + 1
    /\ UNCHANGED <<counters, stages, ctxs, pipes, workers, clients, mpc, mStop,
                   mSub, mInited>>

NothingCommitted ==
    /\ mpc = "committed" /\ ~CommittedNext /\ mNext = nCommitted
    /\ mpc' = "top"
    /\ UNCHANGED <<counters, stages, ctxs, pipes, workers, clients, mStop, mSub,
                   mInited, mNext>>

StoreRoot ==
    /\ mpc = "committed" /\ ~CommittedNext /\ mNext > nCommitted
    /\ root' = ctxRoot[Slot(mNext)]
    /\ mpc' = "root"
    /\ UNCHANGED <<nSubmitted, nInited, nCommitted, stop, stages, ctxs, pipes,
                   workers, clients, mStop, mSub, mInited, mNext>>

StoreCommitted ==
    /\ mpc = "root"
    /\ nCommitted' = mNext
    /\ mpc' = "top"
    /\ UNCHANGED <<nSubmitted, nInited, root, stop, stages, ctxs, pipes,
                   workers, clients, mStop, mSub, mInited, mNext>>

\* Mutants: bubbles only up to the end of the batch; the sign reversed.
MutMargin(n) == (BatchSize - (n % BatchSize)) % BatchSize
MutSignMargin(n) == -MutMargin(n) - BatchSize

\* "append bubbles to terminate the pipeline"
Margin(n) == BatchSize + ((BatchSize - (n % BatchSize)) % BatchSize) + NPipes

AppendBubbles ==
    /\ mpc = "top" /\ mStop /\ nCommitted >= mSub
    /\ nInited' = mInited + Margin(mInited)
    /\ mpc' = "exited"
    /\ UNCHANGED <<nSubmitted, nCommitted, root, stop, stages, ctxs, pipes,
                   workers, clients, mStop, mSub, mInited, mNext>>

-------------------------------------------------------------------------------
(* ~concow_cyclic(), called as in main.cpp: the clients are joined and       *)
(* wait_for_processing has returned for the number of their updates.         *)

Stop ==
    /\ ~stop
    /\ \A c \in Clients : cpc[c] = "idle"
    /\ nCommitted >= nSubmitted
    /\ stop' = TRUE
    /\ UNCHANGED <<nSubmitted, nInited, nCommitted, root, stages, ctxs, pipes,
                   workers, clients, monitor>>

StopWorkers ==
    /\ stop /\ mpc = "exited"
    /\ \A p \in Pipes : phase[p] = "exited"
    /\ \E w \in Workers : wtid[w] # NoTask
    /\ wtid' = [w \in Workers |-> NoTask]
    /\ UNCHANGED <<counters, stages, ctxs, pipes, wlast, wjob, wstage, wpc,
                   avail, clients, monitor>>

-------------------------------------------------------------------------------
Init ==
    /\ nSubmitted = 0 /\ nInited = 0 /\ nCommitted = 0 /\ root = {}
    /\ stop = FALSE
    /\ stages = [s \in Slots |-> AllOnes]
    /\ op = [s \in Slots |-> DONE]
    /\ sno = [s \in Slots |-> 0]
    /\ pastVer = [s \in Slots |-> 0]
    /\ ctxRoot = [s \in Slots |-> {}]
    /\ ctxRootVer = [s \in Slots |-> 0]
    /\ pace = [p \in Pipes |-> 0]
    /\ pdone = [p \in Pipes |-> 0]
    /\ plast = [p \in Pipes |-> 0]
    /\ phase = [p \in Pipes |-> "run"]
    /\ giving = [p \in Pipes |-> FALSE]
    /\ wtid = [w \in Workers |-> 0]
    /\ wlast = [w \in Workers |-> 0]
    /\ wjob = [w \in Workers |-> 0]
    /\ wstage = [w \in Workers |-> 1]
    /\ wpc = [w \in Workers |-> "spin"]
    /\ avail = Workers
    /\ cpc = [c \in Clients |-> "idle"]
    /\ ctid = [c \in Clients |-> 0]
    /\ mpc = "top" /\ mStop = FALSE /\ mSub = 0 /\ mInited = 0 /\ mNext = 0

Submitting(c) == Write(c) \/ Publish(c)

Pipe(p) == \/ EntryTask(p) \/ InnerTask(p) \/ Pass(p)
           \/ ExitRun(p) \/ ExitGive(p) \/ ExitDone(p)
           \/ NextBatch(p) \/ Drain(p) \/ PipeExit(p)

Worker(w) == \/ Take(w) \/ Exec(w) \/ StoreStage(w) \/ Finish(w) \/ Push(w)
             \/ WorkerExit(w)

Monitor == \/ ReadCounters \/ ScanInited \/ AdvanceInited
           \/ ScanCommitted \/ NothingCommitted \/ StoreRoot
           \/ StoreCommitted \/ AppendBubbles

Next ==
    \/ \E c \in Clients : Claim(c) \/ Submitting(c)
    \/ \E p \in Pipes : Pipe(p)
    \/ \E w \in Workers : Worker(w)
    \/ Monitor
    \/ Stop
    \/ StopWorkers

Spec == Init /\ [][Next]_vars

\* As in Concow: every thread runs on, and a client that is inside update();
\* nothing makes a client call or the owner destroy the scheduler.
Fairness ==
    /\ \A c \in Clients : WF_vars(Submitting(c))
    /\ \A p \in Pipes : WF_vars(Pipe(p))
    /\ \A w \in Workers : WF_vars(Worker(w))
    /\ WF_vars(Monitor)
    /\ WF_vars(StopWorkers)

FairSpec == Spec /\ Fairness

-------------------------------------------------------------------------------
(* Properties *)

\* Every variable keeps its type: op never passes DONE and n_inited_ never
\* falls below zero.
TypeOK ==
    /\ nSubmitted \in Nat /\ nInited \in Nat /\ nCommitted \in Nat
    /\ root \subseteq Nat
    /\ stop \in BOOLEAN
    /\ stages \in [Slots -> Nat]
    /\ op \in [Slots -> 0..DONE]
    /\ sno \in [Slots -> Nat]
    /\ pastVer \in [Slots -> Nat]
    /\ ctxRoot \in [Slots -> SUBSET Nat]
    /\ ctxRootVer \in [Slots -> Nat]
    /\ pace \in [Pipes -> Nat]
    /\ pdone \in [Pipes -> Nat]
    /\ plast \in [Pipes -> Nat]
    /\ phase \in [Pipes -> {"run", "drain", "exited"}]
    /\ giving \in [Pipes -> BOOLEAN]
    /\ wtid \in [Workers -> Nat \union {NoTask}]
    /\ wlast \in [Workers -> Nat]
    /\ wjob \in [Workers -> Nat]
    /\ wstage \in [Workers -> Nat]
    /\ wpc \in [Workers -> {"spin", "exec", "store", "push", "exited"}]
    /\ avail \subseteq Workers
    /\ cpc \in [Clients -> {"idle", "full", "publish"}]
    /\ ctid \in [Clients -> Nat]
    /\ mpc \in {"top", "inited", "committed", "root", "exited"}
    /\ mStop \in BOOLEAN
    /\ mSub \in Nat /\ mInited \in Nat /\ mNext \in Nat

Writing(c) == cpc[c] \in {"full", "publish"} /\ ~BufferFull(ctid[c])
HasTask(w) == wtid[w] \notin {NoTask, wlast[w]} /\ wpc[w] # "push"

\* A client that may fill a slot is alone there: no pipe that may proceed, no
\* worker and no scan of the monitor is at it, and the task after the last
\* one on it has taken its root over.
SlotExclusive ==
    \A c \in Clients : Writing(c) =>
        LET s == Slot(ctid[c]) IN
        /\ \A d \in Clients \ {c} : Writing(d) => Slot(ctid[d]) # s
        /\ \A p \in Pipes : Ready(p) =>
              /\ Slot(Tid(p)) # s
              /\ AtEntry(p) /\ op[Slot(Tid(p))] # DONE =>
                    Slot(Tid(p) - 1) # s
        /\ \A w \in Workers : HasTask(w) => Slot(wtid[w]) # s
        /\ \A t \in (nCommitted + 1)..mInited : Slot(t) # s

\* The pipes hand every id over once and no worker drops one: an id that left
\* its EXIT unfinished is held by exactly one worker, and a worker in
\* workers_available_ holds none.
TaskHasWorker ==
    /\ \A p \in Pipes : \A t \in (mNext + 1)..pdone[p] :
         \/ (t - 1) % NPipes # (p + 1) % NPipes
         \/ stages[Slot(t)] = AllOnes
         \/ \E w \in Workers :
              /\ wtid[w] = t /\ HasTask(w)
              /\ \A x \in Workers \ {w} : HasTask(x) => wtid[x] # t
    /\ \A w \in avail : ~HasTask(w)

\* The contract of the B-tree's handlers.  Handler k copies the children of a
\* node of version v and the keys of one child.  Version v may have made that
\* child too, and inserts keys into it in its handler k + 1 ("chs are copied
\* at next stage"): v is committed or has run that handler.
PastReady(s, v) ==
    \/ v <= nCommitted
    \/ sno[Slot(v)] = v /\ op[Slot(v)] >= op[s] + 2

HandlersInOrder ==
    [][\A s \in Slots : op'[s] > op[s] =>
          PastReady(s, IF op[s] = 0 THEN ctxRootVer[(s - 1) % BufferSize]
                                    ELSE pastVer[s])]_vars

\* The scheduler keeps the promise of its interface, and what was submitted
\* is committed; no id is a checkpoint's, hence a size no id is a multiple of.
OC == INSTANCE OrderedCommit WITH
        BufferSize <- MaxUpdates + 1,
        submitted <- nSubmitted, committed <- nCommitted, tree <- root
OrderedCommitSpec == OC!Spec
OrderedCommitFair == OC!FairSpec

\* "append bubbles to terminate the pipeline": when every pipe is inside the
\* batch of the next id as stop_ is set, the bubbles take each through its
\* roles to the end of the batch, and the joins return.
InLastBatch == \A p \in Pipes : phase[p] = "run" /\ plast[p] > nSubmitted
StopTerminatesInBatch ==
    (stop /\ InLastBatch) ~> /\ \A p \in Pipes : phase[p] = "exited"
                            /\ \A w \in Workers : wpc[w] = "exited"
===============================================================================
