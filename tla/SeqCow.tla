-------------------------------- MODULE SeqCow --------------------------------
(***************************************************************************)
(* The single-worker scheduler, lib/conctrl/seqcow.hpp.                    *)
(*                                                                         *)
(* Clients claim ids and fill the slot id % BufferSize of a ring of        *)
(* contexts; one worker runs the tasks in the order of their ids, each on  *)
(* the root of the one before, and publishes root_, then n_committed_.     *)
(*                                                                         *)
(* A claimed id is all the worker waits for: the fields of a context are   *)
(* written and read without an order between them (a data race), so the    *)
(* client's stores are actions of their own and a task runs with what it   *)
(* finds.                                                                  *)
(***************************************************************************)
EXTENDS Integers

CONSTANTS
    Clients,      \* the threads that call update()
    BufferSize,   \* BUFFER_SIZE
    MaxUpdates    \* bound: the number of calls of update()

ASSUME RingAssumption == BufferSize \in Nat /\ BufferSize >= 2
ASSUME BoundAssumption == MaxUpdates \in Nat

VARIABLES
    nSubmitted, nCommitted,   \* the shared counters
    root,                     \* root_: the updates in its tree
    stop,                     \* stop_
    key, val,                 \* fields of ctxs_: the id of the update whose
                              \* key and value they are, 0 at first
    ctxRoot,                  \* the updates in the tree of ctxs_[s].root
    cpc, ctid,                \* a client in update(), and its tid
    wpc, wStop, wSub, wNext,  \* the worker and its locals stop,
                              \* n_submitted_local and n_committed_next
    path                      \* the update whose key led the handlers down

ctxs   == <<key, val, ctxRoot>>
client == <<cpc, ctid>>
worker == <<wpc, wStop, wSub, wNext, path>>
vars   == <<nSubmitted, nCommitted, root, stop, ctxs, client, worker>>

Slots == 0..(BufferSize - 1)
Slot(tid) == tid % BufferSize

-------------------------------------------------------------------------------
(* update() *)

Claim(c) ==
    /\ cpc[c] = "idle" /\ ~stop /\ nSubmitted < MaxUpdates
    /\ nSubmitted' = nSubmitted + 1
    /\ ctid' = [ctid EXCEPT ![c] = nSubmitted + 1]
    /\ cpc' = [cpc EXCEPT ![c] = "full"]
    /\ UNCHANGED <<nCommitted, root, stop, ctxs, worker>>

\* Once the buffer is not full: op, flags, sno and key.  The worker never
\* reads op as the client left it: exec_task_ begins with handler 0 and goes
\* on with the value each handler returns.
StoreKey(c) ==
    /\ cpc[c] = "full"
    /\ ctid[c] < nCommitted + BufferSize
    /\ key' = [key EXCEPT ![Slot(ctid[c])] = ctid[c]]
    /\ cpc' = [cpc EXCEPT ![c] = "val"]
    /\ UNCHANGED <<nSubmitted, nCommitted, root, stop, val, ctxRoot, ctid,
                   worker>>

StoreVal(c) ==
    /\ cpc[c] = "val"
    /\ val' = [val EXCEPT ![Slot(ctid[c])] = ctid[c]]
    /\ cpc' = [cpc EXCEPT ![c] = "idle"]
    /\ UNCHANGED <<nSubmitted, nCommitted, root, stop, key, ctxRoot, ctid,
                   worker>>

-------------------------------------------------------------------------------
(* worker_main_ and exec_task_ *)

\* Mutant: the worker leaves only when it is ahead of n_submitted_.
MutGoesOn == ~wStop \/ nCommitted <= wSub

GoesOn == ~wStop \/ nCommitted < wSub

\* The two loads are one step: no id is taken once stop_ is set, and before
\* that the worker comes back for what it missed.
Load ==
    /\ wpc = "top" /\ GoesOn
    /\ wStop' = stop
    /\ wSub' = nSubmitted
    /\ wpc' = "next"
    /\ UNCHANGED <<nSubmitted, nCommitted, root, stop, ctxs, client, wNext,
                   path>>

Leave ==
    /\ wpc = "top" /\ ~GoesOn
    /\ wpc' = "exited"
    /\ UNCHANGED <<nSubmitted, nCommitted, root, stop, ctxs, client, wStop,
                   wSub, wNext, path>>

\* Mutant: the inner loop does not look at n_submitted_local.
MutMoreTasks == wNext <= nCommitted + BufferSize \div 2

\* The inner loop takes the next id, and leaves off past half a buffer.
MoreTasks == wNext < wSub /\ wNext <= nCommitted + BufferSize \div 2

\* The handlers on the way down search for the key they find.
Descend ==
    /\ wpc = "next" /\ MoreTasks
    /\ wNext' = wNext + 1
    /\ path' = key[Slot(wNext + 1)]
    /\ wpc' = "exec"
    /\ UNCHANGED <<nSubmitted, nCommitted, root, stop, ctxs, client, wStop,
                   wSub>>

\* The last one puts key and value into a copy of the tree of the id before.
Insert ==
    LET s == Slot(wNext) IN
    /\ wpc = "exec"
    /\ ctxRoot' = [ctxRoot EXCEPT ![s] = ctxRoot[Slot(wNext - 1)] \union
            {[id |-> wNext, path |-> path, key |-> key[s], val |-> val[s]]}]
    /\ path' = 0
    /\ wpc' = "next"
    /\ UNCHANGED <<nSubmitted, nCommitted, root, stop, key, val, client,
                   wStop, wSub, wNext>>

NothingDone ==
    /\ wpc = "next" /\ ~MoreTasks /\ wNext = nCommitted
    /\ wpc' = "top"
    /\ UNCHANGED <<nSubmitted, nCommitted, root, stop, ctxs, client, wStop,
                   wSub, wNext, path>>

\* Mutant: the root of the slot after the last task's.
MutStoreRoot ==
    /\ wpc = "next" /\ ~MoreTasks /\ wNext > nCommitted
    /\ root' = ctxRoot[Slot(wNext + 1)]
    /\ wpc' = "root"
    /\ UNCHANGED <<nSubmitted, nCommitted, stop, ctxs, client, wStop, wSub,
                   wNext, path>>

StoreRoot ==
    /\ wpc = "next" /\ ~MoreTasks /\ wNext > nCommitted
    /\ root' = ctxRoot[Slot(wNext)]
    /\ wpc' = "root"
    /\ UNCHANGED <<nSubmitted, nCommitted, stop, ctxs, client, wStop, wSub,
                   wNext, path>>

StoreCommitted ==
    /\ wpc = "root"
    /\ nCommitted' = wNext
    /\ wpc' = "top"
    /\ UNCHANGED <<nSubmitted, root, stop, ctxs, client, wStop, wSub, wNext,
                   path>>

\* ~seqcow(), as main.cpp calls it: after the clients' joins and
\* wait_for_processing.
Stop ==
    /\ ~stop
    /\ \A c \in Clients : cpc[c] = "idle"
    /\ nCommitted >= nSubmitted
    /\ stop' = TRUE
    /\ UNCHANGED <<nSubmitted, nCommitted, root, ctxs, client, worker>>

-------------------------------------------------------------------------------
Init ==
    /\ nSubmitted = 0 /\ nCommitted = 0 /\ root = {}
    /\ stop = FALSE
    /\ key = [s \in Slots |-> 0]
    /\ val = [s \in Slots |-> 0]
    /\ ctxRoot = [s \in Slots |-> {}]
    /\ cpc = [c \in Clients |-> "idle"]
    /\ ctid = [c \in Clients |-> 0]
    /\ wpc = "top" /\ wStop = FALSE /\ wSub = 0 /\ wNext = 0 /\ path = 0

Submitting(c) == StoreKey(c) \/ StoreVal(c)

Worker == \/ Load \/ Leave \/ Descend \/ Insert
          \/ NothingDone \/ StoreRoot \/ StoreCommitted

Next ==
    \/ \E c \in Clients : Claim(c) \/ Submitting(c)
    \/ Worker
    \/ Stop

Spec == Init /\ [][Next]_vars

\* The worker runs on, and so does a client inside update().
FairSpec == Spec /\ WF_vars(Worker) /\ \A c \in Clients : WF_vars(Submitting(c))
-------------------------------------------------------------------------------
(* Properties *)

Updates == [id : 1..MaxUpdates, path : 0..MaxUpdates,
            key : 0..MaxUpdates, val : 0..MaxUpdates]

TypeOK ==
    /\ nSubmitted \in 0..MaxUpdates /\ nCommitted \in 0..MaxUpdates
    /\ root \subseteq Updates
    /\ stop \in BOOLEAN
    /\ key \in [Slots -> 0..MaxUpdates] /\ val \in [Slots -> 0..MaxUpdates]
    /\ ctxRoot \in [Slots -> SUBSET Updates]
    /\ cpc \in [Clients -> {"idle", "full", "val"}]
    /\ ctid \in [Clients -> 0..MaxUpdates]
    /\ wpc \in {"top", "next", "exec", "root", "exited"}
    /\ wStop \in BOOLEAN
    /\ wSub \in 0..MaxUpdates /\ wNext \in 0..MaxUpdates
    /\ path \in 0..MaxUpdates

\* By their ids, the updates in the trees keep the promise of the schedulers:
\* readers see a prefix, waiters are told of what readers see, everything
\* submitted is committed.  (No id is reserved for a checkpoint here.)
OC == INSTANCE OrderedCommit WITH
        BufferSize <- MaxUpdates + 1, submitted <- nSubmitted,
        committed <- nCommitted, tree <- {u.id : u \in root}
OrderedCommitFair == OC!FairSpec
OrderedCommitSpec == OC!Spec

Ids(tree) == {u.id : u \in tree}

\* The worker's counters are in order between the ids committed and submitted.
CountersInOrder ==
    /\ nCommitted <= wNext /\ wNext <= wSub /\ wSub <= nSubmitted
    /\ wpc \in {"top", "exited"} => wNext = nCommitted
    /\ wpc \in {"exec", "root"} => wNext > nCommitted

\* The root the worker goes on from, and the one readers have, hold the updates
\* of all ids up to theirs and no other.
RootsInOrder ==
    /\ LET last == IF wpc = "exec" THEN wNext - 1 ELSE wNext
       IN  Ids(ctxRoot[Slot(last)]) = 1..last
    /\ Ids(root) = 1..(IF wpc = "root" THEN wNext ELSE nCommitted)

\* The inductive invariant: no id is skipped, run twice or dropped when root_
\* passes from slot to slot of the ring.
SeqInv == TypeOK /\ CountersInOrder /\ RootsInOrder

\* The destructor's join returns.
StopTerminates == stop ~> (wpc = "exited")

\* What readers get under an id is what the client of that id wrote.
ReadersGetUpdates ==
    \A u \in root : u.path = u.id /\ u.key = u.id /\ u.val = u.id
===============================================================================
