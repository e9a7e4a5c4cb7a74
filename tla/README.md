# Contrees: specifications and proofs

Contrees keeps ordered maps (B-tree, elastic B-tree, adaptive radix tree,
elastic radix tree) in memory and runs updates on them concurrently by *pipelined
copy-on-write*: every update makes a new version of the tree, several threads
build consecutive versions at the same time, and readers see whole versions
only.  This directory holds TLA+ modules of that program, TLC runs on small
instances, and theorems proved with TLAPS for every instance.

## The system

| component | state | operations | hard behaviour | what makes it correct |
|---|---|---|---|---|
| **concow** `lib/conctrl/concow.hpp` | ring of `BUFFER_SIZE` contexts `ctxs_` with a stage each (`stages_`), counters `n_submitted_`, `n_committed_`, `checkpoint_`, `root_`, the pace of each pipe, the `tid` of each worker | `update`, `query`, `wait_for_processing`, constructor, destructor; threads: pipes (ENTRY, INNER, EXIT), workers, monitor | clients publish out of order, workers finish out of order, slots are reused round the ring, workers wait for each other's stages, a checkpoint waits for a commit, shutdown | readers get whole prefixes of the updates; whoever was told that his update is processed finds it; no slot has two owners; no handler reads a node still being made; everything submitted commits |
| **mpsc_list** `lib/conctrl/mpsc_list.hpp` | intrusive list of idle workers: `head_`, `tail_`, a stub | `push` (many threads), `pop` (EXIT) | `push` links after it has exchanged `head_`; `pop` puts the stub back | a pushed worker is popped exactly once, pops come in order of the exchanges |
| **concow_cyclic** `lib/conctrl/concow_cyclic.hpp` | as concow; `n_inited_` instead of the pace of pipe 0, no checkpoint | the same; pipe p is ENTRY, INNER or EXIT by the id modulo the number of pipes | as concow; EXIT runs a handler itself after a wait | as concow |
| **seqcow** `lib/conctrl/seqcow.hpp` | the same ring and counters, one worker, no stages | `update`, `query`, `wait_for_processing` | the worker starts on an id as soon as it is taken | as concow |
| **btree, betree** `lib/trees/{btree,betree}` | nodes with a version (the `sno` of the task that made them), keys, children | `build`, `find`, `scan`, in-place update, handlers of the copy-on-write update; betree also `rebuild` | splits on the way down; the handler of a level runs once the task before it is past that level | the tree holds what the sequence of updates says |
| **art, aert** `lib/trees/{art,aert}` | nodes of four sizes, prefixes, leaves; aert splits nodes into halves | the same | growth of a node, fork of a prefix or leaf, shifts by whole words | the same |
| **adapters** `src/adapters` | none | tables of handlers, glue | none | what schedulers and trees agree on |
| **main driver** `src/main.cpp` | cursor into the transactions | builds a tree, starts clients, joins them, waits, destroys the scheduler | number of updates against number of ids | all updates are applied |
| **primitives** `lib/conctrl/common.hpp`, **arrays and types** `lib/common` | - | plain loads and stores with compiler fences; copy loops | memory order | atomic, in-order on x86-64 |
| **configuration, log, timer** `src/config.hpp`, `utils` | - | argument parsing, printing | - | - |
| **ycsbc** `ycsbc` | vendored workload generator | writes the data set file | - | - |

How they meet: `main.cpp` starts client threads that call `update` and `query`
of one scheduler.  The scheduler owns all other threads and calls the tree
through the table `T::handlers`: handler 0 (INIT) on ENTRY, one more handler on
each INNER pipe, the rest on a worker.  A handler copies one level of the past
version and leaves `t_past` at the node below; it needs that node to be
finished, and that is what the stages are for.

## Modules

| module | models |
|---|---|
| `OrderedCommit` | what a scheduler promises its callers, without threads or slots |
| `Concow` | `concow.hpp`, whole: one action per step of a client, pipe, worker, the monitor and the destructor; the properties |
| `ConcowInductive` | the inductive invariant of `Concow`, in named parts |
| `ConcowProofs` | its proof, and the safety invariants that follow from it |
| `ConcowOrder` | what has to hold besides, about handlers, stages and versions |
| `ConcowOrderProofs` | the proofs about roots, handlers and stages: that `Concow` implements `OrderedCommit`, that handlers wait long enough and that rebuilds are alone |
| `IdleQueue` | what the list of idle workers promises: a queue |
| `MpscList` | `mpsc_list.hpp`, one action per access to shared memory |
| `MpscListProofs` | its chain of nodes, and that it implements `IdleQueue` |
| `SeqCow` | `seqcow.hpp`, on the promise `OrderedCommit`, with its inductive invariant |
| `SeqCowProofs` | its proof, and that `SeqCow` implements `OrderedCommit` |
| `ConcowCyclic` | `concow_cyclic.hpp`, whole, on the promise `OrderedCommit` |
| `ConcowCyclicInductive` | the inductive invariants of `ConcowCyclic`, in named parts |
| `ConcowCyclicProofs` | the proof of the first, about ids, slots and threads, and what follows from it |
| `ConcowCyclicOrderProofs` | the proof of the second, about handlers, stages and roots, and that `ConcowCyclic` implements `OrderedCommit` |
| `TreeHeap` | the memory that versions share, contexts of tasks |
| `BTreeCow` | `trees/btree`: the handlers of the copy-on-write update |
| `BTree` | build, find, scan and the update in place of `trees/btree`, on nested nodes |
| `BeTreeCow` | `trees/betree`, on `BTreeCow`: the handlers of the upper part and of elastic subtrees |
| `BeTree` | build, rebuild, queries and the update in place of `trees/betree` |
| `ArtCow` | `trees/art`: digits, growth, forks, the handlers |
| `Art` | build, queries and the update in place of `trees/art` |
| `AertCow` | `trees/aert`: half digits, halves, bits embedded in pointers, the handlers |
| `Aert` | build, queries and the update in place of `trees/aert` |
| `TreeTasks` | tasks of one of the trees in every order that the schedulers keep, on the memory they share; that they write their own nodes only |
| `TreeInductive` | the inductive invariant of `TreeTasks`, in named parts |
| `HandlerProofs` | what the handlers of the B-trees and of art leave behind, from memory and context they find |
| `TreeProofs` | the same for aert, the steps of the tasks, and the theorems |
| `Trees` | `adapters` and the loop of `inplace`: the tasks of `TreeTasks` on whole trees, built, rebuilt and read; the properties of versions |
| `MCConcow`, `MCConcowCyclic`, `MCMpscList`, `MCSeqCow`, `MCTrees` | thread sets, symmetry and data sets for TLC |

### Concow and the code

*Contexts.*  `op`, `waitChild`, `newCheckpoint`, `sno`, `ctxRoot`,
`ctxRootVer`, `pastVer` are the fields `op`, `wait_child`, `new_checkpoint`,
`sno`, `root`, `root->ver` and `t_past->ver` of `ctxs_[slot]`.  A root is
represented by the set of updates it holds, an update by its id.  `cno` only
caches `n_committed_` for `wait_stage`; it is merged into `StageReached`, whose
test is over the current counter (the loop reloads it until the wait ends).

*Handlers.*  `op` counts the handlers a task has run, with `DONE` at the end.
`Handle` lets a handler end the task or go one level down to a node `Below` the
present one; handler `Boundary` sets `wait_child` (a node at the elastic part's
boundary in betree, the only tree that sets it), the next may set `new_checkpoint`.  `retry` and
`wait_subtree` are read by `concow.hpp` and never set by any tree, so they are
left out together with the code they guard (`wait_version` in a worker).

*Actions.*

| code | actions |
|---|---|
| `update` 265-284 | `Claim`, `Enter`, `PublishCheckpoint`, `Write`, `Publish` |
| `pipe_entry_iter_` 79-99 | `EntryCheckpoint`, `EntrySkip`, `EntryTask`, `EntryBubble` |
| `pipe_inner_iter_` 101-110 | `InnerTask`, `InnerPass` |
| `pipe_exit_iter_` 112-122 | `ExitHandOff`, `ExitDone` |
| `pipe_main_` 126-141 | `NextBatch`, `Drain`, `PipeExit` |
| `worker_main_`, `worker_exec` 143-169 | `Take`, `Exec`, `StoreStage`, `Finish`, `Push`, `WorkerExit` |
| `monitor_main_` 171-208 | `ReadCounters`, `ScanInited`, `AdvanceInited`, `ScanCommitted`, `NothingCommitted`, `StoreRoot`, `StoreCommitted`, `AppendBubbles` |
| destructor 241-252 | `Stop`, `StopWorkers` |

Actions are cut where another thread can see the difference: at each store to
shared memory and at each wait.  A pipe's iteration is one action because
nothing between the slot's arrival and the pipe's advance is readable by a
thread that is not waiting for that advance, except the stage of a finished
task, which `ExitDone` stores last.  `query` is one load of `root_` and needs no
action: what it may see is stated by `RootComplete` and `OrderedCommit`.

*Abstractions.*  Memory is sequentially consistent (the code's stores are
releases in program order on x86-64).  `PublishCheckpoint` joins the two stores to a
checkpoint's slot with the `fetch_add` that follows (269-274): the id the client
takes next is its own whether the slot is seen before or after it.  `workers_available_` is a set, from which
EXIT takes any worker; `MpscList` shows that the list is a queue, and that a
worker whose push is half done is merely not found yet.  64-bit counters and their 32-bit
copies `sno`, `ver` and `cno` do not wrap.  `ReadCounters` joins two loads:
the destructor runs after all clients have returned, so once `stop_` reads true
`n_submitted_` is constant, and before that an earlier value only makes the
monitor's round shorter.  `Stop` is guarded as `main.cpp` calls it (49-50, 100):
clients joined, `wait_for_processing` returned for the number of updates, which is
less than the number of ids once a checkpoint slot was used.

### ConcowCyclic and the code

The clients, workers and monitor of `concow_cyclic.hpp` are those of `concow.hpp`
without checkpoints, and the variables have the same names; `nInited` is
`n_inited_`, which takes the place of the pace of pipe 0.  What differs is the
pipes: there is one more than `-p` says (`N_PIPES = P+1`, `concow_cyclic.hpp:16`; the
repository's `README.md:34`), hence always an ENTRY and an EXIT (`PipesAssumption`).
The template recursion `pipe_subloop_` unrolls a round of `N_PIPES` ids, in which pipe p is ENTRY for the p-th (from 0), EXIT for the one after (mod
`N_PIPES`) and INNER for the rest, which `AtEntry` and `AtExit` compute from the id.

| code | actions |
|---|---|
| `update` 255-269 | `Claim`, `Write` (with the spin at the full ring), `Publish` |
| `process_entry` 67-74 | `EntryTask`, `Pass` |
| `process_inner` 76-82 | `InnerTask`, `Pass` |
| `process_exit` 84-97 | `ExitRun` (the wait and the handler), `ExitGive`, `ExitDone` |
| `pipe_main_` 126-137 | `NextBatch`, `Drain` (whole rounds: `RoundUp`), `PipeExit` |
| `worker_main_` 139-160 | `Take`, `Exec`, `StoreStage`, `Finish`, `Push`, `WorkerExit` |
| `monitor_main_` 162-196 | as in `Concow` |
| destructor 231-242 | `Stop`, `StopWorkers` |

EXIT is two steps, since it may spin for an idle worker after its handler has
changed the context (`giving`), and it gives the worker even a task that this
handler has ended.  A handler of the B-tree copies the children of a node and the
keys of one child (`btree/node.hpp:84`: "chs are copied at next stage"), so here a
task must be two handlers behind the version it copies, against one in `Concow`.
`OrderedCommit` is used with a `BufferSize` above all ids, as none is a
checkpoint's.

### MpscList and SeqCow

`MpscList` has `head_`, `tail_`, the field `next` of every node and, per node,
where its push is (`busy`: the worker has a task; `exchange`, `link`: between the
stores of `push`; `listed`).  The consumer's `cpc` says which read of `pop`
comes next.  The local `tail` of `pop` is always `tail_`, and `next` is the value just read, so they
need no variables.  `chain` is a history variable: the nodes from `tail_` on, in
the order of their exchanges; no guard reads it.

`SeqCow` splits `update` at the stores of key and value and a task into its way down
and its insertion, since nothing orders these against each other.  `op` is left
out: `exec_task_` starts with handler 0 whatever the field holds, and compiled
with the Makefile's `-O3` it goes on with the value just returned, in a register.

### The trees and the code

*Memory.*  A node is a record; `heap` maps identities to nodes, and an identity
`<<sno, n>>` holds the version `node::ver` that `wait_stage` asks for.  `type`,
`keys`, `vals`, `chs`, `verge`, `height` (B-trees) and `ofs`, `len`, `pfx`, `val`,
`emb` (radix trees; `emb` are the bits embedded in the pointers `chs`) are the fields of
the code.  `size` is the length of `keys`.  A node whose children are still to be copied has
`chs = <<>>`: a handler that descends it follows a pointer nobody wrote, which
ends the run in `WILD`.  The value of an update is its id, an initial value 0;
`Unwritten` is what memory holds that nobody wrote.

*Handlers.*  One operator per handler (`HandleInit`, `HandleSearchDown`, ...), from
memory and context to memory and context, with the helpers of the code below it
(`update_cow`, `split`, `copych`, `create_upper_half`, ...).  A handler is one
action of `TreeTasks`: the code between two stores of a stage.  Build, queries and the
update in place work on nested nodes, as no other thread sees them.  They recurse, and the
handlers do not: the modules `...Cow` and `TreeTasks` are free of recursion, so that theorems can be
proved of them.

| `trees/` | operators |
|---|---|
| `*/handlers.hpp`, `*/update_cow.hpp` | `Handle...`, `UpdateCow`, `UpdateUpperCow`, `CopyChild`, `ForkNode`, `UpperHalf`, `LowerHalf` |
| `*/update_inplace.hpp` | `UpdateRoot`, `UpdateInternal`, `UpdateInplace` |
| `*/build.hpp` | `Build`, `BuildSorted`, `BuildInternal`, `Chunk` |
| `*/query.hpp` | `Find`, `Scan`, `ScanSearch`, `ScanAppend`, `Elements` |
| `betree/rebuild.hpp` | `Rebuild`, `Unfold`, `Leftmost` |
| `*/node*.hpp`, `art/leaf.hpp`, `aert/leaf.hpp` | `InsertChild`, `AppendKey`, `PrefixMatch`, `FindIdx`, `Halves`, ... |

*Scheduler.*  `TreeTasks` takes from `Concow` and `ConcowCyclic` the order they keep
(`HandlersInOrder` there) and leaves their threads out.  `pipes` is `cfg.num_pipes`, which
either scheduler takes as the number of pipes that run a handler without asking for a
stage: ENTRY and the INNER ones.  EXIT of `concow` runs none; that of `concow_cyclic` waits
like a worker does and is one here.  `Entry` runs INIT with the
root of the id before; `InnerPipe` a handler in a pipe, behind the tasks before
it (`AfterOthers`); `Worker` one after `wait_stage` (`StageReached`).  `wait_child`,
which makes the wait longer, is the one the handlers of betree set.  A version is committed as soon as all ids
before it are done.  `CheckpointSkip` and `CheckpointNodes` are the two outcomes
at a checkpoint id; the monitor may see a request of `new_checkpoint` at once or up to a
buffer of ids later.  What a rebuild keeps is planted as new nodes of version 0,
where the code keeps the old ones; they are of committed tasks, so nobody waits for
either.

*Whole trees.*  `TreeTasks` leaves open what a build or a rebuild makes: any nodes of
version 0 that lead to one another (`Built`).  `Trees` says what they are: `Init` plants the tree `Build` makes,
`CheckpointRebuild` that of `Rebuild`.  Its run checks that it implements `TasksSpec`, so the
theorems about `TreeTasks` hold of it as far as that check goes.

*Abstractions.*  Shifts and masks of the radix trees are division and remainder
by the radix; searches by vector instructions are searches; loops that copy
children are the sequences they build.

## Properties and runs

`BufferSize` is 4 and `BatchSize` 2 in every run of `Concow`: the smallest ring in which
ids pass the end of the ring, meet a checkpoint id (4), and span three batches.
The code's proportion is 16 batches to the ring; the theorems need
`BufferSize >= 2 * BatchSize` only.  `MaxUpdates` bounds the calls of `update`,
`MaxOps` the handlers of a task.  `CHECK_DEADLOCK FALSE`: the system stops after
its destructor, and a client need not call again.  Threads are symmetric where
no temporal property is checked under fairness.

| run | instance | checks |
|---|---|---|
| `concow_clients` | 2 clients, ENTRY, INNER, EXIT, 1 worker, 4 updates (ids to 5) | `SlotExclusive`: a client alone has the slot it fills; `EntryMeetsInit`: ENTRY meets what the client wrote, bubbles meet finished contexts; `RootComplete`: readers get a finished prefix; `OrderedCommitSpec`: refinement of `OrderedCommit` |
| `concow_workers` | 1 client, ENTRY, EXIT, 2 workers, boundary node at handler 0, 4 updates | `RootInv`, `OrderInv`: the inductive invariants of the proofs; `TypeOK`; `TaskHasWorker`: no task is dropped or held twice; `HandlersInOrder`: a handler runs only when the version it copies is finished at that level; `RebuildAlone`: a rebuild meets committed nodes only |
| `concow_radix` | 1 client, ENTRY, INNER, EXIT, 2 workers, tasks of up to 5 handlers, no boundary node (`Boundary = MaxOps`), so nobody sets `wait_child` | `HandlersInOrder` and `OrderInv` where workers wait for one stage after the other of the task before, never for its end |
| `concow_live` | 1 client, ENTRY, EXIT, 1 worker, ids to 5, fairness | `OrderedCommitFair`: everything submitted commits, through a full ring and a checkpoint; `StopTerminatesInBatch`: the shutdown ends when every pipe is inside the batch of the next id |
| `concow_stop` | the same, 2 updates | `StopTerminates` fails, see below |
| `mpsc_list` | 4 workers and EXIT, fairness | `ListInv`: the chain of nodes holds together; `QueueSpec`, `QueueFair`: it is a queue, and every worker is popped in the end; `PopAfterPush`: only after its push and the push behind it have ended |
| `seqcow` | 2 clients, ring of 2, 4 updates, fairness | `SeqInv`: the inductive invariant; `TypeOK`; `OrderedCommitFair`: by their ids updates are committed in order, all of them; `StopTerminates`: the destructor returns |
| `seqcow_race` | the same | `ReadersGetUpdates` fails, see below |
| `cyclic` | 1 client, 3 pipes, 2 workers, ring of 4, 5 updates, tasks of up to 5 handlers | `SlotExclusive`, `TaskHasWorker` as above; `HandlersInOrder`: a handler runs only when the version it copies is two handlers ahead |
| `cyclic_live` | 1 client, 3 pipes, 1 worker, 4 updates, fairness | `OrderInv`: the inductive invariant of `ConcowCyclic`; `TypeOK`; `OrderedCommitFair`; `StopTerminatesInBatch` with the longer row of bubbles |
| `trees` | each tree, 2 or 3 data sets each, ids to 5 (betree 13), a ring of 4, 1 and 2 pipes, B = 2, E = 0 | `VersionsHoldUpdates`: every committed version has the initial elements and the updates up to its id; `VersionsWellFormed`: and is a well-formed tree, no node of it over its capacity; `CommittedFrozen`: and stays as it is; `HandlersOnNodes`: no handler reads a node before it is made; `QueriesAgree`: find and scan find what the version holds; `GrowthAsksRebuild`: a task asks for a checkpoint exactly when it makes a subtree grow above `E`, and a rebuild leaves none above it; `InPlaceAgrees`: the update in place makes a tree of the same elements; `CowInv`: the inductive invariant of `TreeTasks`; `OwnNodesWritten`: a handler writes nodes of its own task only; `TasksSpec`: build and rebuild are those `TreeTasks` allows; `TypeOK` |
| `aert_split` | aert, 1 pipe, otherwise as `trees` | `SplitGetsNode` fails, see below |

The instances are small in threads, not in situations: four updates are five
ids, so the run has a full ring, a client that waits at it, a checkpoint slot
published by a client that claims again, a slot reused by the next round, and a
root carried over the checkpoint.  Two of each thread is where races start;
the theorems cover more.

`cyclic` and `cyclic_live` have three pipes, the fewest with an INNER role, a
batch of one round, and a ring of 4, so that the roles come round, ids reuse slots
and the ring is no multiple of the round.  Their workers run up to two handlers
in `cyclic` and one in `cyclic_live`.

Four workers let `mpsc_list` have one worker in the list, one in hand and two in
their pushes around the stub's; its states are finite without a bound.  In
`seqcow` a ring of 2 is used twice.

In `trees` a node of a B-tree has at most 3 keys; a key of art has 3 digits of radix 6 and the
capacities are 2, 3 and 4; one of aert has 4 half digits of radix 3.  These are the smallest
at which every node type, split, fork and growth happens.  The data sets in `MCTrees` are
chosen for them: each says what it reaches.  An id updates one of one or two
keys, so that the keys of a run vary while updates overlap; the orders of their handlers all do.

*Fairness.*  Weak fairness of each thread's steps: threads spin, the operating
system runs them, and no thread waits for a lock.  `Claim` and `Stop` have none:
nothing makes a client call or the owner destroy.  A client inside `update` is
fair.  `pop` is called again when it returns nullptr (`concow.hpp:118`), and a push
that has begun goes on; nothing makes a worker finish.  Strong fairness is never needed: what a thread waits for stays true until
it acts.

### A shutdown that does not end

`concow.hpp:205` says "append bubbles to terminate the pipeline".  Pipes test
`stop_` only between batches (131).  A pipe that stands exactly between two
batches when the destructor sets `stop_` leaves its loop, drains up to
`n_submitted_` and returns without passing the bubbles on.  If a later pipe has
begun the next batch already, it waits for an id of that batch for ever, and the
join at 247 does not return.  `concow_stop` shows it: after as many ids as a batch
has, EXIT starts its next batch, `stop_` is set, ENTRY leaves.  Data is not
affected: every update is committed by then.  `StopTerminatesInBatch` states when
the comment is right.  The pipes of `concow_cyclic` test `stop_` in the same place
(`concow_cyclic.hpp:131`), and there each pipe waits for another, so the same
condition is needed.

### A task that runs before it is written

`seqcow` has no flag like the 0 that `concow.hpp:282` stores "to indicate the context
is inited": `update` raises `n_submitted_` (`seqcow.hpp:96`) and then fills the
context (100-104), and the worker runs every id below `n_submitted_` (53-54).  `seqcow_race`
shows a task that runs with the key and value its slot had before (0 at first).
The client's update is lost, `wait_for_processing` returns all the same, and by then
the next client may be filling the same slot.  The scheduler is the baseline of
the benchmark, where the window is a few stores wide.

### A split behind a pointer with bits

A pointer of aert may carry a half digit in its low bits.  `update_cow` embeds the bits
of the old pointer in the new one, also before it returns SPLIT
(`aert/update_cow.hpp:80-81`).  `handle_search`, `handle_insert` and `handle_fork` take them
out (`extract_ptr`) before they follow `t_cur`; `handle_split` does not
(`aert/handlers.hpp:32`, 35).  `findch`, `append` and `insertch` then switch over a byte that
is no type; for that there is the `default: /* assert(false); */` of
`node_wrapper.hpp:37`.  `SplitGetsNode` says that SPLIT gets a node, and `aert_split` shows
one task, in a tree as it was built and with one pipe, for which it does not.  The handler has no
result in the model in that case (`SplitBehind` below).

### What the trees do not keep

The properties of `trees` hold for the code but for the cases below, which they
name and exempt: nothing in the repository says otherwise of any but the split, so they are stated
here and not as runs that fail.  No passing property covers these hazards, then.  A task that follows a pointer
nobody wrote ends the behaviour, as what comes after is undefined; the others go on.

| case | where | exempted as |
|---|---|---|
| An update of a key that is there copies its leaf with `memcpy(t_new, t, 128)`, which ends before the values: the other values of the leaf are lost | `btree/node.hpp:65`, `betree/node.hpp:69` | `MayBeLost`, the values of keys near enough to the one updated to share a leaf with it |
| A root that is a leaf and does not split falls through to the code for inner nodes, as the `return` is inside the braces of the `else` | `btree/handlers.hpp:14-18` | `LeafRoot` |
| `leaf_over_boundary` looks at the leftmost path only; `unfold_upper_part` then takes the values of another leaf for children | `betree/rebuild.hpp:56-61` | `LeafInUpper` |
| `node_fork_cow` masks the prefix of a leaf it moves down, from which scan returns the key: its first digits become 0 | `art/update_cow.hpp:17` | `MayBeMasked` |
| SPLIT takes `t_cur` for an address, with the bits embedded in it | `aert/handlers.hpp:29-37` | `SplitBehind`; run `aert_split` |
| Between the two handlers of a split the upper half has the shared half digits only, and the task behind is let through to it | `aert/update_cow.hpp:80` | `SplitTooSoon` |
| scan compares embedded bits with the half digit behind theirs, if they differ from the key | `aert/query.hpp:72` | `Misled`: scans from a key that is not there, whose way meets such bits |

## Proofs

Assumed of the constants: the ring of `Concow` has at least two batches, that of
`ConcowCyclic` one and that of `SeqCow` two contexts, a batch has at least one id, there is a
pipe besides EXIT, a task has more handlers than pipes that run one and
fewer than `DONE`.  `ConcowCyclic` has two pipes at least, an ENTRY and an EXIT, as `N_PIPES` is
one more than `-p`.  Nothing is assumed of the numbers of clients and workers, nor of
`Boundary`.

Assumed of the trees: `B` is at least 2 (a split leaves a key on either side), there is a
pipe (`config.hpp:78` makes 1 of 0) and there are two slots at least, keys are natural numbers, a radix is at least 2, a key of aert has an even number of
half digits (`AertDigits % 2 = 0`), and powers of a radix are positive (`PowersAssumption`: arithmetic
the provers do not know; TLC evaluates it).  Nothing is assumed of the number of keys, of ids, of the capacities or of `E`.

*Concow, where an id is.*  No safety property of `Concow` is inductive: whether a slot is
free depends on where the id that used it last has come to.  `IInv` therefore
follows the window of ids `nCommitted .. nCommitted + BufferSize - 1`, one id
per slot (`SlotInjective`).  `CountersInOrder` orders the counters, so
that an id is submitted, inited, in the pipes, found finished, committed, in this
order.  `PublishedSlots` and `VacantSlots` say what a slot holds by how far its
id has come, `ClientsInOrder` and `WorkersInOrder` who may be at it,
`StopInOrder` that the shutdown leaves nothing behind.  There is one lemma per
action; `Invariance` combines them.

*Concow, what readers get.*  `RootsInOrder` adds what the roots hold: the context of an id
that left ENTRY has the updates up to that id, and `root_` a prefix.  With it each
step of `Concow` is a step of `OrderedCommit` or leaves its variables alone:
`Claim` and `PublishCheckpoint` submit, `StoreRoot` exposes (or stutters when a
checkpoint adds nothing), `StoreCommitted` commits.

*Concow, how far the handlers are.*  `wait_stage` compares a stage with a number the reader
counts for itself, so `HandlersInOrder` needs to know what a stage says about the
`op` of the task it belongs to.  `OrderInv` says it: while a task has handlers left,
`op` is the number of pipes it passed (`Level`, which stands still behind the
boundary, where the pipes stop) plus what its worker has counted in
`local_stage` (`StagesInOrder`), and the stage is never ahead of that (`TaskInOrder`).
The version a task copies is older than the task (`pastVer[s] < t`), therefore committed
or in the window, where its slot is its own.  For `RebuildAlone`,
`VersionsInOrder` says that no root in the window is newer than its id, so that
the version ENTRY has waited for covers all that the tree before the checkpoint holds.

*ConcowCyclic.*  Every id has its own order of the pipes: `Seat(t)` is the pipe that is
ENTRY for `t`, `Pos(t, p)` the number of pipes that `t` passes before `p`.  `PipesInOrder`
says that a pipe has passed an id only if all pipes that come first for that id have;
an id has left the pipes when all of them have passed it (`Exited`).  With this
`IInv` is the one of `Concow` otherwise, without checkpoints.  Bubbles need
another argument: here they may go round the ring more than once, since pipes drain whole rounds, so
`StopInOrder` says that from `stop_` on every context is finished and every stage all
ones, and a lap too many changes nothing.  `OrderInv` adds `RootsInOrder`, that a task
has run one handler in each pipe it has passed, and that between EXIT's handler and the
hand-over (`giving`) all the pipes' handlers have been run (`HandOversInOrder`).
`HandlersInOrder` asks for two handlers between a task and the version it copies.  Take
INNER pipe p at place `k` of the order of `u`, and an earlier id `v`, which p has passed.
If `k + (u - v)` is a place, it is that of p in the order of `v` (`PosEarlier`), and `v` has
run a handler there and at every place before.  If not, p was EXIT for an id between
`v` and `u`; that one and `v` have then left the pipes, with one handler in each.
EXIT and the workers wait for a stage, and a stage stands for that many handlers past the pipes.

*SeqCow.*  `SeqInv` says that the root of the last task holds exactly the ids up to
its own, and `root_` those up to the id the worker publishes; the worker's next root is never
overwritten as it is alone in writing `ctxRoot`.  It holds by ids, whatever was in the
contexts when the worker read them, and so does `KeepsPromise`: the race of `seqcow_race`
puts a wrong update under an id, and never skips or repeats one.

*List.*  `ListInv` says that `chain` runs from `tail_` to `head_` through distinct
nodes, each linked to the next or about to be linked by the push of the next,
and that the stub is outside when `pop` pushes it.  The queue is the chain without the stub
(`WithoutStub`, a function without recursion); lemmas say what appending or
dropping an end of the chain does to it.

*Trees, what a task finds.*  Between two handlers of a task others write: the tasks before it go on
with the nodes it was copied from, and those behind make copies of its own.  That a handler writes only
nodes of its own task is not inductive, since handlers write through pointers: a FORK
puts children into a node it finds below `t_cur`, a split into two of them.  `CowInv` says what there is to
find.  `NodesMade`: the nodes of a task are numbered without a gap, so `Alloc` never gives an identity twice.
`PointersBack`: a node leads to nodes of its own version and earlier ones.  `NodesFit`: in the
radix trees a node stands at the offset of the key that those leading to it say, with the bits
embedded in the pointer counted; in aert half digits are embedded only where they make a whole
digit, and a node without a prefix is the only one that starts inside a digit.  `TasksHold`: `cur` is the task's own,
`past` of an earlier version, and the two agree as the next handler relies on (`CopiesBTree`, `ArtTask`,
`AertTask`): a copy has no more keys than the original, which may have got more since but never less; the old node below a
fork ends where it ended before; the halves of a split are those of the keys of the full node and
the new one, and wait for their children.

There is one lemma per handler, all with the same conclusion, `Leaves`: the memory is
still one of nodes that fit, it has grown by nodes of this task only, it differs at nodes of this task only, nodes keep their
types and offsets, and the context is one that `TasksHold` allows.  `Lasts` carries what the other
tasks rely on across such a step.  `DoneVersionsFrozen` puts `PointersBack` and `OwnNodesWritten` together:
what a finished version leads to is closed under pointers and nobody writes it, which is `CommittedFrozen` without the
recursion over the tree.

The cases in which handlers follow what was never written (the table above) end the behaviour in `WILD`; the
theorems say nothing of what the memory looks like after that, and `HandlersOnNodes`, that there are no other
cases, is model-checked only.

| module | theorem | says |
|---|---|---|
| `ConcowProofs` | `TypeCorrect` | `Spec => []TypeOK` |
| | `Invariance` | `Spec => []IInv` |
| | `SlotExclusion` | `Spec => []SlotExclusive` |
| | `EntryCorrect` | `Spec => []EntryMeetsInit` |
| | `TaskOwnership` | `Spec => []TaskHasWorker` |
| `ConcowOrderProofs` | `RootInvariance` | `Spec => []RootInv` |
| | `ReadersGetPrefix` | `Spec => []RootComplete` |
| | `KeepsPromise` | `Spec => OrderedCommitSpec`: refinement |
| | `OrderInvariance` | `Spec => []OrderInv` |
| | `HandlerOrder` | `Spec => HandlersInOrder`, for every `Boundary` |
| | `RebuildsAlone` | `Spec => RebuildAlone` |
| `ConcowCyclicProofs` | `TypeCorrect` | `Spec => []TypeOK` |
| | `Invariance` | `Spec => []IInv` |
| | `SlotExclusion` | `Spec => []SlotExclusive` |
| | `TaskOwnership` | `Spec => []TaskHasWorker` |
| `ConcowCyclicOrderProofs` | `OrderInvariance` | `Spec => []OrderInv` |
| | `HandlerOrder` | `Spec => HandlersInOrder` |
| | `KeepsPromise` | `Spec => OrderedCommitSpec`: refinement |
| `SeqCowProofs` | `Invariance` | `Spec => []SeqInv` |
| | `TypeCorrect` | `Spec => []TypeOK` |
| | `KeepsPromise` | `Spec => OrderedCommitSpec`: refinement |
| `MpscListProofs` | `ListCorrect` | `Spec => []ListInv`, for any number of workers |
| | `PopsAfterPush` | `Spec => PopAfterPush` |
| | `IsQueue` | `Spec => QueueSpec`: the list implements `IdleQueue` |
| `TreeProofs` | `CowInvariant` | `TasksSpec => []CowInv`, for all four trees |
| | `OwnNodesAreWritten` | `TasksSpec => OwnNodesWritten` |
| | `DoneVersionsFrozen` | `TasksSpec => DoneVersionsStay` |

The safety properties of the schedulers and the list are thus all proved, but
`ReadersGetUpdates` of `SeqCow`, which the code breaks.  Model-checked only:
all liveness (`OrderedCommitFair`, `QueueFair`, `StopTerminatesInBatch`,
`StopTerminates` of `SeqCow`), since fairness and ENABLED are beyond the prover; and
what is said of whole trees (`VersionsHoldUpdates`, `VersionsWellFormed`,
`QueriesAgree`, `InPlaceAgrees`, `GrowthAsksRebuild`, `HandlersOnNodes`, and that `Trees` implements `TreeTasks`): `Trees` and the
modules it reads trees with have RECURSIVE operators over nodes, and what these compute for every tree
would take induction over data.

## Plan

1. The two assumptions that join the models: `TreeTasks` takes the order of handlers from
   the schedulers' `HandlersInOrder`, and `Concow` takes any idle worker where
   `MpscList` pops the oldest; a composed module would state both.
2. `HandlersOnNodes` without recursion: which task has copied which node, as an invariant of `TreeTasks`
   beside `CowInv`, with the known cases named in it.
3. `Bench`: `multi_client_execute`, its cursor and its wait.

## Not modelled

Argument parsing, logging and timers are pure I/O.  Weak memory is out of TLC's
reach; the modules assume the x86-64 order the code is built for.  `ycsbc` is a vendored
workload generator, which only its file connects to the program.  Of `arrayops.hpp`
there are no definitions of their own: where the trees call it, the sequences of
the community modules say what it does.  Memory is never freed by the code, and never runs
out here.
