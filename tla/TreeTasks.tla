------------------------------ MODULE TreeTasks -------------------------------
(* The tasks that update a tree copy-on-write, on the memory they share: the   *)
(* handlers of the structure main.cpp was asked for, under the schedulers      *)
(* concow (concow_cyclic, for the B-tree).                                     *)
(*                                                                             *)
(* The schedulers are those of Concow and ConcowCyclic, reduced to the order   *)
(* they keep between handlers: a handler is a step, and it waits for what the  *)
(* pipes, wait_version and wait_stage make it wait for.  A task is committed   *)
(* when it and all before it are done.                                         *)
(*                                                                             *)
(* What makes whole trees, build and rebuild, is in Trees: here the nodes it   *)
(* makes are any that lead to one another.                                     *)
EXTENDS BeTreeCow

CONSTANTS Structures,   \* of STRUCTURE_TYPE, those that are run
          KeySet,       \* the keys there are
          PipeCounts,   \* of cfg.num_pipes, those that are run
          BufferSize,   \* BUFFER_SIZE
          ArtRadix, ArtDigits, ArtCapacity,
          AertRadix, AertDigits, AertSmall

ASSUME PipesAssumption == PipeCounts \subseteq Nat \ {0}
ASSUME BoundsAssumption == /\ BufferSize \in Nat \ {0, 1}
                           /\ B \in Nat \ {0, 1} /\ E \in Nat
ASSUME StructuresAssumption == Structures \subseteq {"btree", "betree", "art", "aert"}
ASSUME KeysAssumption == KeySet \subseteq Nat
\* A key has an even number of half digits.
ASSUME RadixAssumption ==
    /\ ArtRadix \in Nat \ {0, 1} /\ ArtDigits \in Nat \ {0}
    /\ AertRadix \in Nat \ {0, 1} /\ AertDigits \in Nat \ {0} /\ AertDigits % 2 = 0
\* What the provers do not know of powers.
ASSUME PowersAssumption ==
    /\ \A n \in 0..ArtDigits : ArtRadix^n \in Nat \ {0}
    /\ \A n \in 0..AertDigits : AertRadix^n \in Nat \ {0}

VARIABLES structure,    \* cfg.structure
          pipes,        \* cfg.num_pipes: n_pipes_ of concow, P of concow_cyclic
          heap,         \* the nodes of all versions
          ctx           \* ctxs_, from id 1 on

tasks == <<structure, pipes, heap, ctx>>

ART  == INSTANCE ArtCow WITH Radix <- ArtRadix, Digits <- ArtDigits, Capacity <- ArtCapacity
AERT == INSTANCE AertCow WITH Radix <- AertRadix, Digits <- AertDigits, Small <- AertSmall

\* handle_task of adapters/, for the types the schedulers are compiled for.
Handle(h, c) ==
    CASE structure = "btree"  -> HandleBTree(h, c)
      [] structure = "betree" -> HandleBeTree(h, c)
      [] structure = "art"    -> ART!Handle(h, c)
      [] structure = "aert"   -> AERT!Handle(h, c)

BTrees == {"btree", "betree"}
Cyclic == structure = "btree"

Ids == DOMAIN ctx
\* concow_cyclic has no checkpoints.
IsCheckpoint(id) == ~Cyclic /\ id % BufferSize = 0
Updates == {id \in Ids : ~IsCheckpoint(id)}

\* The root of the tree built from the data set; a radix tree of none is empty.
BuiltRoot == IF <<0, 0>> \in DOMAIN heap THEN <<0, 0>> ELSE Nil
RootOf(id) == IF id = 0 THEN BuiltRoot ELSE ctx[id].root

Stopped(id)  == ctx[id].op = "WILD"
Finished(id) == ctx[id].op = "DONE"

\* n_committed_, as soon as the monitor can have moved it.
Committed == CHOOSE n \in 0..Len(ctx) :
    /\ \A id \in 1..n : Finished(id)
    /\ n < Len(ctx) => ~Finished(n + 1)

\* What follows a handler that followed a wild pointer is not modelled.
Defined == \A id \in Ids : ~Stopped(id)

\* The nodes of the tree that was built (0) or that the checkpoint n rebuilt.
BuiltNodes(h, n) == {id \in DOMAIN h : Version(id) = 0 /\ id[2] = n}

\* What is common to all nodes: keys, and pointers of S.
IsNode(t, S) ==
    /\ {"type", "keys", "chs"} \subseteq DOMAIN t
    /\ t.keys \in Seq(Nat)
    /\ t.chs \in Seq(S)

\* The pointers to none, of the radix trees.
NoNode == IF structure \in BTrees THEN {} ELSE {Nil}

\* A node of art stands where those that lead to it say, within the key.
ArtFits(h, t) ==
    /\ {"ofs", "len", "pfx"} \subseteq DOMAIN t
    /\ t.ofs \in Nat /\ t.len \in Nat /\ t.pfx \in Nat
    /\ IF t.type = "LEAF" THEN t.ofs + t.len = ArtDigits /\ t.chs = <<>>
       ELSE /\ t.ofs + t.len < ArtDigits
            /\ \A i \in DOMAIN t.chs : t.chs[i] # Nil => h[t.chs[i]].ofs = t.ofs + t.len + 1

\* So does one of aert.  Half digits that are embedded count, and are embedded
\* only where they make a whole digit; only nodes without a prefix start at a
\* second half digit.
Below(t) == t.ofs + t.len + AERT!KeyLen(t.type)
AertFits(h, t) ==
    /\ {"ofs", "len", "pfx", "emb"} \subseteq DOMAIN t
    /\ t.ofs \in Nat /\ t.len \in Nat /\ t.pfx \in Nat /\ t.len % 2 = 0
    /\ t.emb \in Seq(Seq(Nat)) /\ Len(t.emb) = Len(t.chs)
    /\ IF t.type = "LEAF" THEN t.ofs + t.len = AertDigits /\ t.ofs % 2 = 0 /\ t.chs = <<>>
       ELSE /\ Below(t) <= AertDigits
            /\ t.ofs % 2 = 1 => t.len = 0 /\ AERT!KeyLen(t.type) = 1
            /\ AERT!KeyLen(t.type) = 2 => \A i \in DOMAIN t.keys : t.keys[i] < AertRadix * AertRadix
            /\ \A i \in DOMAIN t.chs :
                 /\ Len(t.emb[i]) <= Below(t) % 2
                 /\ t.chs[i] # Nil => h[t.chs[i]].ofs = Below(t) + Len(t.emb[i])

Fits(h, t) == /\ structure = "art" => ArtFits(h, t)
              /\ structure = "aert" => AertFits(h, t)

\* A root starts with the key.
RootFits(h, root) == structure \in BTrees \/ root = Nil \/ h[root].ofs = 0

\* The nodes built lead to one another.
Built(h, n) ==
    /\ \A id \in BuiltNodes(h, n) : IsNode(h[id], BuiltNodes(h, n) \union NoNode) /\ Fits(h, h[id])
    /\ <<0, n>> \in DOMAIN h => RootFits(h, <<0, n>>)

TasksInit ==
    /\ structure \in Structures
    /\ pipes \in PipeCounts
    /\ structure \in BTrees => <<0, 0>> \in DOMAIN heap
    /\ DOMAIN heap = BuiltNodes(heap, 0)
    /\ Built(heap, 0)
    /\ ctx = <<>>

\* The upper half that a task of aert makes has only some of its keys until the
\* next handler of the task: who reads it before takes a part for the whole.
HalfMade(id, past) ==
    \E u \in Ids : u # id /\ ctx[u].op = "SPLIT" /\ ctx[u].cur = past /\ structure = "aert"

\* After a handler of the task: what it left, and how far the task is.
After(id, r, inPipe) ==
    LET wild == r.ctx.op # "DONE" /\ HalfMade(id, r.ctx.past)
        c == [r.ctx EXCEPT !.op = IF wild THEN "WILD" ELSE @, !.ran = @ + 1,
                           !.stage = IF inPipe THEN @ ELSE @ + 1]
    IN  /\ heap' = r.heap
        /\ ctx' = [i \in Ids \union {id} |-> IF i = id THEN c ELSE ctx[i]]

\* A handler of the context c, run in a pipe or by a worker.
Handler(id, c, inPipe) == After(id, Handle(heap, c), inPipe)

\* The tasks before id have passed the pipe of the handler k: they have left
\* the pipes, or run it.  In concow_cyclic the pipe has run the next handler
\* of the task before.
AfterOthers(id, k) ==
    \A u \in 1..(id - 1) :
        ~Finished(u) /\ ~ctx[u].wait_child => ctx[u].ran >= k + (IF Cyclic THEN 2 ELSE 1)

\* The next id is in the buffer.
Submitted(id) == Defined /\ id = Len(ctx) + 1 /\ id < Committed + BufferSize

\* update, and the handler INIT in the entry pipe.
Entry(id, key) ==
    /\ Submitted(id) /\ ~IsCheckpoint(id)
    /\ AfterOthers(id, 0)
    /\ Handler(id, NewContext(id, key, RootOf(id - 1)), TRUE)
    /\ UNCHANGED <<structure, pipes>>

\* A handler in a pipe: in the first num_pipes, which wait for nothing but one
\* another.  concow_cyclic has one pipe more than that (N_PIPES), its EXIT.
InnerPipe(id) ==
    /\ Defined /\ ctx[id].op # "DONE" /\ ~ctx[id].wait_child
    /\ ctx[id].ran < pipes
    /\ AfterOthers(id, ctx[id].ran)
    /\ Handler(id, ctx[id], TRUE)
    /\ UNCHANGED <<structure, pipes>>

\* wait_stage, for the task that made the node to be read.
StageReached(id) ==
    LET v == Version(ctx[id].past) IN
    v # 0 /\ ~Finished(v) =>
        IF Cyclic THEN ctx[v].ran >= ctx[id].ran + 2
        ELSE ctx[v].stage >= ctx[id].stage + (IF ctx[id].wait_child THEN 2 ELSE 1)

\* A handler a worker runs, or the exit pipe of concow_cyclic, which waits like
\* one.
Worker(id) ==
    /\ Defined /\ ctx[id].op # "DONE"
    /\ ~ctx[id].wait_child => ctx[id].ran >= pipes
    /\ \A u \in 1..(id - 1) : ~Finished(u) /\ ~ctx[u].wait_child => ctx[u].ran >= pipes
    /\ StageReached(id)
    /\ Handler(id, ctx[id], FALSE)
    /\ UNCHANGED <<structure, pipes>>

-------------------------------------------------------------------------------
(* Checkpoints *)

Rebuilt(id) == IsCheckpoint(id) /\ ctx[id].root = <<0, id>>
\* The last checkpoint that rebuilt the tree.
LastRebuild == CHOOSE n \in {0} \union {id \in Ids : Rebuilt(id)} :
                   \A id \in Ids : Rebuilt(id) => id <= n

\* The monitor has seen a request since.
Requests == {u \in Updates : ctx[u].new_checkpoint /\ u > LastRebuild}

\* The context of a checkpoint that leaves the root.
Passed(id, root) == [NewContext(id, 0, RootOf(id - 1)) EXCEPT !.op = "DONE", !.root = root]

\* No request yet that the monitor has committed; those a buffer back are.
CheckpointSkip(id) ==
    /\ Submitted(id) /\ IsCheckpoint(id)
    /\ \A u \in Requests : u > id - BufferSize
    /\ ctx' = Append(ctx, Passed(id, RootOf(id - 1)))
    /\ UNCHANGED <<structure, pipes, heap>>

\* One has been seen, and all versions up to the last are committed.
RebuildDue(id) ==
    /\ Submitted(id) /\ IsCheckpoint(id)
    /\ \E u \in Requests : u <= Committed
    /\ Version(RootOf(id - 1)) <= Committed

\* checkpoint_handler: the new nodes, or none if values were followed.
CheckpointNodes(id) ==
    /\ RebuildDue(id)
    /\ DOMAIN heap' = DOMAIN heap \union BuiltNodes(heap', id)
    /\ \A i \in DOMAIN heap \ BuiltNodes(heap', id) : heap'[i] = heap[i]
    /\ Built(heap', id)
    /\ \/ <<0, id>> \in DOMAIN heap' /\ ctx' = Append(ctx, Passed(id, <<0, id>>))
       \/ ctx' = Append(ctx, [Passed(id, <<0, id>>) EXCEPT !.op = "WILD"])
    /\ UNCHANGED <<structure, pipes>>

TasksNext ==
    \/ \E id \in Ids : InnerPipe(id) \/ Worker(id)
    \/ LET id == Len(ctx) + 1
       IN  CheckpointSkip(id) \/ CheckpointNodes(id) \/ \E key \in KeySet : Entry(id, key)

TasksSpec == TasksInit /\ [][TasksNext]_tasks

-------------------------------------------------------------------------------
(* Properties *)

\* A handler writes only nodes its task made, and only while the task runs:
\* the nodes of the built tree, of rebuilt ones and of tasks that are done stay
\* as they are, and so do those of every other task that is under way.  The
\* handlers write through pointers: to the children of the node in hand after
\* a split or a fork, which must be copies of the task's own.
WritesOwnNodes ==
    \A id \in DOMAIN heap :
        /\ id \in DOMAIN heap'
        /\ heap'[id] # heap[id] =>
             LET v == Version(id) IN v \in Ids /\ ~Finished(v) /\ ctx'[v] # ctx[v]
OwnNodesWritten == [][WritesOwnNodes]_tasks
===============================================================================
