--------------------------------- MODULE Trees ---------------------------------
(* The tasks of TreeTasks on the trees main.cpp puts together: the structure   *)
(* of the command line, built from the data set, rebuilt at checkpoints, read  *)
(* by find and scan, and beside it the tree that the scheduler inplace makes   *)
(* of the same updates.                                                        *)
EXTENDS TreeTasks

CONSTANTS Loads,        \* per structure: data sets, [built, txs]
          Counts        \* the lengths of the scans

VARIABLES load,         \* cfg.dataset: built, the initial keys; txs, per id, the keys one of which is updated
          inplace       \* the tree of the scheduler inplace

vars == <<structure, pipes, load, heap, ctx, inplace>>

BT == INSTANCE BTree
BE == INSTANCE BeTree
AR == INSTANCE Art WITH Radix <- ArtRadix, Digits <- ArtDigits, Capacity <- ArtCapacity
AE == INSTANCE Aert WITH Radix <- AertRadix, Digits <- AertDigits, Small <- AertSmall

-------------------------------------------------------------------------------
(* The interfaces of adapters/ that work on whole trees *)

RECURSIVE Tree(_, _)
\* The tree a reader finds at a pointer.
Tree(h, p) ==
    IF p = Nil THEN Nil
    ELSE [h[p] EXCEPT !.chs = [i \in DOMAIN @ |-> Tree(h, @[i])]]

RECURSIVE Plant(_, _)
\* The memory of a nested tree, its root at the identity id.
Plant(id, t) ==
    IF t = Nil THEN <<>>
    ELSE LET Child(i) == Append(id, i)
             here     == [t EXCEPT !.chs = [i \in DOMAIN @ |->
                             IF @[i] = Nil THEN Nil ELSE Child(i)]]
             below    == [i \in DOMAIN t.chs |-> Plant(Child(i), t.chs[i])]
             ids      == UNION {DOMAIN below[i] : i \in DOMAIN below}
         IN  [x \in {id} \union ids |->
                 IF x = id THEN here ELSE below[x[Len(id) + 1]][x]]

\* build; the upper levels of betree are the pipes but one.
Build(s, keys) ==
    CASE s = "btree"  -> BT!Build(keys)
      [] s = "betree" -> BE!Build(pipes - 1, keys)
      [] s = "art"    -> AR!Build(keys)
      [] s = "aert"   -> AE!Build(keys)

\* update
UpdateInplace(t, key, val) ==
    CASE structure = "btree"  -> BT!UpdateRoot(t, key, val)
      [] structure = "betree" -> BE!UpdateRoot(t, key, val)
      [] structure = "art"    -> AR!UpdateInplace(t, 0, key, val)
      [] structure = "aert"   -> AE!Update(t, key, val)

\* find
Find(t, key) ==
    CASE structure = "btree"  -> BT!Find(t, key)
      [] structure = "betree" -> BE!Find(t, key)
      [] structure = "art"    -> AR!Find(t, key)
      [] structure = "aert"   -> AE!Find(t, <<>>, key)

\* scan
Scan(t, key, n) ==
    CASE structure = "btree"  -> BT!Scan(t, key, n)
      [] structure = "betree" -> BE!Scan(t, key, n)
      [] structure = "art"    -> AR!Scan(t, key, n)
      [] structure = "aert"   -> AE!Scan(t, key, n)

Elements(t) ==
    CASE structure \in {"btree", "betree"} -> BT!Elements(t)
      [] structure = "art"  -> AR!Elements(t)
      [] structure = "aert" -> AE!Elements(t)

WellFormed(t) ==
    CASE structure = "btree"  -> BT!WellFormed(t)
      [] structure = "betree" -> BE!WellFormed(t)
      [] structure = "art"    -> AR!WellFormed(t)
      [] structure = "aert"   -> AE!WellFormed(t)

-------------------------------------------------------------------------------

Init ==
    /\ structure \in Structures
    /\ pipes \in PipeCounts
    /\ load \in Loads[structure]
    /\ inplace = Build(structure, load.built)
    /\ heap = Plant(<<0, 0>>, inplace)
    /\ ctx = <<>>

\* Mutant: update does not wait for a slot of the ring.
MutUpdate(id, key) ==
    /\ Defined /\ id = Len(ctx) + 1 /\ ~IsCheckpoint(id) /\ AfterOthers(id, 0)
    /\ Handler(id, NewContext(id, key, RootOf(id - 1)), TRUE)
    /\ inplace' = UpdateInplace(inplace, key, id)
    /\ UNCHANGED <<structure, pipes, load>>

\* A transaction of the data set, which the scheduler inplace runs at once.
Update(id, key) ==
    /\ Entry(id, key)
    /\ inplace' = UpdateInplace(inplace, key, id)
    /\ UNCHANGED load

\* checkpoint_handler of betree, the only one that is asked for.  The subtrees
\* that are kept are planted anew; all versions up to here are committed.
CheckpointRebuild(id) ==
    LET t == Tree(heap, RootOf(id - 1))
        new == BE!Rebuild(t, t.verge)
    IN  /\ RebuildDue(id)
        /\ heap' = IF new = <<>> THEN heap
                   ELSE LET planted == Plant(<<0, id>>, new[1])
                        IN  [i \in DOMAIN heap \union DOMAIN planted |->
                                IF i \in DOMAIN planted THEN planted[i] ELSE heap[i]]
        /\ ctx' = Append(ctx, [Passed(id, <<0, id>>) EXCEPT !.op = IF new = <<>> THEN "WILD" ELSE @])
        /\ UNCHANGED <<structure, pipes>>

\* All is done, or nothing is known any more.
Terminated ==
    /\ ~Defined \/ Committed = Len(load.txs)
    /\ UNCHANGED vars

Next ==
    \/ \E id \in DOMAIN load.txs : \E key \in load.txs[id] : Update(id, key)
    \/ /\ \/ \E id \in DOMAIN load.txs : CheckpointSkip(id) \/ CheckpointRebuild(id)
          \/ \E id \in Ids : InnerPipe(id) \/ Worker(id)
       /\ UNCHANGED <<load, inplace>>
    \/ Terminated

Spec == Init /\ [][Next]_vars

-------------------------------------------------------------------------------
(* What a version is meant to hold *)

Keys == UNION ToSet(load.txs) \union ToSet(load.built)
Initial(key) == \E i \in DOMAIN load.built : load.built[i] = key
\* The last update of the key up to the version n; 0 if there is none.
LastUpdate(n, key) ==
    LET us == {u \in Updates : u <= n /\ ctx[u].key = key}
    IN  CHOOSE u \in us \union {0} : \A x \in us : x <= u
Present(n, key) == Initial(key) \/ LastUpdate(n, key) > 0
KeysOf(n) == {key \in Keys : Present(n, key)}
\* The elements of the version n in order.
Content(n) ==
    LET ks == InOrder(KeysOf(n))
    IN  [i \in DOMAIN ks |-> <<ks[i], LastUpdate(n, ks[i])>>]

\* Keys of the version n that a leaf may hold together.
Neighbours(n, key, other) ==
    Cardinality({k \in KeysOf(n) : k \in (key..other) \union (other..key)}) < 2*B

\* copy_leaf of the B-trees does not copy the values: those of other keys in
\* the leaf may be lost by an update of a key that is there.
MayBeLost(n, key) ==
    structure \in BTrees /\ \E u \in Updates :
        /\ LastUpdate(n, key) < u /\ u <= n
        /\ ctx[u].key # key /\ Present(u - 1, ctx[u].key) /\ Neighbours(u, key, ctx[u].key)

\* node_fork_cow of art masks the key in a leaf it moves down.
MayBeMasked(n, key, got) ==
    structure = "art" /\ n > 0 /\ \E j \in 1..ArtDigits : got = key % ArtRadix^j

\* What a query may read for the element of the version n.
Reads(got, n, elem) ==
    /\ got[1] = elem[1] \/ MayBeMasked(n, elem[1], got[1])
    /\ got[2] = elem[2] \/ (got[2] = Unwritten /\ MayBeLost(n, elem[1]))

ReadsAll(got, n, elems) ==
    Len(got) = Len(elems) /\ \A i \in DOMAIN got : Reads(got[i], n, elems[i])

Versions == 0..Committed
TreeOf(n) == Tree(heap, RootOf(n))

-------------------------------------------------------------------------------
(* Properties *)

\* The contexts and the order of their steps: a task has no more handlers run
\* by workers than handlers, and nothing after an undefined step.
TypeOK ==
    /\ structure \in Structures /\ pipes \in PipeCounts /\ load \in Loads[structure]
    /\ \A id \in Ids :
         /\ ctx[id].sno = id /\ ctx[id].stage <= ctx[id].ran
         /\ ctx[id].key \in Keys \union {0}
         /\ Stopped(id) \/ RootOf(id) \in DOMAIN heap

\* Every committed version, not the newest only, holds the initial elements
\* and the updates up to its id, each key once and in order, with the last
\* value; the value a task wrote is in its version.  Versions share nodes, and
\* other tasks are at work on their own copies when a version is committed.
VersionsHoldUpdates == \A n \in Versions : ReadsAll(Elements(TreeOf(n)), n, Content(n))

\* Every committed version is a well-formed tree: no node over its capacity
\* or, in the B-tree, too small, all leaves on one level (in betree, of each
\* part that a rebuild keeps), separators and digits that lead to the keys
\* below them.  The nodes of a path are made by
\* handlers of several threads, each with a part of the next node.
VersionsWellFormed == \A n \in Versions : WellFormed(TreeOf(n))

\* find and scan on the newest committed version find what it holds, from
\* keys that are there and keys that are not; but for scans of aert that the
\* wrong half digit of a key that is not there misleads.
QueriesAgree ==
    LET n == Committed  t == TreeOf(n)  elems == Content(n) IN
    \A key \in Keys :
        LET from == SelectSeq(elems, LAMBDA e : e[1] >= key) IN
        /\ Len(Find(t, key)) = IF Present(n, key) THEN 1 ELSE 0
        /\ Present(n, key) => Reads(<<key, Find(t, key)[1]>>, n, from[1])
        /\ ~(structure = "aert" /\ ~Present(n, key) /\ AE!Misled(t, <<>>, key)) =>
              \A count \in Counts : ReadsAll(Scan(t, key, count), n, Take(from, count))

\* What is known to fail: a root of the B-tree that is a leaf, a rebuild of an
\* upper part with leaves in it, a split of aert behind a pointer with bits,
\* and one that another task reads before it is made.
LeafRoot(id)     == structure = "btree" /\ heap[RootOf(id - 1)].type = "LEAF"
LeafInUpper(id)  == structure = "betree" /\ IsCheckpoint(id) /\ BE!LeafOverBoundary(Tree(heap, RootOf(id - 1)))
SplitBehind(id)  == /\ structure = "aert" /\ ctx[id].emb # <<>>
                    /\ heap[ctx[id].past].type = "NODE16"
                    /\ Len(heap[ctx[id].past].keys) = AertRadix
SplitTooSoon(id) == structure = "aert" /\ HalfMade(id, ctx[id].past)

\* No handler follows a pointer that was not written, and none reads a node
\* before it has all its keys, in any order the pipes and the waits for a
\* version or a stage allow, but in the known cases.
HandlersOnNodes ==
    \A id \in Ids : Stopped(id) =>
        LeafRoot(id) \/ LeafInUpper(id) \/ SplitBehind(id) \/ SplitTooSoon(id)

\* An update of betree asks for a rebuild just when it makes a subtree grow
\* above E, and each time it does: in the version it makes, subtrees have grown
\* above E by more levels than in the one before.  A rebuild leaves none.  The
\* handler that asks knows the height of one subtree, by its root in the version
\* before, and the worker that passes the request on is another thread.
GrowthAsksRebuild ==
    structure = "betree" => \A n \in Versions \ {0} :
        IF IsCheckpoint(n) THEN Rebuilt(n) => BE!Overgrowth(TreeOf(n)) = 0
        ELSE ctx[n].new_checkpoint <=> BE!Overgrowth(TreeOf(n)) > BE!Overgrowth(TreeOf(n - 1))

\* The switches over the type of a node have cases for nodes ("assert(false)"
\* else, aert/node_wrapper.hpp:37): a task that is to SPLIT gives them t_cur, so
\* it must be a node's address, without embedded bits.
SplitGetsNode == \A id \in Ids : ctx[id].op = "SPLIT" => ctx[id].emb = <<>>

\* The update in place makes a well-formed tree with the elements of the last
\* version: what copy-on-write and inplace make of the same transactions
\* agrees, whatever the order in which the handlers ran.
InPlaceAgrees ==
    LET shape(t) == IF structure = "betree" THEN BT!WellFormed(t) ELSE WellFormed(t)
    IN  shape(inplace) /\ Elements(inplace) = Content(Len(ctx))

\* A committed version never changes, though later tasks and rebuilds share
\* its nodes: a query that has the root reads the same tree for ever.
CommittedFrozen ==
    [][\A n \in Versions : Tree(heap', RootOf(n)') = Tree(heap, RootOf(n))]_vars
===============================================================================
