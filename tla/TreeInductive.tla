----------------------------- MODULE TreeInductive -----------------------------
(* The inductive invariant of TreeTasks: what a task finds of the memory that  *)
(* others write while it waits.                                                *)
EXTENDS TreeTasks

OwnNodes(h, v) == {id \in DOMAIN h : Version(id) = v}
\* The nodes that a version up to v may lead to.
Upto(h, v) == {id \in DOMAIN h : Version(id) <= v}

\* What a task has made is numbered without a gap: Alloc takes no identity
\* that is in use.
Numbered(h, v) ==
    /\ IsFiniteSet(OwnNodes(h, v))
    /\ OwnNodes(h, v) = {<<v, k>> : k \in 1..Cardinality(OwnNodes(h, v))}

NodesMade ==
    /\ \A id \in Ids : Numbered(heap, id)
    /\ \A id \in DOMAIN heap :
         \/ Version(id) \in Ids
         \/ Version(id) = 0 /\ id[2] \in {0} \union Ids
    /\ structure \in BTrees => <<0, 0>> \in DOMAIN heap

\* A node leads to nodes of its own version and earlier ones.
PointersBack == \A id \in DOMAIN heap : IsNode(heap[id], Upto(heap, Version(id)) \union NoNode)

\* Between two handlers of a B-tree: cur is a copy of past, without its chs, or
\* with two halves of past below it, and past has grown since, if at all.
CopiesBTree(h, c) ==
    LET cur == h[c.cur]  past == h[c.past] IN
    CASE c.op \in {"SEARCH_DOWN", "SEARCH_LOWER"} -> Len(cur.keys) <= Len(past.keys)
      [] c.op = "SEARCH_SPLIT" ->
           /\ c.idx \in 1..(Len(cur.chs) - 1)
           /\ \A j \in {c.idx, c.idx + 1} : /\ cur.chs[j] \in OwnNodes(h, c.sno)
                                            /\ Len(h[cur.chs[j]].keys) = B - 1
           /\ Len(past.keys) >= 2*B - 1
      [] OTHER -> c.op \in {"SEARCH_UPPER", "SEARCH_ELASTIC"}

\* The handlers but INIT.
Handlers ==
    CASE structure = "btree"  -> {"SEARCH_DOWN", "SEARCH_SPLIT"}
      [] structure = "betree" -> {"SEARCH_UPPER", "SEARCH_ELASTIC", "SEARCH_LOWER", "SEARCH_SPLIT"}
      [] structure = "art"    -> {"SEARCH", "INSERT", "FORK"}
      [] structure = "aert"   -> {"SEARCH", "INSERT", "FORK", "SPLIT"}

IsContext(c) ==
    /\ {"op", "sno", "key", "root", "past", "cur", "idx", "ofs", "emb", "wait_child",
        "new_checkpoint", "ran", "stage"} \subseteq DOMAIN c
    /\ c.key \in Nat /\ c.ran \in Nat

\* After a fork of the radix trees: the old node stands below cur without its
\* chs, and ends where past does.
ForkWaits(h, c) ==
    LET past == h[c.past]  old == h[c.cur].chs[c.idx] IN
    /\ old \in OwnNodes(h, c.sno)
    /\ h[old].type = past.type /\ h[old].ofs + h[old].len = past.ofs + past.len

\* Between two handlers of the adaptive radix tree: a fork, or cur is a copy of
\* past with room for one more key if it is to be inserted.
ArtTask(h, c) ==
    LET cur == h[c.cur]  past == h[c.past] IN
    IF c.op = "FORK" THEN ForkWaits(h, c)
    ELSE /\ cur.type # "LEAF" /\ past.type # "LEAF"
         /\ cur.ofs + cur.len = past.ofs + past.len /\ c.ofs = cur.ofs + cur.len + 1
         /\ c.idx \in 1..Len(cur.keys)
         /\ c.op = "SEARCH" => Len(cur.keys) <= Len(past.keys)
         /\ c.op = "INSERT" /\ cur.type # "NODE256" => Len(cur.keys) <= Len(past.keys) + 1

\* A half that waits for its children: it will have n, and has those of S.
HalfWaits(t, n, S, ofs, len) ==
    /\ t.type = AERT!HalfType(n) /\ t.keys = AERT!HalfKeys(n, S)
    /\ t.ofs = ofs /\ t.len = len

\* After a split of the elastic radix tree: the halves have the keys of past
\* and the new one, and wait for the children.
SplitKeySet(h, c) == ToSet(h[c.past].keys) \union {AERT!Part(c.key, c.ofs - 2, 2)}
SplitWaits(h, c) ==
    LET past == h[c.past]  cur == h[c.cur]  ks == SplitKeySet(h, c)
        lower(f) == cur.chs[AERT!FindIdx(cur, f)]
    IN  /\ past.type = "NODE16" /\ c.ofs = Below(past)
        /\ HalfWaits(cur, Cardinality(AERT!Firsts(ks)), AERT!Shared(ks), past.ofs, past.len)
        /\ \A f \in AERT!Shared(ks) :
             /\ lower(f) \in OwnNodes(h, c.sno)
             /\ HalfWaits(h[lower(f)], Cardinality(AERT!Seconds(ks, f)), {},
                          past.ofs + past.len + 1, 0)

\* Between two handlers of the elastic radix tree.
AertTask(h, c) ==
    LET cur == h[c.cur]  past == h[c.past] IN
    /\ c.emb \in Seq(Nat)
    /\ CASE c.op = "FORK"  -> ForkWaits(h, c)
         [] c.op = "SPLIT" -> SplitWaits(h, c)
         [] OTHER ->
              /\ cur.type # "LEAF" /\ past.type # "LEAF"
              /\ cur.ofs = past.ofs /\ cur.len = past.len /\ c.ofs = Below(cur)
              /\ AERT!KeyLen(cur.type) = AERT!KeyLen(past.type)
              /\ c.idx \in 1..Len(cur.keys)
              /\ c.op = "SEARCH" => Len(cur.keys) <= Len(past.keys)
              /\ c.op = "INSERT" /\ cur.type # "NODEH16" => Len(cur.keys) <= Len(past.keys) + 1

TaskHolds(h, c) ==
    /\ c.root \in Upto(h, c.sno) \union NoNode
    /\ RootFits(h, c.root)
    /\ c.op # "DONE" => /\ c.op \in Handlers
                        /\ c.cur \in OwnNodes(h, c.sno)
                        /\ c.past \in Upto(h, c.sno - 1)
                        /\ structure \in BTrees => CopiesBTree(h, c)
                        /\ structure = "art" => ArtTask(h, c)
                        /\ structure = "aert" => AertTask(h, c)

\* Every node has the keys and children its type has room for, and so has the
\* root of the tree that was built.
NodesFit ==
    /\ \A id \in DOMAIN heap : Fits(heap, heap[id])
    /\ RootFits(heap, BuiltRoot)

\* The tasks in their order.
TasksHold ==
    /\ ctx \in Seq(Range(ctx))
    /\ \A id \in Ids : /\ ctx[id].sno = id /\ IsContext(ctx[id])
                       /\ ~Stopped(id) => TaskHolds(heap, ctx[id])

\* What every handler may rely on: nodes lead to nodes of their own version and
\* earlier ones and have the shape of their type, and a task between two of its
\* handlers (cur and past of its context) still finds the copy it made, its
\* halves or its forked node the way its next handler takes them, although past
\* may belong to another task that goes on writing it.
CowInv == structure \in Structures /\ NodesMade /\ PointersBack /\ NodesFit /\ TasksHold

-------------------------------------------------------------------------------
(* What the invariant and the writes of the handlers come to *)

\* The nodes a version may lead to, and its root among them.  Nothing of them
\* changes in this step, and they lead only to one another.
VersionStays(n) ==
    /\ RootOf(n) \in Upto(heap, n) \union NoNode
    /\ RootOf(n)' = RootOf(n)
    /\ \A id \in Upto(heap, n) :
         /\ id \in DOMAIN heap' /\ heap'[id] = heap[id]
         /\ \A i \in DOMAIN heap[id].chs : heap[id].chs[i] \in Upto(heap, n) \union NoNode

\* Once all tasks up to n are done, a reader that has the root of the version n
\* finds the same nodes for ever, whatever later tasks and rebuilds share of
\* them and wherever the reader is on its way.
DoneVersionsStay == [][\A n \in 0..Len(ctx) : (\A id \in 1..n : Finished(id)) => VersionStays(n)]_tasks
===============================================================================
