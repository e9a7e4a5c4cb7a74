------------------------------- MODULE BTreeCow -------------------------------
(* lib/trees/btree, what an update copy-on-write is made of: nodes of at most *)
(* 2B - 1 keys and the handlers that copy a path in pieces.  betree has       *)
(* copies of the functions on leaves, separators and halves: BeTreeCow uses   *)
(* these.                                                                     *)
(*                                                                            *)
(* A handler copies the keys of a child and leaves its chs for the next       *)
(* handler ("chs are copied at next stage"); until then chs is <<>>.          *)
EXTENDS TreeHeap

CONSTANTS B,          \* 2B - 1 keys fill a node
          Unwritten   \* what a value holds that nobody wrote

Leaf(ks, vs)      == [type |-> "LEAF", keys |-> ks, vals |-> vs, chs |-> <<>>]
Internal(ks, chs) == [type |-> "INTERNAL", keys |-> ks, vals |-> <<>>, chs |-> chs]

IsFull(t) == Len(t.keys) = 2*B - 1

\* Its chs have been copied: the node can be descended.
Copied(t) == Len(t.chs) = Len(t.keys) + 1

\* The position of the first key that passes the test, or the one past the end.
FirstKey(t, Test(_)) ==
    LET i == SelectInSeq(t.keys, Test) IN IF i = 0 THEN Len(t.keys) + 1 ELSE i

FindCh(t, key)  == FirstKey(t, LAMBDA k : k > key)
FindVal(t, key) == FirstKey(t, LAMBDA k : k >= key)

InsertChild(t, i, key, l, r) ==
    [t EXCEPT !.keys = InsertAt(@, i, key), !.chs = InsertAt([@ EXCEPT ![i] = l], i + 1, r)]

\* Mutant: a leaf with 2B - 1 keys takes one more.
MutInsertLeaf(t, key, val) ==
    <<[t EXCEPT !.keys = InsertAt(@, FindVal(t, key), key),
                !.vals = InsertAt(@, FindVal(t, key), val)]>>

\* The leaf, or its two halves, with the elements.
Packed(t, ks, vs) ==
    IF Len(ks) < 2*B THEN <<[t EXCEPT !.keys = ks, !.vals = vs]>>
    ELSE <<[t EXCEPT !.keys = SubSeq(ks, 1, B), !.vals = SubSeq(vs, 1, B)],
           [t EXCEPT !.keys = SubSeq(ks, B + 1, 2*B), !.vals = SubSeq(vs, B + 1, 2*B)]>>

\* What replaces a leaf without the key.
InsertLeaf(t, key, val) ==
    LET i == FindVal(t, key) IN Packed(t, InsertAt(t.keys, i, key), InsertAt(t.vals, i, val))

Holds(t, key) == \E i \in DOMAIN t.keys : t.keys[i] = key

\* copy_leaf copies 128 bytes, which end before the vals: of a leaf that has
\* the key only the updated value is written in the copy.
UpdateLeafCow(t, key, val) ==
    IF Holds(t, key)
    THEN <<[t EXCEPT !.vals = [i \in DOMAIN @ |-> IF i = FindVal(t, key) THEN val ELSE Unwritten]]>>
    ELSE InsertLeaf(t, key, val)

\* The parent with one or two new leaves, at the given pointers, as child i.
PutLeaves(t, i, leaves, ptrs) ==
    IF Len(leaves) = 1 THEN [t EXCEPT !.chs[i] = ptrs[1]]
    ELSE InsertChild(t, i, leaves[2].keys[1], ptrs[1], ptrs[2])

\* verge and, in place, the type of a half are reset in the code and not read.
\* split: the key at B moves up, and the halves of keys and of chs.
SplitKeys(t) == <<SubSeq(t.keys, 1, B - 1), SubSeq(t.keys, B + 1, 2*B - 1)>>
SplitChs(t)  == <<SubSeq(t.chs, 1, B), SubSeq(t.chs, B + 1, 2*B)>>
Halves(t)    == [j \in 1..2 |-> [t EXCEPT !.keys = SplitKeys(t)[j], !.chs = SplitChs(t)[j]]]
SplitNodes(t) == [j \in 1..2 |-> [t EXCEPT !.keys = SplitKeys(t)[j], !.chs = <<>>]]

-------------------------------------------------------------------------------
(* The handlers of the copy-on-write update; the value is the task's sno *)

\* A leaf below cur is replaced.
LinkLeaves(h, c, i, leaves) ==
    Result([Alloc(h, c.sno, leaves) EXCEPT
               ![c.cur] = PutLeaves(@, i, leaves, <<Fresh(h, c.sno, 1), Fresh(h, c.sno, 2)>>)],
           [c EXCEPT !.op = "DONE"])

\* Mutant: a child that is not full is descended without a copy.
MutCopyChild(h, c, i) ==
    IF h[c.past].type = "LEAF" THEN LinkLeaves(h, c, i, UpdateLeafCow(h[c.past], c.key, c.sno))
    ELSE Result(h, [c EXCEPT !.cur = c.past, !.op = "SEARCH_DOWN"])

\* The child past, number i of cur: a leaf is replaced and ends the task, a
\* full node is split, any other copied.
CopyChild(h, c, i) ==
    LET p == h[c.past]  a == Fresh(h, c.sno, 1)  b == Fresh(h, c.sno, 2)
    IN  CASE p.type = "LEAF" -> LinkLeaves(h, c, i, UpdateLeafCow(p, c.key, c.sno))
          [] p.type # "LEAF" /\ IsFull(p) ->
               Result([Alloc(h, c.sno, SplitNodes(p)) EXCEPT
                          ![c.cur] = InsertChild(@, i, p.keys[B], a, b)],
                      [c EXCEPT !.idx = i, !.op = "SEARCH_SPLIT"])
          [] p.type # "LEAF" /\ ~IsFull(p) ->
               Result([Alloc(h, c.sno, <<[p EXCEPT !.chs = <<>>]>>) EXCEPT ![c.cur].chs[i] = a],
                      [c EXCEPT !.cur = a, !.op = "SEARCH_DOWN"])

\* The child on the way to the key.
UpdateCow(h, c) ==
    LET i == FindCh(h[c.cur], c.key) IN CopyChild(h, [c EXCEPT !.past = h[c.cur].chs[i]], i)

\* A root that is a leaf ends the task if it splits.  If not, it falls through
\* ("return DONE" is in the else branch) and is copied as an internal node,
\* so that its values are followed.
RootLeaf(h, c, leaves) ==
    LET top == Internal(<<leaves[2].keys[1]>>, <<Fresh(h, c.sno, 1), Fresh(h, c.sno, 2)>>)
    IN  IF Len(leaves) = 1 THEN Wild(h, c)
        ELSE Result(Alloc(h, c.sno, Append(leaves, top)),
                    [c EXCEPT !.root = Fresh(h, c.sno, 3), !.op = "DONE"])

\* The root is copied whole, under a new root if it is full.
HandleInit(h, c) ==
    LET t == h[c.past]
        top == Internal(<<t.keys[B]>>, <<Fresh(h, c.sno, 1), Fresh(h, c.sno, 2)>>)
        right == IsFull(t) /\ c.key >= t.keys[B]
    IN  IF t.type = "LEAF" THEN RootLeaf(h, c, UpdateLeafCow(t, c.key, c.sno))
        ELSE IF ~Copied(t) THEN Wild(h, c)
        ELSE UpdateCow(Alloc(h, c.sno, IF IsFull(t) THEN Append(Halves(t), top) ELSE <<t>>),
                       [c EXCEPT !.root = Fresh(h, c.sno, IF IsFull(t) THEN 3 ELSE 1),
                                 !.cur  = Fresh(h, c.sno, IF right THEN 2 ELSE 1)])

HandleSearchDown(h, c) ==
    IF ~Copied(h[c.past]) THEN Wild(h, c)
    ELSE UpdateCow([h EXCEPT ![c.cur].chs = h[c.past].chs], c)

HandleSearchSplit(h, c) ==
    LET t == h[c.cur]  l == t.chs[c.idx]  r == t.chs[c.idx + 1]  chs == SplitChs(h[c.past])
    IN  IF ~Copied(h[c.past]) THEN Wild(h, c)
        ELSE UpdateCow([h EXCEPT ![l].chs = chs[1], ![r].chs = chs[2]],
                       [c EXCEPT !.cur = IF t.keys[c.idx] <= c.key THEN r ELSE l])

HandleBTree(h, c) ==
    CASE c.op = "INIT"         -> HandleInit(h, c)
      [] c.op = "SEARCH_DOWN"  -> HandleSearchDown(h, c)
      [] c.op = "SEARCH_SPLIT" -> HandleSearchSplit(h, c)
===============================================================================
