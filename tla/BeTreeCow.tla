------------------------------ MODULE BeTreeCow -------------------------------
(* lib/trees/betree, what an update copy-on-write is made of.  From the root  *)
(* down the nodes are UPPER, one BOUNDARY, and LOWER.  Only the part below    *)
(* the boundary, which workers update, splits nodes: an elastic subtree grows *)
(* a root of its own, and one higher than E asks for a checkpoint.            *)
(*                                                                            *)
(* verge (in a root) is the level of the boundary, height the number of       *)
(* levels an elastic subtree has grown by.  Operations on the arrays of a     *)
(* node are the same text as btree's.                                         *)
EXTENDS BTreeCow

CONSTANT E            \* levels an elastic subtree may grow by

Node(type, ks, vs, chs) ==
    [type |-> type, keys |-> ks, vals |-> vs, chs |-> chs, verge |-> 0, height |-> 0]

\* new_root; top has the type, verge and height that the root is given.
Root(top, key, l, r) == [top EXCEPT !.keys = <<key>>, !.chs = <<l, r>>]

-------------------------------------------------------------------------------
(* The handlers of the copy-on-write update *)

\* The nodes that replace a leaf, the last one on top, which is a new root if
\* the leaf split.
OverLeaves(h, c, leaves, top) ==
    IF Len(leaves) = 1 THEN leaves
    ELSE Append(leaves, Root(top, leaves[2].keys[1], Fresh(h, c.sno, 1), Fresh(h, c.sno, 2)))
ReplaceLeaf(h, c, leaf, top) == OverLeaves(h, c, UpdateLeafCow(leaf, c.key, c.sno), top)

\* Mutant: a task below the boundary waits for one stage only.
MutUpperNodes(h, c, t, nodes) ==
    Result(Alloc(h, c.sno, nodes),
           [c EXCEPT !.cur = Fresh(h, c.sno, Len(nodes)),
                     !.op = CASE t.type = "LEAF" -> "DONE" [] t.type = "BOUNDARY" -> "SEARCH_ELASTIC"
                              [] OTHER -> "SEARCH_UPPER"])

\* The nodes made for one of the upper part, the last one on top.
UpperNodes(h, c, t, nodes) ==
    Result(Alloc(h, c.sno, nodes),
           [c EXCEPT !.cur = Fresh(h, c.sno, Len(nodes)),
                     !.wait_child = t.type = "BOUNDARY",
                     !.op = CASE t.type = "LEAF" -> "DONE" [] t.type = "BOUNDARY" -> "SEARCH_ELASTIC"
                              [] OTHER -> "SEARCH_UPPER"])

\* The copy of past, which the caller links to: cur of the result.
UpdateUpperCow(h, c) ==
    LET t == h[c.past]
        boundary == [Node("BOUNDARY", <<>>, <<>>, <<>>) EXCEPT !.verge = t.verge]
    IN  UpperNodes(h, c, t, IF t.type = "LEAF" THEN ReplaceLeaf(h, c, t, boundary)
                            ELSE <<[t EXCEPT !.chs = <<>>]>>)

\* As btree's update_cow.
Lower(r) == [r EXCEPT !.ctx.op = IF @ = "SEARCH_DOWN" THEN "SEARCH_LOWER" ELSE @]
UpdateLowerCow(h, c) == Lower(UpdateCow(h, c))

HandleInitUpper(h, c) == Rooted(UpdateUpperCow(h, c))

HandleUpper(h, c) ==
    LET past == h[c.past]
        i == FindCh(past, c.key)
    IN  IF ~Copied(past) THEN Wild(h, c)
        ELSE Linked(UpdateUpperCow([h EXCEPT ![c.cur].chs = past.chs], [c EXCEPT !.past = past.chs[i]]),
                    c.cur, i)

\* Mutant: a subtree that has grown too high goes unnoticed.
MutTooHigh(height) == FALSE

TooHigh(height) == height > E

\* The nodes that replace the root t of an elastic subtree: it is copied whole,
\* under a new root if it is full.
ElasticNodes(h, c, t) ==
    LET grown == [Node("LOWER", <<>>, <<>>, <<>>) EXCEPT !.height = t.height + 1] IN
    CASE t.type = "LEAF" -> ReplaceLeaf(h, c, t, grown)
      [] t.type # "LEAF" /\ ~IsFull(t) -> <<t>>
      [] OTHER -> Append(Halves(t), Root(grown, t.keys[B], Fresh(h, c.sno, 1), Fresh(h, c.sno, 2)))

\* They are linked to cur, and the task goes on below.
Descend(h, c, i, t, nodes) ==
    LET right == Len(nodes) = 3 /\ c.key >= nodes[3].keys[1]
        h2 == [Alloc(h, c.sno, nodes) EXCEPT ![c.cur].chs = [h[c.past].chs EXCEPT ![i] = Fresh(h, c.sno, Len(nodes))]]
        c2 == [c EXCEPT !.past = h[c.past].chs[i],
                        !.cur = Fresh(h, c.sno, IF right THEN 2 ELSE 1),
                        !.new_checkpoint = Len(nodes) = 3 /\ TooHigh(t.height + 1)]
    IN  IF t.type = "LEAF" THEN Result(h2, [c2 EXCEPT !.op = "DONE"]) ELSE UpdateLowerCow(h2, c2)

HandleElastic(h, c) ==
    LET past == h[c.past]
        i == FindCh(past, c.key)
        t == h[past.chs[i]]
    IN  IF Copied(past) /\ (t.type = "LEAF" \/ Copied(t))
        THEN Descend(h, c, i, t, ElasticNodes(h, c, t))
        ELSE Wild(h, c)

HandleLower(h, c) ==
    IF ~Copied(h[c.past]) THEN Wild(h, c)
    ELSE UpdateLowerCow([h EXCEPT ![c.cur].chs = h[c.past].chs], c)

HandleSplit(h, c) == Lower(HandleSearchSplit(h, c))

HandleBeTree(h, c) ==
    CASE c.op = "INIT"           -> HandleInitUpper(h, c)
      [] c.op = "SEARCH_UPPER"   -> HandleUpper(h, c)
      [] c.op = "SEARCH_ELASTIC" -> HandleElastic(h, c)
      [] c.op = "SEARCH_LOWER"   -> HandleLower(h, c)
      [] c.op = "SEARCH_SPLIT"   -> HandleSplit(h, c)
===============================================================================
