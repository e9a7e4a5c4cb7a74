-------------------------------- MODULE BeTree --------------------------------
(* lib/trees/betree on whole trees: build, the rebuild of the upper part, for *)
(* which ENTRY waits at a checkpoint, the update in place and the queries.    *)
(* What is the same text in btree is BT.                                      *)
EXTENDS BeTreeCow

BT == INSTANCE BTree

-------------------------------------------------------------------------------
(* Build: h levels of UPPER nodes, a level of BOUNDARY nodes *)

\* The type of the nodes d levels below the top.
Level(d, h) == CASE d < h -> "UPPER" [] d = h -> "BOUNDARY" [] OTHER -> "LOWER"

RECURSIVE BuildInternal(_, _, _)
\* The top node and the number of levels.
BuildInternal(h, keys, chs) ==
    IF Len(keys) < 2*B
    THEN [top   |-> [Node(IF h = 0 THEN "BOUNDARY" ELSE "UPPER", Tail(keys), <<>>, chs)
                        EXCEPT !.verge = h],
          depth |-> 1]
    ELSE LET nodes == 1..(Len(keys) \div B)
             firsts == [i \in nodes |-> BT!Chunk(keys, i)[1]]
             \* the depth does not depend on the children
             d == BuildInternal(h, firsts, [i \in nodes |-> Nil]).depth
             level == [i \in nodes |-> Node(Level(d, h), Tail(BT!Chunk(keys, i)), <<>>, BT!Chunk(chs, i))]
         IN  [top |-> BuildInternal(h, firsts, level).top, depth |-> d + 1]

\* From the sorted elements.
BuildSorted(h, elems) ==
    LET leaf(es) == Node("LEAF", [i \in DOMAIN es |-> es[i][1]], [i \in DOMAIN es |-> es[i][2]], <<>>)
        nodes == 1..(Len(elems) \div B)
    IN  IF Len(elems) < 2*B THEN [leaf(elems) EXCEPT !.verge = h]
        ELSE BuildInternal(h, [i \in nodes |-> BT!Chunk(elems, i)[1][1]],
                              [i \in nodes |-> leaf(BT!Chunk(elems, i))]).top

\* An initial element has the value 0.
Build(h, keys) == BuildSorted(h, [i \in DOMAIN keys |-> <<keys[i], 0>>])

-------------------------------------------------------------------------------
(* Rebuild, at a checkpoint *)

RECURSIVE Unfold(_, _)
\* unfold_upper_part and, below the boundary, unfold_extra: the subtrees that
\* have not grown, each with the separator before it (0 before the first).
Unfold(t, first) ==
    LET below(i) == Unfold(t.chs[i], IF i = 1 THEN first ELSE t.keys[i - 1])
    IN  FlattenSeq([i \in DOMAIN t.chs |->
            IF t.type = "UPPER" \/ t.chs[i].height > 0 THEN below(i)
            ELSE <<[key |-> IF i = 1 THEN first ELSE t.keys[i - 1], sub |-> t.chs[i]]>>])

RECURSIVE Leftmost(_, _)
\* leaf_over_boundary: there is a leaf among the first nodes of the h + 1
\* upper levels.
Leftmost(t, h) == t.type = "LEAF" \/ (h > 0 /\ Leftmost(t.chs[1], h - 1))

RECURSIVE LeafOverBoundary(_)
\* There is one anywhere: unfold_upper_part takes its values for pointers.
LeafOverBoundary(t) ==
    \/ t.type = "LEAF"
    \/ t.type = "UPPER" /\ \E i \in DOMAIN t.chs : LeafOverBoundary(t.chs[i])

RebuildEntire(t, h)   == BuildSorted(h, BT!Elements(t))
RebuildInternal(t, h) ==
    LET s == Unfold(t, 0)
    IN  BuildInternal(h, [i \in DOMAIN s |-> s[i].key], [i \in DOMAIN s |-> s[i].sub]).top

\* The new tree; none if values are followed.
Rebuild(t, h) ==
    CASE Leftmost(t, h) -> <<RebuildEntire(t, h)>>
      [] ~Leftmost(t, h) /\ LeafOverBoundary(t) -> <<>>
      [] OTHER -> <<RebuildInternal(t, h)>>

-------------------------------------------------------------------------------
(* The update in place and the queries *)

UpdateRoot(t, key, val) ==
    LET over(ks, chs) == [Node("LOWER", ks, <<>>, chs) EXCEPT !.verge = t.verge]
        oneRoot(leaves) == IF Len(leaves) = 1 THEN leaves[1] ELSE over(<<leaves[2].keys[1]>>, leaves)
    IN  IF t.type = "LEAF" THEN oneRoot(BT!UpdateLeafInplace(t, key, val))
        ELSE BT!UpdateInternal(IF BT!IsFull(t) THEN BT!SplitChild(over(<<>>, <<t>>), 1) ELSE t, key, val)

Find(t, key)    == BT!Find(t, key)
Scan(t, key, n) == BT!Scan(t, key, n)

-------------------------------------------------------------------------------
(* The shape of a complete tree *)

RECURSIVE HeightsHold(_)
\* Below a subtree that has grown, all nodes are of the level it counts.
HeightsHold(t) ==
    \A i \in DOMAIN t.chs :
        /\ HeightsHold(t.chs[i])
        /\ t.height > 0 => t.chs[i].height = t.height - 1

\* Of the part that a rebuild puts under new nodes, the leaves are on one level.
LevelsHold(t) ==
    LeafOverBoundary(t) \/
    LET s == Unfold(t, 0)
    IN  Cardinality(UNION {BT!Depths(s[i].sub) : i \in DOMAIN s}) = 1

RECURSIVE CapacityHolds(_)
\* A new root or the half of a node may have any number of keys it has room for.
CapacityHolds(t) ==
    /\ Len(t.keys) \in 1..(2*B - 1)
    /\ t.type # "LEAF" => Copied(t)
    /\ \A i \in DOMAIN t.chs : CapacityHolds(t.chs[i])

RECURSIVE Overgrowth(_)
\* The levels that the subtrees below the boundary have grown by above E, in all.
Overgrowth(t) ==
    FoldFunction(+, 0, [i \in DOMAIN t.chs |->
        IF t.type = "BOUNDARY" THEN IF t.chs[i].height > E THEN t.chs[i].height - E ELSE 0
        ELSE Overgrowth(t.chs[i])])

WellFormed(t) == CapacityHolds(t) /\ BT!SeparatorsHold(t) /\ HeightsHold(t) /\ LevelsHold(t)
===============================================================================
