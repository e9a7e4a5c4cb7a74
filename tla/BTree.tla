-------------------------------- MODULE BTree ---------------------------------
(* lib/trees/btree on a tree nobody shares: build, the update in place and    *)
(* the queries, which walk the whole tree, and the shape of a complete one.   *)
EXTENDS BTreeCow

-------------------------------------------------------------------------------
(* Build *)

\* The i-th of the Len(s) \div B nodes s is distributed over: B elements, and
\* one of the remaining Len(s) % B as the sum of the remainders carries.
Chunk(s, i) ==
    LET at(j) == j*B + (j * (Len(s) % B)) \div (Len(s) \div B)
    IN  SubSeq(s, at(i - 1) + 1, at(i))

RECURSIVE BuildInternal(_, _)
BuildInternal(keys, chs) ==
    IF Len(keys) < 2*B THEN Internal(Tail(keys), chs)
    ELSE LET nodes == 1..(Len(keys) \div B) IN
         BuildInternal([i \in nodes |-> Chunk(keys, i)[1]],
                       [i \in nodes |-> Internal(Tail(Chunk(keys, i)), Chunk(chs, i))])

\* From the sorted keys; an initial element has the value 0.
Build(keys) ==
    LET leaf(ks) == Leaf(ks, [i \in DOMAIN ks |-> 0]) IN
    IF Len(keys) < 2*B THEN leaf(keys)
    ELSE LET nodes == 1..(Len(keys) \div B) IN
         BuildInternal([i \in nodes |-> Chunk(keys, i)[1]],
                       [i \in nodes |-> leaf(Chunk(keys, i))])

-------------------------------------------------------------------------------
(* The update in place *)

UpdateLeafInplace(t, key, val) ==
    IF Holds(t, key) THEN <<[t EXCEPT !.vals[FindVal(t, key)] = val]>>
    ELSE InsertLeaf(t, key, val)

\* The parent with its full child i split.
SplitChild(t, i) ==
    LET p == t.chs[i] IN InsertChild(t, i, p.keys[B], Halves(p)[1], Halves(p)[2])

RECURSIVE UpdateInternal(_, _, _)

\* Mutant: after a split the update goes on in the left half.
MutUpdateSplit(t, i, key, val) ==
    LET full == IsFull(t.chs[i])  t2 == IF full THEN SplitChild(t, i) ELSE t
    IN  [t2 EXCEPT !.chs[i] = UpdateInternal(@, key, val)]

\* The child i that is not a leaf, split if it is full, is updated.
UpdateSplit(t, i, key, val) ==
    LET full == IsFull(t.chs[i])  t2 == IF full THEN SplitChild(t, i) ELSE t
        j == IF full /\ t.chs[i].keys[B] <= key THEN i + 1 ELSE i
    IN  [t2 EXCEPT !.chs[j] = UpdateInternal(@, key, val)]

ReplaceLeaf(t, i, leaves) == PutLeaves(t, i, leaves, leaves)

UpdateInternal(t, key, val) ==
    LET i == FindCh(t, key) IN
    IF t.chs[i].type = "LEAF" THEN ReplaceLeaf(t, i, UpdateLeafInplace(t.chs[i], key, val))
    ELSE UpdateSplit(t, i, key, val)

\* The root, or its halves under a new one.
OneRoot(leaves) == IF Len(leaves) = 1 THEN leaves[1] ELSE Internal(<<leaves[2].keys[1]>>, leaves)

UpdateRoot(t, key, val) ==
    LET over == [t EXCEPT !.keys = <<>>, !.chs = <<t>>] IN
    IF t.type = "LEAF" THEN OneRoot(UpdateLeafInplace(t, key, val))
    ELSE UpdateInternal(IF IsFull(t) THEN SplitChild(over, 1) ELSE t, key, val)

-------------------------------------------------------------------------------
(* Queries *)

RECURSIVE Find(_, _)
\* The value of the key, as a sequence of at most one.
Find(t, key) ==
    IF t.type # "LEAF" THEN Find(t.chs[FindCh(t, key)], key)
    ELSE LET i == FindVal(t, key) IN
         IF i <= Len(t.keys) /\ t.keys[i] = key THEN <<t.vals[i]>> ELSE <<>>

RECURSIVE Elements(_)
\* The elements from left to right, as scan_append reads them.
Elements(t) ==
    IF t.type = "LEAF" THEN [i \in DOMAIN t.keys |-> <<t.keys[i], t.vals[i]>>]
    ELSE FlattenSeq([i \in DOMAIN t.chs |-> Elements(t.chs[i])])

RECURSIVE ScanSearch(_, _)

\* The elements from the key on.
ScanSearch(t, key) ==
    IF t.type = "LEAF" THEN SubSeq(Elements(t), FindVal(t, key), Len(t.keys))
    ELSE LET i == FindCh(t, key)
         IN  ScanSearch(t.chs[i], key) \o FlattenSeq([j \in 1..(Len(t.chs) - i) |-> Elements(t.chs[i + j])])

\* The code leaves off once it has n.
Scan(t, key, n) == Take(ScanSearch(t, key), n)

-------------------------------------------------------------------------------
(* The shape of a complete tree *)

RECURSIVE Depths(_)
Depths(t) ==
    IF t.type = "LEAF" THEN {0}
    ELSE {d + 1 : d \in UNION {Depths(t.chs[i]) : i \in DOMAIN t.chs}}

Increasing(s) == \A i, j \in DOMAIN s : i < j => s[i] < s[j]

RECURSIVE SizesHold(_, _)
SizesHold(t, isRoot) ==
    /\ Len(t.keys) <= 2*B - 1
    /\ ~isRoot => Len(t.keys) >= IF t.type = "LEAF" THEN B ELSE B - 1
    /\ t.type # "LEAF" => Copied(t)
    /\ \A i \in DOMAIN t.chs : SizesHold(t.chs[i], FALSE)

\* A separator is above the keys before it and at most the keys behind it.
RECURSIVE SeparatorsHold(_)
SeparatorsHold(t) ==
    \A i \in DOMAIN t.chs :
        /\ SeparatorsHold(t.chs[i])
        /\ \A j \in DOMAIN t.keys : \A k \in DOMAIN Elements(t.chs[i]) :
             (j >= i) <=> (Elements(t.chs[i])[k][1] < t.keys[j])

WellFormed(t) ==
    /\ SizesHold(t, TRUE) /\ SeparatorsHold(t)
    /\ Cardinality(Depths(t)) = 1
    /\ Increasing([i \in DOMAIN Elements(t) |-> Elements(t)[i][1]])
===============================================================================
