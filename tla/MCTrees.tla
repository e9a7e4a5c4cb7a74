-------------------------------- MODULE MCTrees --------------------------------
(* Small trees: nodes of at most 3 keys (B = 2), radix 6 or 3, keys of 3 or 4 *)
(* digits.  Updates overlap as far as the ring and the waits let them; the    *)
(* ids 4, 8 and 12, {} below, are checkpoints but for the B-tree.             *)
EXTENDS Trees, TreeInductive

\* 2, 4, ..., 2n: what an update inserts is between two keys.
Even(n) == [i \in 1..n |-> 2 * i]

Load(built, txs) == [built |-> built, txs |-> txs]

BTreeLoads ==
    { \* full nodes on the way down; inserts and updates of keys that are there
      Load(Even(14), <<{27}, {29, 3}, {19, 30}, {5, 27}, {30, 2}>>),
      \* a root that is a leaf, with room and without
      Load(Even(2), <<{3, 4}>>),
      Load(Even(3), <<{3, 7}, {5}, {4, 8}>>) }

BeTreeLoads ==
    { \* leaves below the boundary grow, ask for a checkpoint and are rebuilt
      Load(Even(14), <<{2}, {5}, {27}, {}, {29}, {30}, {31}, {}, {32}, {33}, {34}, {}, {35, 27}>>),
      \* the same under a level of inner nodes, which grows by one
      Load(Even(30), <<{2}, {59}, {61}, {}, {62}, {63}, {64}, {}, {65}, {66}, {67}, {}, {3}>>),
      \* fewer levels than pipes: leaves in the upper part when it is rebuilt
      Load(<<10, 20, 30, 40, 50, 60>>, <<{1, 21}, {2}, {3}, {}, {4}, {41}, {5}, {}, {9}>>) }

ArtLoads ==
    { \* from the empty tree: forks of leaves and of prefixes
      Load(<<>>, <<{1, 31, 32}, {1, 32}, {31, 3}, {}, {0}>>),
      \* a node on its way from NODE48 to NODE256
      Load(<<1, 2, 37, 38, 39, 40>>, <<{3}, {41}, {36}, {}, {110, 43}>>) }

AertLoads ==
    { \* from the empty tree: forks, of embedded half digits too
      Load(<<>>, <<{1, 10, 40}, {9, 10}, {0, 40}, {}, {3, 1}>>),
      \* a full NODE16 that is split, with inserts behind it
      Load(<<0, 27, 54>>, <<{9}, {1}, {18}, {}, {3}>>),
      \* halves from the start, and a NODE16 behind a pointer with bits
      Load(<<0, 27, 54, 9, 28, 29>>, <<{30, 18}, {1, 36}, {40, 3}, {}, {4}>>) }

MCLoads == [btree |-> BTreeLoads, betree |-> BeTreeLoads, art |-> ArtLoads, aert |-> AertLoads]

MCKeySet == UNION {UNION ToSet(l.txs) : l \in UNION {MCLoads[s] : s \in DOMAIN MCLoads}}

\* NODE256 has as many children as there are digits, 6.
MCCapacity == [NODE4 |-> 2, NODE16 |-> 3, NODE48 |-> 4]
===============================================================================
