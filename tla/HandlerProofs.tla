----------------------------- MODULE HandlerProofs -----------------------------
(* The memory that the tasks of TreeTasks share, and what the handlers of the  *)
(* B-trees and of the adaptive radix tree do with it: a handler that finds     *)
(* what TreeInductive says of its task leaves a memory of nodes that fit, in   *)
(* which no node of another task has changed (Leaves).                         *)
EXTENDS TreeInductive, SequenceTheorems, FiniteSetTheorems, NaturalsInduction,
        WellFoundedInduction, TLAPS

-------------------------------------------------------------------------------
(* Numbers and sequences *)

\* A set of numbers has a least one.
LEMMA Least ==
  ASSUME NEW S \in SUBSET Nat, S # {}
  PROVE  Min(S) \in S /\ \A x \in S : Min(S) <= x
<1>1. PICK x \in S : \A y \in S : <<y, x>> \notin OpToRel(<, Nat)
  BY NatLessThanWellFounded, WFMin, Zenon
<1>2. \A y \in S : ~(y < x)
  <2>1. SUFFICES ASSUME NEW y \in S, y < x PROVE FALSE
    OBVIOUS
  <2>2. <<y, x>> \in Nat \X Nat /\ <<y, x>>[1] < <<y, x>>[2]
    BY <2>1
  <2>3. <<y, x>> \in OpToRel(<, Nat)
    BY <2>2, Zenon DEF OpToRel
  <2> QED
    BY <1>1, <2>3
<1>3. \A y \in S : x <= y
  BY <1>2
<1>4. \E z \in S : \A y \in S : z <= y
  BY <1>3
<1> QED
  BY <1>4, Zenon DEF Min

\* u is the sequence s with an element e put in at i.
IsInsertion(S, s, i, e, u) ==
    /\ u \in Seq(S)
    /\ Len(u) = Len(s) + 1
    /\ \A j \in 1..(Len(s) + 1) : u[j] = IF j < i THEN s[j] ELSE IF j = i THEN e ELSE s[j - 1]

LEMMA EvenStays == \A n \in Nat : n % 2 = 0 => n + (n % 2) = n
OBVIOUS

LEMMA AtMostTransitive == \A i, j, k \in Nat : i <= j /\ j <= k => i <= k
OBVIOUS

\* A position of a sequence no longer than another one is a position of that one.
LEMMA EarlierPosition ==
  ASSUME NEW S, NEW s \in Seq(S), NEW n \in Nat, n <= Len(s), NEW i \in 1..n
  PROVE  i \in DOMAIN s /\ s[i] \in S
<1>1. Len(s) \in Nat /\ DOMAIN s = 1..Len(s) /\ \A j \in 1..Len(s) : s[j] \in S
  BY LenProperties
<1>2. i \in 1..Len(s)
  BY <1>1
<1> QED
  BY <1>1, <1>2

LEMMA InsertAtSeq ==
  ASSUME NEW S, NEW s \in Seq(S), NEW i \in 1..(Len(s) + 1), NEW e \in S
  PROVE  IsInsertion(S, s, i, e, InsertAt(s, i, e))
<1> DEFINE l == SubSeq(s, 1, i - 1)  m == <<e>>  r == SubSeq(s, i, Len(s))
<1>1. Len(s) \in Nat /\ i \in Nat /\ \A j \in 1..Len(s) : s[j] \in S
  BY LenProperties
<1>2. l \in Seq(S) /\ Len(l) = i - 1 /\ \A j \in 1..(i - 1) : l[j] = s[j]
  BY <1>1, SubSeqProperties
<1>3. r \in Seq(S) /\ Len(r) = Len(s) - i + 1 /\ \A j \in 1..(Len(s) - i + 1) : r[j] = s[i + j - 1]
  BY <1>1, SubSeqProperties
<1>4. m \in Seq(S) /\ Len(m) = 1 /\ m[1] = e
  OBVIOUS
<1> HIDE DEF l, m, r
<1>5. l \o m \in Seq(S) /\ Len(l \o m) = i
      /\ \A j \in 1..i : (l \o m)[j] = IF j < i THEN s[j] ELSE e
  <2>1. /\ l \o m \in Seq(S) /\ Len(l \o m) = Len(l) + Len(m)
        /\ \A j \in 1..(Len(l) + Len(m)) :
             (l \o m)[j] = IF j <= Len(l) THEN l[j] ELSE m[j - Len(l)]
    BY <1>2, <1>4, ConcatProperties, Zenon
  <2> QED
    BY <1>1, <1>2, <1>4, <2>1
<1>6. LET lm == l \o m
      IN  /\ lm \o r \in Seq(S) /\ Len(lm \o r) = Len(s) + 1
          /\ \A j \in 1..(Len(s) + 1) : (lm \o r)[j] = IF j <= i THEN lm[j] ELSE r[j - i]
  <2> DEFINE lm == l \o m
  <2>0. lm \in Seq(S)
    BY <1>5
  <2> HIDE DEF lm
  <2>1. /\ lm \o r \in Seq(S) /\ Len(lm \o r) = Len(lm) + Len(r)
        /\ \A j \in 1..(Len(lm) + Len(r)) :
             (lm \o r)[j] = IF j <= Len(lm) THEN lm[j] ELSE r[j - Len(lm)]
    BY <2>0, <1>3, ConcatProperties, Zenon
  <2>2. Len(lm) = i /\ Len(lm) + Len(r) = Len(s) + 1
    BY <1>1, <1>3, <1>5 DEF lm
  <2> QED
    BY <2>1, <2>2 DEF lm
<1>7. \A j \in 1..(Len(s) + 1) : j > i => r[j - i] = s[j - 1]
  BY <1>1, <1>3
<1>8. InsertAt(s, i, e) = (l \o m) \o r
  BY DEF InsertAt, l, m, r
<1> QED
  BY <1>1, <1>5, <1>6, <1>7, <1>8 DEF IsInsertion


\* A position the functions on nodes look for: of a separator above the key,
LEMMA FindChRange ==
  ASSUME NEW t, t.keys \in Seq(Nat), NEW key
  PROVE  FindCh(t, key) \in 1..(Len(t.keys) + 1)
<1> DEFINE I == {i \in 1..Len(t.keys) : t.keys[i] > key}
           f == IF I # {} THEN Min(I) ELSE 0
<1>1. Len(t.keys) \in Nat
  BY LenProperties
<1>2. I \subseteq 1..Len(t.keys) /\ I \in SUBSET Nat
  BY <1>1
<1>3. FindCh(t, key) = IF f = 0 THEN Len(t.keys) + 1 ELSE f
  BY DEF FindCh, FirstKey, SelectInSeq
<1> HIDE DEF I
<1>4. f \in 0..Len(t.keys)
  <2>1. CASE I = {}
    BY <1>1, <2>1
  <2>2. CASE I # {}
    <3>1. Min(I) \in 1..Len(t.keys)
      BY <1>2, <2>2, Least
    <3> QED
      BY <2>2, <3>1
  <2> QED
    BY <2>1, <2>2
<1> HIDE DEF f
<1> QED
  BY <1>1, <1>3, <1>4

\* and of a key of a leaf that is not below it.
LEMMA FindValRange ==
  ASSUME NEW t, t.keys \in Seq(Nat), NEW key
  PROVE  FindVal(t, key) \in 1..(Len(t.keys) + 1)
<1> DEFINE I == {i \in 1..Len(t.keys) : t.keys[i] >= key}
           f == IF I # {} THEN Min(I) ELSE 0
<1>1. Len(t.keys) \in Nat
  BY LenProperties
<1>2. I \subseteq 1..Len(t.keys) /\ I \in SUBSET Nat
  BY <1>1
<1>3. FindVal(t, key) = IF f = 0 THEN Len(t.keys) + 1 ELSE f
  BY DEF FindVal, FirstKey, SelectInSeq
<1> HIDE DEF I
<1>4. f \in 0..Len(t.keys)
  <2>1. CASE I = {}
    BY <1>1, <2>1
  <2>2. CASE I # {}
    <3>1. Min(I) \in 1..Len(t.keys)
      BY <1>2, <2>2, Least
    <3> QED
      BY <2>2, <3>1
  <2> QED
    BY <2>1, <2>2
<1> HIDE DEF f
<1> QED
  BY <1>1, <1>3, <1>4

-------------------------------------------------------------------------------
(* The memory *)

\* The nodes of h hold what a node may, with N for the pointers to none.
Nodes(h, N) ==
    \A id \in DOMAIN h : Version(id) \in Nat /\ IsNode(h[id], Upto(h, Version(id)) \union N)

\* The memory r is h and what the task v has made and written: no node is
\* gone, none of another task has changed, and none has lost a key.
Grows(h, r, v) ==
    /\ DOMAIN h \subseteq DOMAIN r
    /\ \A id \in DOMAIN r : id \notin DOMAIN h => Version(id) = v
    /\ \A id \in DOMAIN h : Version(id) # v => r[id] = h[id]
    /\ \A id \in DOMAIN h : Len(r[id].keys) >= Len(h[id].keys)
    /\ Numbered(r, v)

LEMMA NumbersCounted ==
  ASSUME NEW v, NEW n \in Nat
  PROVE  LET S == {<<v, k>> : k \in 1..n} IN IsFiniteSet(S) /\ Cardinality(S) = n
<1> DEFINE S == {<<v, k>> : k \in 1..n}
           f == [k \in 1..n |-> <<v, k>>]
<1>1. f \in Bijection(1..n, S)
  <2>1. f \in [1..n -> S]
    OBVIOUS
  <2>2. \A a, b \in 1..n : f[a] = f[b] => a = b
    OBVIOUS
  <2>3. \A x \in S : \E k \in 1..n : f[k] = x
    OBVIOUS
  <2> QED
    BY <2>1, <2>2, <2>3, Zenon DEF Bijection, Injection, Surjection, IsInjective
<1>2. IsFiniteSet(1..n) /\ Cardinality(1..n) = n
  BY FS_Interval
<1> HIDE DEF S, f
<1>3. ExistsBijection(1..n, S)
  BY <1>1 DEF ExistsBijection
<1> QED
  BY <1>2, <1>3, FS_Bijection DEF S

\* r is h and n new nodes of the task v.
Extends(h, v, n, nodes, r) ==
    /\ DOMAIN r = DOMAIN h \union {Fresh(h, v, k) : k \in 1..n}
    /\ \A k \in 1..n : /\ Fresh(h, v, k) \notin DOMAIN h /\ Version(Fresh(h, v, k)) = v
                       /\ r[Fresh(h, v, k)] = nodes[k]
    /\ \A j, k \in 1..n : Fresh(h, v, j) = Fresh(h, v, k) => j = k
    /\ \A id \in DOMAIN h : r[id] = h[id]
    /\ Numbered(r, v)

\* What aligned_alloc gives a task: identities of its own that are new.
LEMMA AllocNodes ==
  ASSUME NEW h, NEW v, Numbered(h, v), NEW n \in Nat, NEW nodes, DOMAIN nodes = 1..n
  PROVE  Extends(h, v, n, nodes, Alloc(h, v, nodes))
<1> DEFINE m == Cardinality(OwnNodes(h, v))
           r == Alloc(h, v, nodes)
           new == {<<v, m + k>> : k \in 1..n}
<1>1. m \in Nat /\ OwnNodes(h, v) = {<<v, k>> : k \in 1..m}
  BY FS_CardinalityType DEF Numbered
<1>2. \A k : Fresh(h, v, k) = <<v, k + m>>
  BY DEF Fresh, OwnNodes
<1>3. \A k \in 1..n : <<v, m + k>> \notin DOMAIN h
  <2>1. SUFFICES ASSUME NEW k \in 1..n, <<v, m + k>> \in DOMAIN h PROVE FALSE
    OBVIOUS
  <2>2. <<v, m + k>> \in OwnNodes(h, v)
    BY <2>1 DEF OwnNodes, Version
  <2>3. PICK j \in 1..m : <<v, m + k>> = <<v, j>>
    BY <1>1, <2>2
  <2> QED
    BY <1>1, <2>3
<1>4. r = [id \in DOMAIN h \union new |-> IF id \in new THEN nodes[id[2] - m] ELSE h[id]]
  BY DEF Alloc, OwnNodes
<1> HIDE DEF m, r
<1>5. \A k \in 1..n : Fresh(h, v, k) = <<v, m + k>>
  BY <1>1, <1>2
<1>6. \A k \in 1..n : r[<<v, m + k>>] = nodes[k]
  <2>1. SUFFICES ASSUME NEW k \in 1..n PROVE r[<<v, m + k>>] = nodes[k]
    OBVIOUS
  <2>2. <<v, m + k>> \in new /\ <<v, m + k>>[2] - m = k
    BY <1>1
  <2> QED
    BY <1>4, <2>2
<1>7. \A id \in DOMAIN h : r[id] = h[id]
  BY <1>3, <1>4
<1>8. DOMAIN r = DOMAIN h \union new
  BY <1>4
<1>9. OwnNodes(r, v) = {<<v, k>> : k \in 1..(m + n)}
  <2>1. OwnNodes(r, v) = OwnNodes(h, v) \union new
    BY <1>8 DEF OwnNodes, Version
  <2>2. ASSUME NEW k \in 1..(m + n) PROVE <<v, k>> \in OwnNodes(r, v)
    <3>1. CASE k <= m
      BY <1>1, <2>1, <3>1
    <3>2. CASE k > m
      <4>1. k - m \in 1..n /\ k = m + (k - m)
        BY <1>1, <3>2
      <4> QED
        BY <2>1, <4>1
    <3> QED
      BY <1>1, <3>1, <3>2
  <2>3. ASSUME NEW id \in OwnNodes(r, v) PROVE \E k \in 1..(m + n) : id = <<v, k>>
    BY <1>1, <2>1
  <2> QED
    BY <2>2, <2>3
<1>10. Numbered(r, v)
  <2>1. m + n \in Nat
    BY <1>1
  <2>2. /\ IsFiniteSet({<<v, k>> : k \in 1..(m + n)})
        /\ Cardinality({<<v, k>> : k \in 1..(m + n)}) = m + n
    BY <2>1, NumbersCounted
  <2> QED
    BY <1>9, <2>2 DEF Numbered
<1>11. {Fresh(h, v, k) : k \in 1..n} = new
  BY <1>5
<1>12. \A j, k \in 1..n : Fresh(h, v, j) = Fresh(h, v, k) => j = k
  <2>1. SUFFICES ASSUME NEW j \in 1..n, NEW k \in 1..n, <<v, m + j>> = <<v, m + k>> PROVE j = k
    BY <1>5
  <2> QED
    BY <1>1, <2>1
<1>13. \A k \in 1..n : /\ Fresh(h, v, k) \notin DOMAIN h /\ Version(Fresh(h, v, k)) = v
                        /\ r[Fresh(h, v, k)] = nodes[k]
  BY <1>3, <1>5, <1>6 DEF Version
<1> HIDE DEF new
<1> QED
  BY <1>7, <1>8, <1>10, <1>11, <1>12, <1>13, Zenon DEF r, Extends

LEMMA MoreTargets ==
  ASSUME NEW t, NEW S, NEW T, IsNode(t, S), S \subseteq T
  PROVE  IsNode(t, T)
BY SeqMonotonic DEF IsNode

\* What is in the memory of a version stays there.
LEMMA GrowsKeeps ==
  ASSUME NEW h, NEW r, NEW v, Grows(h, r, v)
  PROVE  /\ \A w : Upto(h, w) \subseteq Upto(r, w)
         /\ \A w : OwnNodes(h, w) \subseteq OwnNodes(r, w)
         /\ \A w : w # v => OwnNodes(r, w) = OwnNodes(h, w)
BY DEF Grows, Upto, OwnNodes

LEMMA GrowsGrows ==
  ASSUME NEW h, NEW g, NEW r, NEW v, NEW N, Nodes(h, N), Nodes(g, N), Nodes(r, N),
         Grows(h, g, v), Grows(g, r, v)
  PROVE  Grows(h, r, v)
<1>1. \A id \in DOMAIN h : id \in DOMAIN g /\ id \in DOMAIN r
  BY DEF Grows
<1>2. \A id \in DOMAIN h : /\ Len(h[id].keys) \in Nat /\ Len(g[id].keys) \in Nat
                           /\ Len(r[id].keys) \in Nat
  BY <1>1, LenProperties DEF Nodes, IsNode
<1>3. \A id \in DOMAIN h : Len(r[id].keys) >= Len(h[id].keys)
  BY <1>1, <1>2 DEF Grows
<1> QED
  BY <1>1, <1>3 DEF Grows

LEMMA GrowsSame ==
  ASSUME NEW h, NEW v, NEW N, Nodes(h, N), Numbered(h, v)
  PROVE  Grows(h, h, v)
<1>1. \A id \in DOMAIN h : Len(h[id].keys) \in Nat
  BY LenProperties DEF Nodes, IsNode
<1> QED
  BY <1>1 DEF Grows

\* A task makes nodes that lead to nodes there are, or to one another.
LEMMA AllocGrows ==
  ASSUME NEW h, NEW N, Nodes(h, N), NEW v \in Nat, Numbered(h, v),
         NEW n \in Nat, NEW nodes, DOMAIN nodes = 1..n,
         \A k \in 1..n : IsNode(nodes[k], Upto(h, v) \union {Fresh(h, v, j) : j \in 1..n} \union N)
  PROVE  Nodes(Alloc(h, v, nodes), N) /\ Grows(h, Alloc(h, v, nodes), v)
<1> DEFINE r == Alloc(h, v, nodes)
           new == {Fresh(h, v, j) : j \in 1..n}
<1> HIDE DEF r, new
<1>0. Numbered(h, v) /\ DOMAIN nodes = 1..n
  OBVIOUS
<1>a. Extends(h, v, n, nodes, r)
  BY <1>0, AllocNodes DEF r
<1>1. /\ DOMAIN r = DOMAIN h \union new
      /\ \A k \in 1..n : /\ Fresh(h, v, k) \notin DOMAIN h /\ Version(Fresh(h, v, k)) = v
                         /\ r[Fresh(h, v, k)] = nodes[k]
      /\ \A id \in DOMAIN h : r[id] = h[id]
      /\ Numbered(r, v)
  BY <1>a DEF new, Extends
<1> USE DEF new
<1>2. \A id \in new : id \notin DOMAIN h /\ Version(id) = v /\ \E k \in 1..n : r[id] = nodes[k]
  BY <1>1
<1>3. \A id \in DOMAIN h : Len(h[id].keys) \in Nat
  BY LenProperties DEF Nodes, IsNode
<1>4. Grows(h, r, v)
  BY <1>1, <1>2, <1>3 DEF Grows
<1>5. Upto(h, v) \union new \union N \subseteq Upto(r, v) \union N
  <2>1. new \subseteq Upto(r, v)
    BY <1>1, <1>2 DEF Upto
  <2> QED
    BY <1>4, <2>1, GrowsKeeps
<1>6. ASSUME NEW id \in DOMAIN r
      PROVE  Version(id) \in Nat /\ IsNode(r[id], Upto(r, Version(id)) \union N)
  <2>1. CASE id \in DOMAIN h
    <3>1. IsNode(h[id], Upto(h, Version(id)) \union N) /\ Version(id) \in Nat
      BY <2>1 DEF Nodes
    <3>2. Upto(h, Version(id)) \union N \subseteq Upto(r, Version(id)) \union N
      BY <1>4, GrowsKeeps
    <3> QED
      BY <1>1, <2>1, <3>1, <3>2, MoreTargets
  <2>2. CASE id \in new
    <3>1. PICK k \in 1..n : r[id] = nodes[k]
      BY <1>2, <2>2
    <3>2. IsNode(nodes[k], Upto(h, v) \union new \union N)
      OBVIOUS
    <3> QED
      BY <1>2, <1>5, <2>2, <3>1, <3>2, MoreTargets
  <2> QED
    BY <1>1, <2>1, <2>2
<1> QED
  BY <1>4, <1>6 DEF Nodes, r

\* A task writes a node of its own.
LEMMA WriteGrows ==
  ASSUME NEW h, NEW N, Nodes(h, N), NEW v, Numbered(h, v),
         NEW cur \in OwnNodes(h, v), NEW t, IsNode(t, Upto(h, v) \union N),
         Len(t.keys) >= Len(h[cur].keys)
  PROVE  Nodes([h EXCEPT ![cur] = t], N) /\ Grows(h, [h EXCEPT ![cur] = t], v)
<1> DEFINE r == [h EXCEPT ![cur] = t]
<1>1. cur \in DOMAIN h /\ Version(cur) = v
  BY DEF OwnNodes
<1>2. DOMAIN r = DOMAIN h /\ r[cur] = t /\ \A id \in DOMAIN h : id # cur => r[id] = h[id]
  BY <1>1
<1>3. \A w : Upto(r, w) = Upto(h, w) /\ OwnNodes(r, w) = OwnNodes(h, w)
  BY <1>2 DEF Upto, OwnNodes
<1>4. Nodes(r, N)
  BY <1>1, <1>2, <1>3 DEF Nodes
<1>5. \A id \in DOMAIN h : Len(h[id].keys) \in Nat
  BY LenProperties DEF Nodes, IsNode
<1>6. Numbered(r, v)
  BY <1>3 DEF Numbered
<1> HIDE DEF r
<1>7. Grows(h, r, v)
  BY <1>1, <1>2, <1>5, <1>6 DEF Grows
<1> QED
  BY <1>4, <1>7 DEF r

-------------------------------------------------------------------------------
(* The nodes of the B-trees *)

LEMMA InsertChildNode ==
  ASSUME NEW S, NEW t, IsNode(t, S), NEW i \in DOMAIN t.chs, i \in 1..(Len(t.keys) + 1),
         NEW key \in Nat, NEW l \in S, NEW r \in S
  PROVE  LET n == InsertChild(t, i, key, l, r) IN
         /\ IsNode(n, S)
         /\ Len(n.keys) = Len(t.keys) + 1
         /\ i \in 1..(Len(n.chs) - 1) /\ n.chs[i] = l /\ n.chs[i + 1] = r
<1> DEFINE n == InsertChild(t, i, key, l, r)
           chs == [t.chs EXCEPT ![i] = l]
<1>1. /\ {"type", "keys", "chs"} \subseteq DOMAIN t /\ t.keys \in Seq(Nat) /\ t.chs \in Seq(S)
      /\ Len(t.keys) \in Nat /\ Len(t.chs) \in Nat /\ i \in 1..Len(t.chs)
  BY LenProperties DEF IsNode
<1>2. chs \in Seq(S) /\ Len(chs) = Len(t.chs) /\ chs[i] = l
  BY <1>1, ExceptSeq
<1>3. /\ DOMAIN n = DOMAIN t
      /\ n.keys = InsertAt(t.keys, i, key)
      /\ n.chs = InsertAt(chs, i + 1, r)
  BY <1>1 DEF InsertChild
<1> HIDE DEF chs, n
<1>4. n.keys \in Seq(Nat) /\ Len(n.keys) = Len(t.keys) + 1
  BY <1>1, <1>3, InsertAtSeq DEF IsInsertion
<1>5. /\ n.chs \in Seq(S) /\ Len(n.chs) = Len(t.chs) + 1
      /\ \A j \in 1..(Len(t.chs) + 1) :
           n.chs[j] = IF j < i + 1 THEN chs[j] ELSE IF j = i + 1 THEN r ELSE chs[j - 1]
  <2> DEFINE k == i + 1
  <2>1. k \in 1..(Len(chs) + 1)
    BY <1>1, <1>2
  <2> HIDE DEF k
  <2>2. IsInsertion(S, chs, k, r, InsertAt(chs, k, r))
    BY <1>2, <2>1, InsertAtSeq
  <2> QED
    BY <1>2, <1>3, <2>2 DEF k, IsInsertion
<1>6. n.chs[i] = l /\ n.chs[i + 1] = r /\ i \in 1..(Len(n.chs) - 1)
  <2>1. i \in 1..(Len(t.chs) + 1) /\ i + 1 \in 1..(Len(t.chs) + 1) /\ i < i + 1 /\ i \in Nat
    BY <1>1
  <2>2. n.chs[i] = chs[i] /\ n.chs[i + 1] = r
    BY <1>5, <2>1
  <2> QED
    BY <1>1, <1>2, <1>5, <2>2
<1> QED
  BY <1>1, <1>3, <1>4, <1>5, <1>6 DEF IsNode, n

\* What replaces a leaf: one leaf, or two of which the second has a key.
AreLeaves(ls, S) ==
    /\ Len(ls) \in {1, 2} /\ DOMAIN ls = 1..Len(ls)
    /\ ls = IF Len(ls) = 1 THEN <<ls[1]>> ELSE <<ls[1], ls[2]>>
    /\ \A k \in DOMAIN ls : IsNode(ls[k], S)
    /\ Len(ls) = 2 => ls[2].keys[1] \in Nat

LEMMA UpdateLeafNodes ==
  ASSUME NEW S, NEW t, IsNode(t, S), NEW key \in Nat, NEW val
  PROVE  AreLeaves(UpdateLeafCow(t, key, val), S)
<1> DEFINE i == FindVal(t, key)  ks == InsertAt(t.keys, i, key)  vs == InsertAt(t.vals, i, val)
           vals == [j \in DOMAIN t.vals |-> IF j = i THEN val ELSE Unwritten]
<1>1. /\ {"type", "keys", "chs"} \subseteq DOMAIN t /\ t.keys \in Seq(Nat) /\ t.chs \in Seq(S)
  BY DEF IsNode
<1>2. i \in 1..(Len(t.keys) + 1)
  BY <1>1, FindValRange
<1>3. ks \in Seq(Nat) /\ B \in Nat \ {0, 1}
  BY <1>1, <1>2, InsertAtSeq, BoundsAssumption DEF IsInsertion
<1> HIDE DEF i, ks, vs, vals
<1>4. CASE Holds(t, key)
  <2>1. UpdateLeafCow(t, key, val) = <<[t EXCEPT !.vals = vals]>>
    BY <1>4 DEF UpdateLeafCow, vals, i
  <2>2. IsNode([t EXCEPT !.vals = vals], S)
    BY <1>1 DEF IsNode
  <2> QED
    BY <2>1, <2>2 DEF AreLeaves
<1>5. CASE ~Holds(t, key) /\ Len(ks) < 2*B
  <2>1. UpdateLeafCow(t, key, val) = <<[t EXCEPT !.keys = ks, !.vals = vs]>>
    BY <1>5 DEF UpdateLeafCow, InsertLeaf, Packed, i, ks, vs
  <2>2. IsNode([t EXCEPT !.keys = ks, !.vals = vs], S)
    BY <1>1, <1>3 DEF IsNode
  <2> QED
    BY <2>1, <2>2 DEF AreLeaves
<1>6. CASE ~Holds(t, key) /\ ~(Len(ks) < 2*B)
  <2> DEFINE k1 == SubSeq(ks, 1, B)  k2 == SubSeq(ks, B + 1, 2*B)
             v1 == SubSeq(vs, 1, B)  v2 == SubSeq(vs, B + 1, 2*B)
             l == [t EXCEPT !.keys = k1, !.vals = v1]
             r == [t EXCEPT !.keys = k2, !.vals = v2]
  <2>1. UpdateLeafCow(t, key, val) = <<l, r>>
    BY <1>6 DEF UpdateLeafCow, InsertLeaf, Packed, i, ks, vs
  <2>2. Len(ks) \in Nat /\ Len(ks) >= 2*B /\ \A j \in 1..Len(ks) : ks[j] \in Nat
    BY <1>3, <1>6, LenProperties
  <2>3. k1 \in Seq(Nat)
    BY <1>3, <2>2, SubSeqProperties
  <2>4. k2 \in Seq(Nat) /\ k2[1] = ks[B + 1]
    <3>1. \A j \in (B + 1)..(2*B) : ks[j] \in Nat
      BY <1>3, <2>2
    <3> QED
      BY <1>3, <3>1, SubSeqProperties
  <2> HIDE DEF k1, k2, v1, v2
  <2>5. IsNode(l, S) /\ IsNode(r, S) /\ r.keys = k2
    BY <1>1, <2>3, <2>4 DEF IsNode
  <2>6. k2[1] \in Nat
    BY <1>3, <2>2, <2>4
  <2> HIDE DEF l, r
  <2> QED
    BY <2>1, <2>5, <2>6 DEF AreLeaves
<1> QED
  BY <1>4, <1>5, <1>6

-------------------------------------------------------------------------------
(* The handlers of the B-trees *)

\* Before a handler, of the task c.sno: what it has of the memory.
Ready(h, c) ==
    /\ Nodes(h, {}) /\ Numbered(h, c.sno) /\ c.sno \in Nat \ {0}
    /\ IsContext(c)

\* After it: r is its result.
Handled(h, c, r) ==
    /\ {"heap", "ctx"} \subseteq DOMAIN r
    /\ Nodes(r.heap, {}) /\ Grows(h, r.heap, c.sno)
    /\ IsContext(r.ctx) /\ r.ctx.sno = c.sno /\ r.ctx.ran = c.ran
    /\ r.ctx.op # "WILD" =>
         /\ r.ctx.root \in Upto(r.heap, c.sno)
         /\ r.ctx.op # "DONE" => /\ r.ctx.cur \in OwnNodes(r.heap, c.sno)
                                 /\ r.ctx.past \in Upto(r.heap, c.sno - 1)
                                 /\ CopiesBTree(r.heap, r.ctx)

LEMMA WildHandled ==
  ASSUME NEW h, NEW c, Ready(h, c)
  PROVE  Handled(h, c, Wild(h, c))
<1>1. Grows(h, h, c.sno)
  BY GrowsSame DEF Ready
<1> QED
  BY <1>1 DEF Ready, Handled, Wild, Result, IsContext

\* A leaf is replaced below cur.
LEMMA LinkLeavesHandled ==
  ASSUME NEW h, NEW c, Ready(h, c), c.root \in Upto(h, c.sno),
         c.cur \in OwnNodes(h, c.sno), NEW i \in DOMAIN h[c.cur].chs,
         i \in 1..(Len(h[c.cur].keys) + 1),
         NEW ls, AreLeaves(ls, Upto(h, c.sno))
  PROVE  Handled(h, c, LinkLeaves(h, c, i, ls))
<1> DEFINE v == c.sno
           a == Alloc(h, v, ls)
           p == <<Fresh(h, v, 1), Fresh(h, v, 2)>>
           n == PutLeaves(a[c.cur], i, ls, p)
           g == [a EXCEPT ![c.cur] = n]
           S == Upto(a, v)
<1>1. v \in Nat \ {0} /\ Nodes(h, {}) /\ Numbered(h, v) /\ c.cur \in DOMAIN h /\ Version(c.cur) = v
  BY DEF Ready, OwnNodes
<1>2. Len(ls) \in 1..2 /\ DOMAIN ls = 1..Len(ls)
  BY DEF AreLeaves
<1>3. Nodes(a, {}) /\ Grows(h, a, v) /\ Extends(h, v, Len(ls), ls, a)
  <2>1. \A k \in 1..Len(ls) : IsNode(ls[k], Upto(h, v) \union {Fresh(h, v, j) : j \in 1..Len(ls)} \union {})
    BY <1>2, MoreTargets DEF AreLeaves
  <2>2. Len(ls) \in Nat
    BY <1>2
  <2> QED
    BY <1>1, <1>2, <2>1, <2>2, AllocNodes, AllocGrows
<1> HIDE DEF a
<1>4. /\ a[c.cur] = h[c.cur] /\ c.cur \in OwnNodes(a, v) /\ Numbered(a, v)
      /\ p[1] \in S /\ (Len(ls) = 2 => p[2] \in S)
  <2>1. \A k \in 1..Len(ls) : Fresh(h, v, k) \in DOMAIN a /\ Version(Fresh(h, v, k)) = v
    BY <1>3 DEF Extends
  <2>2. 1 \in 1..Len(ls) /\ (Len(ls) = 2 => 2 \in 1..Len(ls))
    BY <1>2
  <2> QED
    BY <1>1, <1>3, <2>1, <2>2 DEF Extends, OwnNodes, Upto
<1>5. IsNode(a[c.cur], S)
  BY <1>1, <1>3, <1>4 DEF Nodes, OwnNodes
<1>6. IsNode(n, S) /\ Len(n.keys) >= Len(a[c.cur].keys)
  <2>1. CASE Len(ls) = 1
    <3>1. n = [a[c.cur] EXCEPT !.chs[i] = p[1]]
      BY <2>1 DEF PutLeaves
    <3>2. a[c.cur].chs \in Seq(S) /\ i \in DOMAIN a[c.cur].chs /\ "chs" \in DOMAIN a[c.cur]
      BY <1>4, <1>5 DEF IsNode
    <3>3. [a[c.cur].chs EXCEPT ![i] = p[1]] \in Seq(S)
      <4> DEFINE s == a[c.cur].chs  e == p[1]
      <4>1. s \in Seq(S) /\ i \in 1..Len(s) /\ e \in S
        BY <1>4, <3>2, LenProperties
      <4> HIDE DEF s, e, S
      <4>2. [s EXCEPT ![i] = e] \in Seq(S)
        BY <4>1, ExceptSeq
      <4> QED
        BY <4>2 DEF s, e
    <3>4. n.keys = a[c.cur].keys /\ n.chs = [a[c.cur].chs EXCEPT ![i] = p[1]] /\ DOMAIN n = DOMAIN a[c.cur]
      <4> HIDE DEF p
      <4> QED
        BY <3>1, <3>2
    <3>5. Len(a[c.cur].keys) \in Nat
      BY <1>5, LenProperties DEF IsNode
    <3> HIDE DEF n, S, p
    <3> QED
      BY <1>5, <3>3, <3>4, <3>5 DEF IsNode
  <2>2. CASE Len(ls) = 2
    <3>1. n = InsertChild(a[c.cur], i, ls[2].keys[1], p[1], p[2])
      BY <2>2 DEF PutLeaves
    <3>2. ls[2].keys[1] \in Nat
      BY <2>2 DEF AreLeaves
    <3>3. Len(a[c.cur].keys) \in Nat
      BY <1>5, LenProperties DEF IsNode
    <3>4. i \in DOMAIN a[c.cur].chs /\ i \in 1..(Len(a[c.cur].keys) + 1)
      BY <1>4
    <3> HIDE DEF n, S, p
    <3> QED
      BY <1>4, <1>5, <2>2, <3>1, <3>2, <3>3, <3>4, InsertChildNode
  <2> QED
    BY <1>2, <2>1, <2>2
<1> HIDE DEF n, p
<1>7. Nodes(g, {}) /\ Grows(a, g, v)
  BY <1>3, <1>4, <1>6, WriteGrows DEF S
<1>8. Grows(h, g, v)
  BY <1>1, <1>3, <1>7, GrowsGrows
<1>9. LinkLeaves(h, c, i, ls) = Result(g, [c EXCEPT !.op = "DONE"])
  BY DEF LinkLeaves, a, n, p
<1>10. c.root \in Upto(g, v)
  BY <1>8, GrowsKeeps
<1> HIDE DEF g
<1> QED
  BY <1>7, <1>8, <1>9, <1>10 DEF Ready, Handled, Result, IsContext

\* r is h with n new nodes of the task v and t written to its node cur.
Made(h, N, v, n, nodes, cur, t, r) ==
    /\ Nodes(r, N) /\ Grows(h, r, v)
    /\ cur \in OwnNodes(r, v) /\ r[cur] = t
    /\ \A k \in 1..n : Fresh(h, v, k) \in OwnNodes(r, v) /\ r[Fresh(h, v, k)] = nodes[k]
    /\ \A id \in DOMAIN h : id # cur => r[id] = h[id]

\* A handler makes nodes and links them to the node in hand.
LEMMA MakesNodes ==
  ASSUME NEW h, NEW N, Nodes(h, N), NEW v \in Nat, Numbered(h, v),
         NEW n \in Nat, NEW nodes, DOMAIN nodes = 1..n,
         \A k \in 1..n : IsNode(nodes[k], Upto(h, v) \union {Fresh(h, v, j) : j \in 1..n} \union N),
         NEW cur \in OwnNodes(h, v), NEW t,
         IsNode(t, Upto(h, v) \union {Fresh(h, v, j) : j \in 1..n} \union N),
         Len(t.keys) >= Len(h[cur].keys)
  PROVE  Made(h, N, v, n, nodes, cur, t, [Alloc(h, v, nodes) EXCEPT ![cur] = t])
<1> DEFINE a == Alloc(h, v, nodes)
           g == [a EXCEPT ![cur] = t]
           new == {Fresh(h, v, j) : j \in 1..n}
<1>1. Nodes(a, N) /\ Grows(h, a, v) /\ Extends(h, v, n, nodes, a)
  BY AllocNodes, AllocGrows
<1> HIDE DEF a
<1>2. /\ \A k \in 1..n : /\ Fresh(h, v, k) \in DOMAIN a /\ Fresh(h, v, k) \notin DOMAIN h
                         /\ Version(Fresh(h, v, k)) = v /\ a[Fresh(h, v, k)] = nodes[k]
      /\ \A id \in DOMAIN h : id \in DOMAIN a /\ a[id] = h[id]
  BY <1>1 DEF Extends
<1>3. cur \in DOMAIN h /\ Version(cur) = v /\ cur \in OwnNodes(a, v) /\ a[cur] = h[cur]
  BY <1>2 DEF OwnNodes
<1>4. IsNode(t, Upto(a, v) \union N)
  <2>1. new \subseteq Upto(a, v) /\ Upto(h, v) \subseteq Upto(a, v)
    BY <1>1, <1>2, GrowsKeeps DEF Upto
  <2>2. Upto(h, v) \union new \union N \subseteq Upto(a, v) \union N
    BY <2>1
  <2> QED
    BY <2>2, MoreTargets
<1>5. Nodes(g, N) /\ Grows(a, g, v)
  <2>1. Numbered(a, v) /\ Len(t.keys) >= Len(a[cur].keys)
    BY <1>1, <1>3 DEF Extends
  <2> QED
    BY <1>1, <1>3, <1>4, <2>1, WriteGrows
<1>6. Grows(h, g, v)
  BY <1>1, <1>5, GrowsGrows
<1>7. DOMAIN g = DOMAIN a /\ g[cur] = t /\ \A id \in DOMAIN a : id # cur => g[id] = a[id]
  BY <1>3 DEF OwnNodes
<1> HIDE DEF g
<1> QED
  BY <1>2, <1>3, <1>5, <1>6, <1>7 DEF Made, OwnNodes, g, a

\* The child past of cur is split, copied, or replaced if it is a leaf.
LEMMA CopyChildHandled ==
  ASSUME NEW h, NEW c, Ready(h, c), c.root \in Upto(h, c.sno),
         c.cur \in OwnNodes(h, c.sno), c.past \in Upto(h, c.sno - 1),
         NEW i \in DOMAIN h[c.cur].chs, i \in 1..(Len(h[c.cur].keys) + 1)
  PROVE  Handled(h, c, CopyChild(h, c, i))
<1> DEFINE v == c.sno
           p == h[c.past]
           t == h[c.cur]
           a == Fresh(h, v, 1)
           b == Fresh(h, v, 2)
<1>1. /\ v \in Nat \ {0} /\ Nodes(h, {}) /\ Numbered(h, v) /\ IsContext(c)
      /\ c.cur \in DOMAIN h /\ Version(c.cur) = v
      /\ c.past \in DOMAIN h /\ Version(c.past) \in Nat /\ Version(c.past) <= v - 1
  BY DEF Ready, OwnNodes, Upto, Nodes
<1>2. c.past # c.cur
  BY <1>1
<1>3. IsNode(p, Upto(h, v)) /\ IsNode(t, Upto(h, v))
  <2>1. Upto(h, Version(c.past)) \union {} \subseteq Upto(h, v)
    <3>1. \A id \in DOMAIN h : Version(id) \in Nat
      BY <1>1 DEF Nodes
    <3> QED
      BY <1>1, <3>1 DEF Upto
  <2>2. IsNode(p, Upto(h, Version(c.past)) \union {}) /\ IsNode(t, Upto(h, v) \union {})
    BY <1>1 DEF Nodes
  <2> QED
    BY <2>1, <2>2, MoreTargets
<1>4. /\ p.keys \in Seq(Nat) /\ Len(p.keys) \in Nat /\ t.keys \in Seq(Nat) /\ Len(t.keys) \in Nat
      /\ B \in Nat \ {0, 1} /\ {"type", "keys", "chs"} \subseteq DOMAIN p
      /\ {"type", "keys", "chs"} \subseteq DOMAIN t
  BY <1>3, LenProperties, BoundsAssumption DEF IsNode
<1> HIDE DEF v, p, t, a, b
<1>5. CASE p.type = "LEAF"
  <2>1. c.key \in Nat
    BY <1>1 DEF IsContext
  <2>2. AreLeaves(UpdateLeafCow(p, c.key, v), Upto(h, v))
    BY <1>3, <2>1, UpdateLeafNodes
  <2>3. CopyChild(h, c, i) = LinkLeaves(h, c, i, UpdateLeafCow(p, c.key, v))
    BY <1>5 DEF CopyChild, p, v
  <2> QED
    BY <2>2, <2>3, LinkLeavesHandled DEF v
<1>6. CASE p.type # "LEAF" /\ IsFull(p)
  <2> DEFINE S == Upto(h, v) \union {Fresh(h, v, j) : j \in 1..2}
             nodes == SplitNodes(p)
             n == InsertChild(t, i, p.keys[B], a, b)
             r == [Alloc(h, v, nodes) EXCEPT ![c.cur] = n]
  <2>1. Len(p.keys) = 2*B - 1 /\ \A j \in 1..(2*B - 1) : p.keys[j] \in Nat
    BY <1>4, <1>6, LenProperties DEF IsFull
  <2>2. \A j \in 1..2 : SplitKeys(p)[j] \in Seq(Nat) /\ Len(SplitKeys(p)[j]) = B - 1
    <3> DEFINE k1 == SubSeq(p.keys, 1, B - 1)  k2 == SubSeq(p.keys, B + 1, 2*B - 1)
    <3>1. k1 \in Seq(Nat) /\ Len(k1) = B - 1
      BY <1>4, <2>1, SubSeqProperties
    <3>2. k2 \in Seq(Nat) /\ Len(k2) = B - 1
      <4>1. \A j \in (B + 1)..(2*B - 1) : p.keys[j] \in Nat
        BY <1>4, <2>1
      <4> QED
        BY <1>4, <2>1, <4>1, SubSeqProperties
    <3>3. SplitKeys(p) = <<k1, k2>>
      BY DEF SplitKeys
    <3> HIDE DEF k1, k2
    <3> QED
      BY <3>1, <3>2, <3>3
  <2>3. DOMAIN nodes = 1..2
    BY DEF SplitNodes
  <2>4. \A j \in 1..2 : nodes[j].keys = SplitKeys(p)[j] /\ IsNode(nodes[j], S)
    <3>1. SUFFICES ASSUME NEW j \in 1..2 PROVE nodes[j].keys = SplitKeys(p)[j] /\ IsNode(nodes[j], S)
      OBVIOUS
    <3> DEFINE k == SplitKeys(p)[j]
    <3>2. k \in Seq(Nat)
      BY <2>2
    <3>3. nodes[j] = [p EXCEPT !.keys = k, !.chs = <<>>]
      BY DEF SplitNodes
    <3> HIDE DEF k, nodes, S
    <3>4. DOMAIN nodes[j] = DOMAIN p /\ nodes[j].keys = k /\ nodes[j].chs = <<>>
      BY <1>4, <3>3
    <3>5. <<>> \in Seq(S)
      BY EmptySeq
    <3> QED
      BY <1>4, <3>2, <3>4, <3>5 DEF IsNode, k
  <2>5. a \in S /\ b \in S /\ IsNode(t, S)
    <3>1. IsNode(t, S)
      BY <1>3, MoreTargets
    <3> QED
      BY <3>1 DEF a, b
  <2> HIDE DEF S, nodes
  <2>6. /\ IsNode(n, S) /\ Len(n.keys) = Len(t.keys) + 1
        /\ i \in 1..(Len(n.chs) - 1) /\ n.chs[i] = a /\ n.chs[i + 1] = b
    <3>1. B \in 1..(2*B - 1)
      BY BoundsAssumption
    <3>2. p.keys[B] \in Nat
      BY <2>1, <3>1
    <3>3. i \in DOMAIN t.chs /\ i \in 1..(Len(t.keys) + 1)
      BY <1>4 DEF t
    <3> QED
      BY <2>5, <3>2, <3>3, InsertChildNode
  <2> HIDE DEF n
  <2>7. Made(h, {}, v, 2, nodes, c.cur, n, r)
    <3>1. Len(n.keys) >= Len(h[c.cur].keys)
      BY <1>4, <2>6 DEF t
    <3>2. /\ \A k \in 1..2 : IsNode(nodes[k], Upto(h, v) \union {Fresh(h, v, j) : j \in 1..2} \union {})
          /\ IsNode(n, Upto(h, v) \union {Fresh(h, v, j) : j \in 1..2} \union {})
      <4>1. S = Upto(h, v) \union {Fresh(h, v, j) : j \in 1..2} \union {}
        BY DEF S
      <4> QED
        BY <2>4, <2>6, <4>1
    <3>3. c.cur \in OwnNodes(h, v)
      BY DEF v
    <3> QED
      BY <1>1, <2>3, <3>1, <3>2, <3>3, MakesNodes DEF v
  <2>8. Alloc(h, v, nodes)[c.cur] = t
    <3>1. Extends(h, v, 2, nodes, Alloc(h, v, nodes))
      BY <1>1, <2>3, AllocNodes DEF v
    <3> QED
      BY <1>1, <3>1 DEF Extends, t
  <2> DEFINE d == [c EXCEPT !.idx = i, !.op = "SEARCH_SPLIT"]
  <2>9. CopyChild(h, c, i) = Result(r, d)
    BY <1>6, <2>8 DEF CopyChild, p, v, a, b, n, nodes
  <2> HIDE DEF r
  <2>10. r[c.cur] = n /\ r[c.past] = p /\ r[a] = nodes[1] /\ r[b] = nodes[2]
    BY <1>1, <1>2, <2>7 DEF Made, a, b, p
  <2>11. a \in OwnNodes(r, v) /\ b \in OwnNodes(r, v)
    BY <2>7 DEF Made, a, b
  <2>12. Len(r[a].keys) = B - 1 /\ Len(r[b].keys) = B - 1 /\ Len(p.keys) >= 2*B - 1
    <3>1. 1 \in 1..2 /\ 2 \in 1..2
      OBVIOUS
    <3>2. r[a].keys = SplitKeys(p)[1] /\ r[b].keys = SplitKeys(p)[2]
      BY <2>4, <2>10, <3>1
    <3> QED
      BY <1>4, <2>1, <2>2, <3>1, <3>2
  <2>13. c.root \in Upto(r, v) /\ c.cur \in OwnNodes(r, v) /\ c.past \in Upto(r, v - 1)
    BY <2>7, GrowsKeeps DEF Made, v
  <2>14. /\ DOMAIN d = DOMAIN c /\ d.op = "SEARCH_SPLIT" /\ d.idx = i /\ d.cur = c.cur /\ d.past = c.past
         /\ d.root = c.root /\ d.sno = c.sno /\ d.ran = c.ran /\ d.key = c.key
    BY <1>1 DEF IsContext
  <2> HIDE DEF d
  <2>15. CopiesBTree(r, d)
    <3>1. \A j \in {i, i + 1} : n.chs[j] \in OwnNodes(r, v) /\ Len(r[n.chs[j]].keys) = B - 1
      BY <2>6, <2>11, <2>12
    <3> QED
      BY <2>6, <2>10, <2>12, <2>14, <3>1 DEF CopiesBTree, v
  <2>16. Nodes(r, {}) /\ Grows(h, r, v)
    BY <2>7 DEF Made
  <2> QED
    BY <1>1, <2>9, <2>13, <2>14, <2>15, <2>16 DEF Handled, Result, IsContext, v
<1>7. CASE p.type # "LEAF" /\ ~IsFull(p)
  <2> DEFINE S == Upto(h, v) \union {Fresh(h, v, j) : j \in 1..1}
             q == [p EXCEPT !.chs = <<>>]
             n == [t EXCEPT !.chs[i] = a]
             r == [Alloc(h, v, <<q>>) EXCEPT ![c.cur] = n]
             d == [c EXCEPT !.cur = a, !.op = "SEARCH_DOWN"]
  <2>1. q.keys = p.keys /\ IsNode(q, S)
    <3>1. DOMAIN q = DOMAIN p /\ q.keys = p.keys /\ q.chs = <<>>
      BY <1>4
    <3> HIDE DEF q, S
    <3>2. <<>> \in Seq(S)
      BY EmptySeq
    <3> QED
      BY <1>4, <3>1, <3>2 DEF IsNode
  <2>2. a \in S /\ IsNode(t, S)
    <3>1. IsNode(t, S)
      BY <1>3, MoreTargets
    <3> QED
      BY <3>1 DEF a
  <2>3. n.keys = t.keys /\ IsNode(n, S)
    <3>1. DOMAIN n = DOMAIN t /\ n.keys = t.keys /\ n.chs = [t.chs EXCEPT ![i] = a]
      BY <1>4
    <3>2. [t.chs EXCEPT ![i] = a] \in Seq(S)
      <4> DEFINE s == t.chs
      <4>1. s \in Seq(S) /\ i \in 1..Len(s)
        BY <2>2, LenProperties DEF IsNode, t
      <4> HIDE DEF s, S
      <4>2. [s EXCEPT ![i] = a] \in Seq(S)
        BY <2>2, <4>1, ExceptSeq
      <4> QED
        BY <4>2 DEF s
    <3> HIDE DEF n, S
    <3> QED
      BY <1>4, <3>1, <3>2 DEF IsNode
  <2> HIDE DEF n, S, q
  <2>4. Made(h, {}, v, 1, <<q>>, c.cur, n, r)
    <3>1. Len(n.keys) >= Len(h[c.cur].keys)
      BY <1>4, <2>3 DEF t
    <3>2. /\ \A k \in 1..1 : IsNode(<<q>>[k], Upto(h, v) \union {Fresh(h, v, j) : j \in 1..1} \union {})
          /\ IsNode(n, Upto(h, v) \union {Fresh(h, v, j) : j \in 1..1} \union {})
      <4>1. S = Upto(h, v) \union {Fresh(h, v, j) : j \in 1..1} \union {}
        BY DEF S
      <4> QED
        BY <2>1, <2>3, <4>1
    <3>3. c.cur \in OwnNodes(h, v) /\ DOMAIN <<q>> = 1..1
      BY DEF v
    <3> QED
      BY <1>1, <3>1, <3>2, <3>3, MakesNodes DEF v
  <2>5. Alloc(h, v, <<q>>)[c.cur] = t
    <3>0. DOMAIN <<q>> = 1..1
      OBVIOUS
    <3>1. Extends(h, v, 1, <<q>>, Alloc(h, v, <<q>>))
      BY <1>1, <3>0, AllocNodes DEF v
    <3> QED
      BY <1>1, <3>1 DEF Extends, t
  <2>6. CopyChild(h, c, i) = Result(r, d)
    <3>1. CopyChild(h, c, i) = Result([Alloc(h, v, <<q>>) EXCEPT ![c.cur].chs[i] = a], d)
      BY <1>7 DEF CopyChild, p, v, a, q
    <3> DEFINE g == Alloc(h, v, <<q>>)
    <3>2. g[c.cur] = t
      BY <2>5
    <3> HIDE DEF g, d
    <3>3. [g EXCEPT ![c.cur].chs[i] = a] = [g EXCEPT ![c.cur] = [t EXCEPT !.chs[i] = a]]
      BY <3>2
    <3> QED
      BY <3>1, <3>3 DEF g, n
  <2> HIDE DEF r
  <2>7. r[c.past] = p /\ r[a] = q /\ a \in OwnNodes(r, v)
    BY <1>1, <1>2, <2>4 DEF Made, a, p
  <2>8. c.root \in Upto(r, v) /\ c.past \in Upto(r, v - 1)
    BY <2>4, GrowsKeeps DEF Made, v
  <2>9. /\ DOMAIN d = DOMAIN c /\ d.op = "SEARCH_DOWN" /\ d.cur = a /\ d.past = c.past
        /\ d.root = c.root /\ d.sno = c.sno /\ d.ran = c.ran /\ d.key = c.key
    BY <1>1 DEF IsContext
  <2> HIDE DEF d
  <2>10. CopiesBTree(r, d)
    BY <1>4, <2>1, <2>7, <2>9 DEF CopiesBTree
  <2>11. Nodes(r, {}) /\ Grows(h, r, v)
    BY <2>4 DEF Made
  <2> QED
    BY <1>1, <2>6, <2>7, <2>8, <2>9, <2>10, <2>11 DEF Handled, Result, IsContext, v
<1> QED
  BY <1>5, <1>6, <1>7

\* The node in hand has its chs, which are those of an earlier version.
Descends(h, c) ==
    /\ Ready(h, c) /\ c.root \in Upto(h, c.sno) /\ c.cur \in OwnNodes(h, c.sno)
    /\ h[c.cur].chs \in Seq(Upto(h, c.sno - 1))
    /\ Len(h[c.cur].chs) >= Len(h[c.cur].keys) + 1

LEMMA UpdateCowHandled ==
  ASSUME NEW h, NEW c, Descends(h, c)
  PROVE  Handled(h, c, UpdateCow(h, c))
<1> DEFINE t == h[c.cur]
           i == FindCh(t, c.key)
           d == [c EXCEPT !.past = t.chs[i]]
<1>1. Ready(h, c) /\ c.cur \in DOMAIN h /\ IsContext(c)
  BY DEF Descends, Ready, OwnNodes
<1>2. t.keys \in Seq(Nat) /\ Len(t.keys) \in Nat
  BY <1>1, LenProperties DEF Ready, Nodes, IsNode
<1>3. i \in 1..(Len(t.keys) + 1)
  BY <1>2, FindChRange
<1>4. /\ DOMAIN t.chs = 1..Len(t.chs) /\ Len(t.chs) \in Nat /\ Len(t.chs) >= Len(t.keys) + 1
      /\ \A j \in 1..Len(t.chs) : t.chs[j] \in Upto(h, c.sno - 1)
  BY LenProperties DEF Descends
<1> HIDE DEF i
<1>5. i \in DOMAIN t.chs
  BY <1>2, <1>3, <1>4
<1> HIDE DEF t
<1>6. /\ DOMAIN d = DOMAIN c /\ d.past = t.chs[i] /\ d.sno = c.sno /\ d.cur = c.cur
      /\ d.root = c.root /\ d.key = c.key /\ d.ran = c.ran
  BY <1>1 DEF IsContext
<1>7. UpdateCow(h, c) = CopyChild(h, d, i)
  BY DEF UpdateCow, d, i, t
<1> HIDE DEF d
<1>8. Ready(h, d)
  BY <1>1, <1>6 DEF Ready, IsContext
<1>9. Handled(h, d, CopyChild(h, d, i))
  <2>1. d.root \in Upto(h, d.sno) /\ d.cur \in OwnNodes(h, d.sno) /\ d.past \in Upto(h, d.sno - 1)
    BY <1>4, <1>5, <1>6 DEF Descends
  <2>2. i \in DOMAIN h[d.cur].chs /\ i \in 1..(Len(h[d.cur].keys) + 1)
    BY <1>3, <1>5, <1>6 DEF t
  <2> QED
    BY <1>8, <2>1, <2>2, CopyChildHandled
<1> QED
  BY <1>6, <1>7, <1>9 DEF Handled

\* A handler that goes on in the memory g, which h has grown to.
LEMMA HandledLater ==
  ASSUME NEW h, NEW g, NEW c, NEW d, NEW r, Ready(h, c), Nodes(g, {}), Grows(h, g, c.sno),
         d.sno = c.sno, d.ran = c.ran, Handled(g, d, r)
  PROVE  Handled(h, c, r)
<1>1. Nodes(r.heap, {}) /\ Grows(g, r.heap, c.sno)
  BY DEF Handled
<1>2. Grows(h, r.heap, c.sno)
  BY <1>1, GrowsGrows DEF Ready
<1> QED
  BY <1>2 DEF Handled

\* The chs of a node that a handler copies.
ChsWritten(h, N, v, cur, s, g) ==
    /\ Nodes(g, N) /\ Grows(h, g, v) /\ DOMAIN g = DOMAIN h
    /\ g[cur].chs = s
    /\ \A id \in DOMAIN h : g[id].keys = h[id].keys /\ (id # cur => g[id] = h[id])

LEMMA WriteChs ==
  ASSUME NEW h, NEW N, Nodes(h, N), NEW v, Numbered(h, v), NEW cur \in OwnNodes(h, v),
         NEW s \in Seq(Upto(h, v) \union N)
  PROVE  ChsWritten(h, N, v, cur, s, [h EXCEPT ![cur].chs = s])
<1> DEFINE t == [h[cur] EXCEPT !.chs = s]  g == [h EXCEPT ![cur] = t]
<1>1. cur \in DOMAIN h /\ IsNode(h[cur], Upto(h, v) \union N)
  BY DEF Nodes, OwnNodes
<1>2. DOMAIN t = DOMAIN h[cur] /\ t.keys = h[cur].keys /\ t.chs = s
  BY <1>1 DEF IsNode
<1>3. [h EXCEPT ![cur].chs = s] = g
  OBVIOUS
<1> HIDE DEF t
<1>4. IsNode(t, Upto(h, v) \union N)
  BY <1>1, <1>2 DEF IsNode
<1>5. Len(t.keys) >= Len(h[cur].keys)
  BY <1>1, <1>2, LenProperties DEF IsNode
<1>6. Nodes(g, N) /\ Grows(h, g, v)
  BY <1>4, <1>5, WriteGrows
<1>7. DOMAIN g = DOMAIN h /\ g[cur] = t /\ \A id \in DOMAIN h : id # cur => g[id] = h[id]
  BY <1>1
<1> HIDE DEF g
<1> QED
  BY <1>2, <1>3, <1>6, <1>7 DEF ChsWritten

\* The same memory to look in.
LEMMA SameUpto ==
  ASSUME NEW h, NEW g, DOMAIN g = DOMAIN h
  PROVE  \A v : Upto(g, v) = Upto(h, v) /\ OwnNodes(g, v) = OwnNodes(h, v)
BY DEF Upto, OwnNodes

\* What a task finds between two handlers.
Between(h, c) ==
    /\ Ready(h, c) /\ c.root \in Upto(h, c.sno)
    /\ c.cur \in OwnNodes(h, c.sno) /\ c.past \in Upto(h, c.sno - 1)
    /\ CopiesBTree(h, c)

\* The chs of past are of earlier versions.
LEMMA ChsOfPast ==
  ASSUME NEW h, NEW c, Ready(h, c), c.past \in Upto(h, c.sno - 1)
  PROVE  /\ c.past \in DOMAIN h /\ IsNode(h[c.past], Upto(h, c.sno - 1))
         /\ Upto(h, c.sno - 1) \subseteq Upto(h, c.sno)
<1> DEFINE v == c.sno
<1>1. v \in Nat \ {0} /\ \A id \in DOMAIN h : Version(id) \in Nat
  BY DEF Ready, Nodes
<1>2. c.past \in DOMAIN h /\ Version(c.past) <= v - 1
  BY DEF Upto
<1>3. IsNode(h[c.past], Upto(h, Version(c.past)) \union {})
  BY <1>2 DEF Ready, Nodes
<1> HIDE DEF v
<1>4. Upto(h, Version(c.past)) \union {} \subseteq Upto(h, v - 1) /\ Upto(h, v - 1) \subseteq Upto(h, v)
  BY <1>1, <1>2 DEF Upto
<1> QED
  BY <1>2, <1>3, <1>4, MoreTargets DEF v

\* The node in hand gets the chs of past, and the task goes on below it.
LEMMA DescendsCopied ==
  ASSUME NEW h, NEW c, Between(h, c), c.op \in {"SEARCH_DOWN", "SEARCH_LOWER"}, Copied(h[c.past])
  PROVE  LET g == [h EXCEPT ![c.cur].chs = h[c.past].chs]
         IN  Descends(g, c) /\ Nodes(g, {}) /\ Grows(h, g, c.sno)
<1> DEFINE v == c.sno
           s == h[c.past].chs
           g == [h EXCEPT ![c.cur].chs = s]
<1>1. Ready(h, c) /\ Nodes(h, {}) /\ Numbered(h, v) /\ c.cur \in OwnNodes(h, v) /\ c.cur \in DOMAIN h
  BY DEF Between, Ready, OwnNodes
<1>2. c.past \in DOMAIN h /\ IsNode(h[c.past], Upto(h, v - 1)) /\ Upto(h, v - 1) \subseteq Upto(h, v)
  BY ChsOfPast DEF Between
<1>3. /\ s \in Seq(Upto(h, v - 1)) /\ s \in Seq(Upto(h, v) \union {})
      /\ Len(h[c.past].keys) \in Nat /\ Len(s) = Len(h[c.past].keys) + 1
  <2>1. s \in Seq(Upto(h, v - 1)) /\ Len(h[c.past].keys) \in Nat
    BY <1>2, LenProperties DEF IsNode
  <2> HIDE DEF s
  <2>2. s \in Seq(Upto(h, v) \union {})
    BY <1>2, <2>1, SeqMonotonic
  <2> QED
    BY <2>1, <2>2 DEF Copied, s
<1> HIDE DEF s, v
<1>4. /\ Nodes(g, {}) /\ Grows(h, g, v) /\ DOMAIN g = DOMAIN h
      /\ g[c.cur].chs = s /\ \A id \in DOMAIN h : g[id].keys = h[id].keys
  <2>1. ChsWritten(h, {}, v, c.cur, s, g)
    BY <1>1, <1>3, WriteChs
  <2> QED
    BY <2>1 DEF ChsWritten
<1> HIDE DEF g
<1>5. Len(h[c.cur].keys) \in Nat /\ Len(h[c.cur].keys) <= Len(h[c.past].keys)
  <2>1. Len(h[c.cur].keys) \in Nat
    BY <1>1, LenProperties DEF Nodes, IsNode
  <2>2. CopiesBTree(h, c) /\ c.op \in {"SEARCH_DOWN", "SEARCH_LOWER"}
    BY DEF Between
  <2> QED
    BY <2>1, <2>2 DEF CopiesBTree
<1>6. Descends(g, c)
  <2>1. Ready(g, c)
    BY <1>1, <1>4 DEF Ready, Grows, v
  <2>2. c.root \in Upto(g, v) /\ c.cur \in OwnNodes(g, v) /\ s \in Seq(Upto(g, v - 1))
    BY <1>1, <1>3, <1>4, SameUpto DEF Between, v
  <2>3. Len(g[c.cur].chs) >= Len(g[c.cur].keys) + 1
    BY <1>1, <1>3, <1>4, <1>5
  <2> QED
    BY <1>4, <2>1, <2>2, <2>3 DEF Descends, v
<1> QED
  BY <1>4, <1>6 DEF g, s, v

LEMMA CopiedHandled ==
  ASSUME NEW h, NEW c, Between(h, c), c.op \in {"SEARCH_DOWN", "SEARCH_LOWER"}
  PROVE  Handled(h, c, HandleSearchDown(h, c))
<1>0. Ready(h, c)
  BY DEF Between
<1>1. CASE ~Copied(h[c.past])
  BY <1>0, <1>1, WildHandled DEF HandleSearchDown
<1>2. CASE Copied(h[c.past])
  <2> DEFINE g == [h EXCEPT ![c.cur].chs = h[c.past].chs]
  <2>1. Descends(g, c) /\ Nodes(g, {}) /\ Grows(h, g, c.sno)
    BY <1>2, DescendsCopied
  <2>2. HandleSearchDown(h, c) = UpdateCow(g, c)
    BY <1>2 DEF HandleSearchDown
  <2> HIDE DEF g
  <2>3. Handled(g, c, UpdateCow(g, c))
    BY <2>1, UpdateCowHandled
  <2> QED
    BY <1>0, <2>1, <2>2, <2>3, HandledLater
<1> QED
  BY <1>1, <1>2

\* The halves of past get their chs, and the task goes on in one of them.
LEMMA SplitHandled ==
  ASSUME NEW h, NEW c, Between(h, c), c.op = "SEARCH_SPLIT"
  PROVE  Handled(h, c, HandleSearchSplit(h, c))
<1> DEFINE v == c.sno
           t == h[c.cur]
           l == t.chs[c.idx]
           k == c.idx + 1
           r == t.chs[k]
           p == h[c.past]
           s1 == SubSeq(p.chs, 1, B)
           s2 == SubSeq(p.chs, B + 1, 2*B)
           f == [h EXCEPT ![l].chs = s1]
           g == [f EXCEPT ![r].chs = s2]
           d == [c EXCEPT !.cur = IF t.keys[c.idx] <= c.key THEN r ELSE l]
<1>0. Ready(h, c) /\ Nodes(h, {}) /\ Numbered(h, v) /\ v \in Nat \ {0} /\ IsContext(c)
  BY DEF Between, Ready
<1>1. /\ l \in OwnNodes(h, v) /\ r \in OwnNodes(h, v)
      /\ Len(h[l].keys) = B - 1 /\ Len(h[r].keys) = B - 1
      /\ Len(p.keys) >= 2*B - 1
  BY DEF Between, CopiesBTree
<1>2. c.past \in DOMAIN h /\ IsNode(p, Upto(h, v - 1)) /\ Upto(h, v - 1) \subseteq Upto(h, v)
  BY <1>0, ChsOfPast DEF Between
<1>3. B \in Nat \ {0, 1} /\ Len(p.keys) \in Nat /\ p.chs \in Seq(Upto(h, v - 1))
  BY <1>2, LenProperties, BoundsAssumption DEF IsNode
<1> HIDE DEF v, t, k
<1>4. CASE ~Copied(p)
  <2>1. HandleSearchSplit(h, c) = Wild(h, c)
    BY <1>4 DEF HandleSearchSplit
  <2> QED
    BY <1>0, <2>1, WildHandled
<1>5. CASE Copied(p)
  <2>1. HandleSearchSplit(h, c) = UpdateCow(g, d)
    <3>1. HandleSearchSplit(h, c)
            = UpdateCow([h EXCEPT ![l].chs = s1, ![r].chs = s2], d)
      BY <1>5 DEF HandleSearchSplit, SplitChs, t, k
    <3>2. [h EXCEPT ![l].chs = s1, ![r].chs = s2] = g
      OBVIOUS
    <3> HIDE DEF g, d, l, r, s1, s2
    <3> QED
      BY <3>1, <3>2
  <2> DEFINE q == p.chs  S == Upto(h, v - 1)
  <2>2. q \in Seq(S) /\ Len(q) \in Nat /\ Len(q) >= 2*B /\ \A j \in 1..Len(q) : q[j] \in S
    BY <1>1, <1>3, <1>5, LenProperties DEF Copied
  <2>3. s1 \in Seq(S) /\ Len(s1) = B
    <3> HIDE DEF q, S
    <3>1. \A j \in 1..B : q[j] \in S
      BY <1>3, <2>2
    <3>2. SubSeq(q, 1, B) \in Seq(S) /\ Len(SubSeq(q, 1, B)) = B
      BY <1>3, <2>2, <3>1, SubSeqProperties
    <3> QED
      BY <3>2 DEF q, s1
  <2>4. s2 \in Seq(S) /\ Len(s2) = B
    <3> HIDE DEF q, S
    <3>1. \A j \in (B + 1)..(2*B) : q[j] \in S
      BY <1>3, <2>2
    <3>2. SubSeq(q, B + 1, 2*B) \in Seq(S) /\ Len(SubSeq(q, B + 1, 2*B)) = B
      BY <1>3, <2>2, <3>1, SubSeqProperties
    <3> QED
      BY <3>2 DEF q, s2
  <2> HIDE DEF q, S, s1, s2, l, r
  <2>5. s1 \in Seq(Upto(h, v) \union {}) /\ s2 \in Seq(Upto(h, v) \union {})
    BY <1>2, <2>3, <2>4, SeqMonotonic DEF S
  <2>6. ChsWritten(h, {}, v, l, s1, f)
    BY <1>0, <1>1, <2>5, WriteChs
  <2> HIDE DEF f
  <2>7. Nodes(f, {}) /\ Grows(h, f, v) /\ DOMAIN f = DOMAIN h /\ Numbered(f, v)
    BY <2>6 DEF ChsWritten, Grows
  <2>8. \A w : Upto(f, w) = Upto(h, w) /\ OwnNodes(f, w) = OwnNodes(h, w)
    BY <2>7, SameUpto
  <2>9. ChsWritten(f, {}, v, r, s2, g)
    BY <1>1, <2>5, <2>7, <2>8, WriteChs
  <2> HIDE DEF g
  <2>10. Nodes(g, {}) /\ Grows(f, g, v) /\ DOMAIN g = DOMAIN f /\ Numbered(g, v)
    BY <2>9 DEF ChsWritten, Grows
  <2>11. \A w : Upto(g, w) = Upto(h, w) /\ OwnNodes(g, w) = OwnNodes(h, w)
    BY <2>8, <2>10, SameUpto
  <2>12. Grows(h, g, v)
    BY <1>0, <2>7, <2>10, GrowsGrows
  <2>13. \A x \in {l, r} : /\ g[x].chs \in {s1, s2} /\ Len(g[x].keys) = B - 1
    <3>1. l \in DOMAIN h /\ r \in DOMAIN h
      BY <1>1 DEF OwnNodes
    <3>2. g[r].chs = s2 /\ g[r].keys = f[r].keys /\ f[r].keys = h[r].keys
      BY <2>6, <2>7, <2>9, <3>1 DEF ChsWritten
    <3>3. g[l].keys = f[l].keys /\ f[l].keys = h[l].keys
      BY <2>6, <2>7, <2>9, <3>1 DEF ChsWritten
    <3>4. l # r => g[l].chs = s1
      BY <2>6, <2>7, <2>9, <3>1 DEF ChsWritten
    <3> QED
      BY <1>1, <3>2, <3>3, <3>4
  <2>14. /\ DOMAIN d = DOMAIN c /\ d.cur \in {l, r} /\ d.sno = c.sno /\ d.ran = c.ran
         /\ d.root = c.root /\ d.key = c.key
    BY <1>0 DEF IsContext
  <2> HIDE DEF d
  <2>15. Descends(g, d)
    <3>1. Ready(g, d)
      BY <1>0, <2>10, <2>14 DEF Ready, IsContext, v
    <3>2. d.root \in Upto(g, v) /\ d.cur \in OwnNodes(g, v)
      BY <1>1, <2>11, <2>14 DEF Between, v
    <3>3. g[d.cur].chs \in Seq(Upto(g, v - 1)) /\ Len(g[d.cur].chs) >= Len(g[d.cur].keys) + 1
      BY <1>3, <2>3, <2>4, <2>11, <2>13, <2>14 DEF S
    <3> QED
      BY <2>14, <3>1, <3>2, <3>3 DEF Descends, v
  <2>16. Handled(g, d, UpdateCow(g, d))
    BY <2>15, UpdateCowHandled
  <2> QED
    BY <1>0, <2>1, <2>10, <2>12, <2>14, <2>16, HandledLater DEF v
<1> QED
  BY <1>4, <1>5

\* The sequence of three that Append makes of two.
AreThree(s, a, b, e) == DOMAIN s = 1..3 /\ Len(s) = 3 /\ s[1] = a /\ s[2] = b /\ s[3] = e

LEMMA AppendThree ==
  ASSUME NEW a, NEW b, NEW e
  PROVE  AreThree(Append(<<a, b>>, e), a, b, e)
<1> DEFINE p == <<a, b>>  S == {a, b, e}  s == Append(p, e)
<1>0. Len(p) = 2 /\ p[1] = a /\ p[2] = b
  OBVIOUS
<1>1. p \in Seq(S) /\ e \in S
  OBVIOUS
<1> HIDE DEF p, S
<1>2. s \in Seq(S) /\ Len(s) = Len(p) + 1
  BY <1>1, AppendProperties
<1>3. \A i \in 1..Len(p) : s[i] = p[i]
  BY <1>1, AppendProperties
<1>4. s[Len(p) + 1] = e
  BY <1>1, AppendProperties
<1> HIDE DEF s
<1>5. DOMAIN s = 1..Len(s)
  BY <1>2, LenProperties
<1> QED
  BY <1>0, <1>2, <1>3, <1>4, <1>5 DEF AreThree, s, p

\* The halves of a full node that has its chs.
AreHalves(ns, S) ==
    /\ ns = <<ns[1], ns[2]>>
    /\ \A j \in 1..2 : IsNode(ns[j], S) /\ Len(ns[j].keys) = B - 1 /\ Len(ns[j].chs) = B

LEMMA HalvesNodes ==
  ASSUME NEW S, NEW t, IsNode(t, S), IsFull(t), Copied(t)
  PROVE  AreHalves(Halves(t), S)
<1> DEFINE k1 == SubSeq(t.keys, 1, B - 1)  k2 == SubSeq(t.keys, B + 1, 2*B - 1)
           s1 == SubSeq(t.chs, 1, B)       s2 == SubSeq(t.chs, B + 1, 2*B)
           l == [t EXCEPT !.keys = k1, !.chs = s1]
           r == [t EXCEPT !.keys = k2, !.chs = s2]
           q == t.keys  u == t.chs
<1>1. {"type", "keys", "chs"} \subseteq DOMAIN t /\ q \in Seq(Nat) /\ u \in Seq(S)
  BY DEF IsNode
<1>2. /\ B \in Nat \ {0, 1} /\ Len(q) = 2*B - 1 /\ Len(u) = 2*B
      /\ \A j \in 1..(2*B - 1) : q[j] \in Nat
      /\ \A j \in 1..(2*B) : u[j] \in S
  <2>1. Len(q) = 2*B - 1 /\ B \in Nat \ {0, 1} /\ Len(u) = 2*B
    BY BoundsAssumption DEF IsFull, Copied
  <2> QED
    BY <1>1, <2>1, LenProperties
<1>3. k1 \in Seq(Nat) /\ Len(k1) = B - 1
  BY <1>1, <1>2, SubSeqProperties
<1>4. k2 \in Seq(Nat) /\ Len(k2) = B - 1
  <2>1. \A j \in (B + 1)..(2*B - 1) : q[j] \in Nat
    BY <1>2
  <2> QED
    BY <1>1, <1>2, <2>1, SubSeqProperties
<1>5. s1 \in Seq(S) /\ Len(s1) = B
  BY <1>1, <1>2, SubSeqProperties
<1>6. s2 \in Seq(S) /\ Len(s2) = B
  <2>1. \A j \in (B + 1)..(2*B) : u[j] \in S
    BY <1>2
  <2> QED
    BY <1>1, <1>2, <2>1, SubSeqProperties
<1>7. SplitKeys(t) = <<k1, k2>> /\ SplitChs(t) = <<s1, s2>>
  BY DEF SplitKeys, SplitChs
<1> HIDE DEF k1, k2, s1, s2
<1>8. Halves(t) = <<l, r>>
  <2> DEFINE ns == Halves(t)
  <2>1. ns = [j \in 1..2 |-> [t EXCEPT !.keys = <<k1, k2>>[j], !.chs = <<s1, s2>>[j]]]
    BY <1>7 DEF Halves
  <2>2. <<k1, k2>>[1] = k1 /\ <<k1, k2>>[2] = k2 /\ <<s1, s2>>[1] = s1 /\ <<s1, s2>>[2] = s2
    OBVIOUS
  <2>3. ns[1] = l /\ ns[2] = r /\ ns = [j \in 1..2 |-> ns[j]]
    <3>1. \A j \in 1..2 : ns[j] = [t EXCEPT !.keys = <<k1, k2>>[j], !.chs = <<s1, s2>>[j]]
      BY <2>1, Zenon
    <3>2. 1 \in 1..2 /\ 2 \in 1..2
      OBVIOUS
    <3>3. ns[1] = l /\ ns[2] = r
      BY <2>2, <3>1, <3>2, Zenon
    <3>4. ns = [j \in 1..2 |-> ns[j]]
      BY <2>1, Zenon
    <3> QED
      BY <3>3, <3>4
  <2> HIDE DEF ns, l, r
  <2>4. ns = <<l, r>>
    BY <2>3
  <2> QED
    BY <2>4 DEF ns
<1>9. /\ DOMAIN l = DOMAIN t /\ l.keys = k1 /\ l.chs = s1
      /\ DOMAIN r = DOMAIN t /\ r.keys = k2 /\ r.chs = s2
  BY <1>1
<1> HIDE DEF l, r
<1>10. IsNode(l, S) /\ IsNode(r, S)
  BY <1>1, <1>3, <1>4, <1>5, <1>6, <1>9 DEF IsNode
<1> QED
  BY <1>3, <1>4, <1>5, <1>6, <1>8, <1>9, <1>10 DEF AreHalves

\* The nodes that replace an inner node copied whole: itself or its halves and
\* a new root above them.
CopiedWhole(h, v, nodes) ==
    /\ Len(nodes) \in {1, 3} /\ DOMAIN nodes = 1..Len(nodes)
    /\ \A k \in 1..Len(nodes) :
         IsNode(nodes[k], Upto(h, v) \union {Fresh(h, v, j) : j \in 1..Len(nodes)})
    /\ \A k \in 1..2 : k = 1 \/ Len(nodes) = 3 =>
         /\ nodes[k].chs \in Seq(Upto(h, v - 1))
         /\ Len(nodes[k].chs) >= Len(nodes[k].keys) + 1

LEMMA CopyWhole ==
  ASSUME NEW h, NEW v, NEW t, IsNode(t, Upto(h, v - 1)), Copied(t),
         Upto(h, v - 1) \subseteq Upto(h, v),
         NEW top, IsFull(t) => IsNode(top, {Fresh(h, v, 1), Fresh(h, v, 2)}),
         NEW nodes, nodes = IF IsFull(t) THEN Append(Halves(t), top) ELSE <<t>>
  PROVE  CopiedWhole(h, v, nodes) /\ Len(nodes) = IF IsFull(t) THEN 3 ELSE 1
<1> DEFINE S == Upto(h, v - 1)
           T(n) == Upto(h, v) \union {Fresh(h, v, j) : j \in 1..n}
<1>1. B \in Nat \ {0, 1} /\ t.chs \in Seq(S)
  BY BoundsAssumption DEF IsNode
<1>2. CASE ~IsFull(t)
  <2>1. nodes = <<t>>
    BY <1>2
  <2>2. IsNode(t, T(1))
    BY MoreTargets
  <2>3. Len(t.keys) \in Nat /\ Len(t.chs) >= Len(t.keys) + 1
    <3>1. Len(t.keys) \in Nat
      BY LenProperties DEF IsNode
    <3> QED
      BY <3>1 DEF Copied
  <2>4. Len(nodes) = 1 /\ DOMAIN nodes = 1..1 /\ nodes[1] = t
    BY <2>1
  <2>5. \A k \in 1..Len(nodes) : IsNode(nodes[k], T(Len(nodes)))
    <3> HIDE DEF T
    <3>1. SUFFICES ASSUME NEW k \in 1..1 PROVE IsNode(nodes[k], T(1))
      BY <2>4
    <3>2. k = 1
      OBVIOUS
    <3> QED
      BY <2>2, <2>4, <3>2
  <2>6. \A k \in 1..2 : k = 1 \/ Len(nodes) = 3 =>
          nodes[k].chs \in Seq(S) /\ Len(nodes[k].chs) >= Len(nodes[k].keys) + 1
    <3> HIDE DEF S
    <3> QED
      BY <1>1, <2>3, <2>4
  <2> QED
    BY <1>2, <2>4, <2>5, <2>6 DEF CopiedWhole
<1>3. CASE IsFull(t)
  <2> DEFINE ns == Halves(t)  l == ns[1]  r == ns[2]
  <2>1. AreHalves(ns, S)
    BY <1>3, HalvesNodes
  <2> HIDE DEF ns
  <2>2. /\ ns = <<l, r>> /\ IsNode(l, S) /\ IsNode(r, S)
        /\ Len(l.keys) = B - 1 /\ Len(l.chs) = B /\ Len(r.keys) = B - 1 /\ Len(r.chs) = B
    BY <2>1 DEF AreHalves
  <2> HIDE DEF l, r
  <2>3. AreThree(nodes, l, r, top)
    <3>1. nodes = Append(<<l, r>>, top)
      BY <1>3, <2>2 DEF ns
    <3> QED
      BY <3>1, AppendThree
  <2>4. IsNode(l, T(3)) /\ IsNode(r, T(3)) /\ IsNode(top, T(3))
    <3>1. S \subseteq T(3)
      OBVIOUS
    <3>2. {Fresh(h, v, 1), Fresh(h, v, 2)} \subseteq T(3)
      OBVIOUS
    <3> HIDE DEF S, T
    <3> QED
      BY <1>3, <2>2, <3>1, <3>2, MoreTargets
  <2>5. l.chs \in Seq(S) /\ r.chs \in Seq(S)
    BY <2>2 DEF IsNode
  <2>6. Len(nodes) = 3 /\ DOMAIN nodes = 1..3 /\ nodes[1] = l /\ nodes[2] = r /\ nodes[3] = top
    BY <2>3 DEF AreThree
  <2>7. \A k \in 1..Len(nodes) : IsNode(nodes[k], T(Len(nodes)))
    <3> HIDE DEF T
    <3> QED
      BY <2>4, <2>6
  <2>8. \A k \in 1..2 : nodes[k].chs \in Seq(S) /\ Len(nodes[k].chs) >= Len(nodes[k].keys) + 1
    BY <1>1, <2>2, <2>5, <2>6
  <2> QED
    BY <1>3, <2>6, <2>7, <2>8 DEF CopiedWhole
<1> QED
  BY <1>2, <1>3

\* Two nodes below a new root.
LEMMA TopNode ==
  ASSUME NEW t, {"type", "keys", "chs"} \subseteq DOMAIN t,
         NEW k \in Nat, t.keys = <<k>>, NEW a, NEW b, t.chs = <<a, b>>
  PROVE  IsNode(t, {a, b})
<1>1. <<k>> \in Seq(Nat) /\ <<a, b>> \in Seq({a, b})
  OBVIOUS
<1> QED
  BY <1>1 DEF IsNode

\* A root that is a leaf.
LEMMA RootLeafHandled ==
  ASSUME NEW h, NEW c, Ready(h, c), NEW ls, AreLeaves(ls, Upto(h, c.sno))
  PROVE  Handled(h, c, RootLeaf(h, c, ls))
<1> DEFINE v == c.sno
           a == Fresh(h, v, 1)  b == Fresh(h, v, 2)
           top == Internal(<<ls[2].keys[1]>>, <<a, b>>)
           nodes == Append(ls, top)
           g == Alloc(h, v, nodes)
           d == [c EXCEPT !.root = Fresh(h, v, 3), !.op = "DONE"]
           T == Upto(h, v) \union {Fresh(h, v, j) : j \in 1..3}
<1>0. Nodes(h, {}) /\ Numbered(h, v) /\ v \in Nat \ {0} /\ IsContext(c)
  BY DEF Ready
<1> HIDE DEF v
<1>1. CASE Len(ls) = 1
  <2>1. RootLeaf(h, c, ls) = Wild(h, c)
    BY <1>1 DEF RootLeaf
  <2> QED
    BY <2>1, WildHandled
<1>2. CASE Len(ls) # 1
  <2>1. /\ ls = <<ls[1], ls[2]>> /\ DOMAIN ls = 1..2 /\ ls[2].keys[1] \in Nat
        /\ \A k \in 1..2 : IsNode(ls[k], Upto(h, v))
    BY <1>2 DEF AreLeaves, v
  <2>2. RootLeaf(h, c, ls) = Result(g, d)
    BY <1>2 DEF RootLeaf, v
  <2>3. IsNode(top, {a, b})
    <3>1. /\ {"type", "keys", "chs"} \subseteq DOMAIN top
          /\ top.keys = <<ls[2].keys[1]>> /\ top.chs = <<a, b>>
      BY DEF Internal
    <3> HIDE DEF top
    <3> QED
      BY <2>1, <3>1, TopNode
  <2> HIDE DEF top
  <2>4. AreThree(nodes, ls[1], ls[2], top)
    <3> DEFINE x == ls[1]  y == ls[2]
    <3>1. ls = <<x, y>>
      BY <2>1
    <3> HIDE DEF x, y
    <3>2. nodes = Append(<<x, y>>, top)
      BY <3>1
    <3> QED
      BY <3>2, AppendThree DEF x, y
  <2> HIDE DEF nodes
  <2>5. DOMAIN nodes = 1..3 /\ \A k \in 1..3 : IsNode(nodes[k], T \union {})
    <3>1. Upto(h, v) \subseteq T \union {} /\ {a, b} \subseteq T \union {}
      OBVIOUS
    <3> HIDE DEF T, a, b
    <3>2. IsNode(ls[1], T \union {}) /\ IsNode(ls[2], T \union {}) /\ IsNode(top, T \union {})
      BY <2>1, <2>3, <3>1, MoreTargets
    <3> QED
      BY <2>4, <3>2 DEF AreThree
  <2>6. Nodes(g, {}) /\ Grows(h, g, v) /\ Extends(h, v, 3, nodes, g)
    BY <1>0, <2>5, AllocGrows, AllocNodes
  <2> HIDE DEF g
  <2>7. Fresh(h, v, 3) \in Upto(g, v)
    <3>1. 3 \in 1..3 /\ v <= v
      BY <1>0
    <3> QED
      BY <2>6, <3>1 DEF Extends, Upto
  <2>8. /\ DOMAIN d = DOMAIN c /\ d.op = "DONE" /\ d.root = Fresh(h, v, 3) /\ d.sno = c.sno
        /\ d.ran = c.ran /\ d.key = c.key
    BY <1>0 DEF IsContext
  <2> HIDE DEF d
  <2> QED
    BY <1>0, <2>2, <2>6, <2>7, <2>8 DEF Handled, Result, IsContext, v
<1> QED
  BY <1>1, <1>2

\* What HandledLater needs of a handler that made the nodes that replace t.
LEMMA WholeDescends ==
  ASSUME NEW h, NEW c, Ready(h, c), NEW nodes, CopiedWhole(h, c.sno, nodes),
         NEW k \in 1..2, k = 1 \/ Len(nodes) = 3,
         NEW d, IsContext(d), d.sno = c.sno, d.root = Fresh(h, c.sno, Len(nodes)),
         d.cur = Fresh(h, c.sno, k)
  PROVE  /\ Descends(Alloc(h, c.sno, nodes), d)
         /\ Nodes(Alloc(h, c.sno, nodes), {}) /\ Grows(h, Alloc(h, c.sno, nodes), c.sno)
<1> DEFINE v == c.sno
           g == Alloc(h, v, nodes)
           n == Len(nodes)
<1>0. Nodes(h, {}) /\ Numbered(h, v) /\ v \in Nat \ {0}
  BY DEF Ready
<1>1. n \in {1, 3} /\ DOMAIN nodes = 1..n /\ k \in 1..n /\ n \in 1..n
  BY DEF CopiedWhole
<1>2. Nodes(g, {}) /\ Grows(h, g, v) /\ Extends(h, v, n, nodes, g)
  <2>1. \A j \in 1..n : IsNode(nodes[j], Upto(h, v) \union {Fresh(h, v, i) : i \in 1..n} \union {})
    <3>1. \A j \in 1..n : IsNode(nodes[j], Upto(h, v) \union {Fresh(h, v, i) : i \in 1..n})
      BY DEF CopiedWhole
    <3>2. Upto(h, v) \union {Fresh(h, v, i) : i \in 1..n} \union {} = Upto(h, v) \union {Fresh(h, v, i) : i \in 1..n}
      OBVIOUS
    <3> QED
      BY <3>1, <3>2
  <2>2. n \in Nat
    BY <1>1
  <2> HIDE DEF n
  <2> QED
    BY <1>0, <1>1, <2>1, <2>2, AllocGrows, AllocNodes
<1> HIDE DEF g, n
<1>3. /\ \A j \in 1..n : /\ Fresh(h, v, j) \in OwnNodes(g, v) /\ Fresh(h, v, j) \in Upto(g, v)
                         /\ g[Fresh(h, v, j)] = nodes[j]
      /\ Numbered(g, v)
  BY <1>0, <1>2 DEF Extends, OwnNodes, Upto
<1>4. nodes[k].chs \in Seq(Upto(g, v - 1)) /\ Len(nodes[k].chs) >= Len(nodes[k].keys) + 1
  <2>1. nodes[k].chs \in Seq(Upto(h, v - 1)) /\ Len(nodes[k].chs) >= Len(nodes[k].keys) + 1
    BY DEF CopiedWhole, n
  <2>2. Upto(h, v - 1) \subseteq Upto(g, v - 1)
    BY <1>2, GrowsKeeps
  <2> QED
    BY <2>1, <2>2, SeqMonotonic
<1>5. Ready(g, d)
  BY <1>0, <1>2, <1>3 DEF Ready, v
<1>6. Descends(g, d)
  <2>1. d.root \in Upto(g, d.sno) /\ d.cur \in OwnNodes(g, d.sno) /\ g[d.cur] = nodes[k] /\ d.sno = v
    BY <1>1, <1>3 DEF n, v
  <2> QED
    BY <1>4, <1>5, <2>1 DEF Descends
<1> QED
  BY <1>2, <1>6 DEF g, v

LEMMA InitHandled ==
  ASSUME NEW h, NEW c, Ready(h, c), c.past \in Upto(h, c.sno - 1)
  PROVE  Handled(h, c, HandleInit(h, c))
<1> DEFINE v == c.sno
           t == h[c.past]
           top == Internal(<<t.keys[B]>>, <<Fresh(h, v, 1), Fresh(h, v, 2)>>)
           right == IsFull(t) /\ c.key >= t.keys[B]
           nodes == IF IsFull(t) THEN Append(Halves(t), top) ELSE <<t>>
           n == IF IsFull(t) THEN 3 ELSE 1
           k == IF right THEN 2 ELSE 1
           d == [c EXCEPT !.root = Fresh(h, v, n), !.cur = Fresh(h, v, k)]
<1>0. Nodes(h, {}) /\ Numbered(h, v) /\ v \in Nat \ {0} /\ IsContext(c)
  BY DEF Ready
<1>1. c.past \in DOMAIN h /\ IsNode(t, Upto(h, v - 1)) /\ Upto(h, v - 1) \subseteq Upto(h, v)
  BY ChsOfPast
<1> HIDE DEF v, t
<1>2. CASE t.type = "LEAF"
  <2>1. HandleInit(h, c) = RootLeaf(h, c, UpdateLeafCow(t, c.key, v))
    BY <1>2 DEF HandleInit, t, v
  <2>2. AreLeaves(UpdateLeafCow(t, c.key, v), Upto(h, v))
    <3>1. IsNode(t, Upto(h, v)) /\ c.key \in Nat
      BY <1>0, <1>1, MoreTargets DEF IsContext
    <3> QED
      BY <3>1, UpdateLeafNodes
  <2> QED
    BY <2>1, <2>2, RootLeafHandled DEF v
<1>3. CASE t.type # "LEAF" /\ ~Copied(t)
  <2>1. HandleInit(h, c) = Wild(h, c)
    BY <1>3 DEF HandleInit, t
  <2> QED
    BY <2>1, WildHandled
<1>4. CASE t.type # "LEAF" /\ Copied(t)
  <2>1. HandleInit(h, c) = UpdateCow(Alloc(h, v, nodes), d)
    BY <1>4 DEF HandleInit, t, v
  <2>2. CopiedWhole(h, v, nodes) /\ Len(nodes) = n
    <3>1. IsFull(t) => IsNode(top, {Fresh(h, v, 1), Fresh(h, v, 2)})
      <4>1. /\ {"type", "keys", "chs"} \subseteq DOMAIN top
            /\ top.keys = <<t.keys[B]>> /\ top.chs = <<Fresh(h, v, 1), Fresh(h, v, 2)>>
        BY DEF Internal
      <4>2. IsFull(t) => t.keys[B] \in Nat
        <5>1. Len(t.keys) \in Nat /\ \A j \in 1..Len(t.keys) : t.keys[j] \in Nat
          BY <1>1, LenProperties DEF IsNode
        <5>2. IsFull(t) => B \in 1..Len(t.keys)
          BY <5>1, BoundsAssumption DEF IsFull
        <5> QED
          BY <5>1, <5>2
      <4> HIDE DEF top
      <4> QED
        BY <4>1, <4>2, TopNode
    <3> HIDE DEF top
    <3> QED
      BY <1>1, <1>4, <3>1, CopyWhole
  <2> DEFINE g == Alloc(h, v, nodes)
  <2> HIDE DEF nodes
  <2>3. k \in 1..2 /\ (k = 1 \/ Len(nodes) = 3)
    BY <2>2
  <2> HIDE DEF k, n
  <2>4. /\ IsContext(d) /\ d.sno = c.sno /\ d.ran = c.ran /\ d.root = Fresh(h, c.sno, Len(nodes))
        /\ d.cur = Fresh(h, c.sno, k)
    BY <1>0, <2>2 DEF IsContext, v
  <2> HIDE DEF d
  <2>5. Descends(g, d) /\ Nodes(g, {}) /\ Grows(h, g, v)
    BY <2>2, <2>3, <2>4, WholeDescends DEF v
  <2> HIDE DEF g
  <2>6. Handled(g, d, UpdateCow(g, d))
    BY <2>5, UpdateCowHandled
  <2> QED
    BY <2>1, <2>4, <2>5, <2>6, HandledLater DEF g, v
<1> QED
  BY <1>2, <1>3, <1>4

-------------------------------------------------------------------------------
(* Which handler follows *)

LEMMA WildNext ==
  ASSUME NEW h, NEW c, IsContext(c)
  PROVE  Wild(h, c).ctx.op = "WILD"
BY DEF Wild, Result, IsContext

LEMMA CopyChildNext ==
  ASSUME NEW h, NEW c, IsContext(c), NEW i
  PROVE  CopyChild(h, c, i).ctx.op \in {"DONE", "SEARCH_DOWN", "SEARCH_SPLIT"}
<1>1. CASE h[c.past].type = "LEAF"
  <2>1. CopyChild(h, c, i) = LinkLeaves(h, c, i, UpdateLeafCow(h[c.past], c.key, c.sno))
    BY <1>1 DEF CopyChild
  <2>2. \A ls : LinkLeaves(h, c, i, ls).ctx.op = "DONE"
    BY DEF LinkLeaves, Result, IsContext
  <2> QED
    BY <2>1, <2>2
<1>2. CASE h[c.past].type # "LEAF" /\ IsFull(h[c.past])
  <2> DEFINE d == [c EXCEPT !.idx = i, !.op = "SEARCH_SPLIT"]
  <2>1. PICK g : CopyChild(h, c, i) = Result(g, d)
    BY <1>2 DEF CopyChild
  <2>2. d.op = "SEARCH_SPLIT"
    BY DEF IsContext
  <2> HIDE DEF d
  <2> QED
    BY <2>1, <2>2 DEF Result
<1>3. CASE h[c.past].type # "LEAF" /\ ~IsFull(h[c.past])
  <2> DEFINE d == [c EXCEPT !.cur = Fresh(h, c.sno, 1), !.op = "SEARCH_DOWN"]
  <2>1. PICK g : CopyChild(h, c, i) = Result(g, d)
    BY <1>3 DEF CopyChild
  <2>2. d.op = "SEARCH_DOWN"
    BY DEF IsContext
  <2> HIDE DEF d
  <2> QED
    BY <2>1, <2>2 DEF Result
<1> QED
  BY <1>1, <1>2, <1>3

LEMMA UpdateCowNext ==
  ASSUME NEW h, NEW c, IsContext(c)
  PROVE  UpdateCow(h, c).ctx.op \in {"DONE", "SEARCH_DOWN", "SEARCH_SPLIT"}
<1> DEFINE i == FindCh(h[c.cur], c.key)  d == [c EXCEPT !.past = h[c.cur].chs[i]]
<1>1. UpdateCow(h, c) = CopyChild(h, d, i)
  BY DEF UpdateCow
<1>2. IsContext(d)
  BY DEF IsContext
<1> HIDE DEF d, i
<1> QED
  BY <1>1, <1>2, CopyChildNext

LEMMA UpdateLowerNext ==
  ASSUME NEW h, NEW c, IsContext(c), Handled(h, c, UpdateCow(h, c))
  PROVE  UpdateLowerCow(h, c).ctx.op \in {"DONE", "SEARCH_LOWER", "SEARCH_SPLIT"}
<1> DEFINE r == UpdateCow(h, c)
<1>1. {"heap", "ctx"} \subseteq DOMAIN r /\ "op" \in DOMAIN r.ctx
  BY DEF Handled, IsContext
<1>2. r.ctx.op \in {"DONE", "SEARCH_DOWN", "SEARCH_SPLIT"}
  BY UpdateCowNext
<1> HIDE DEF r
<1>3. Lower(r).ctx.op = IF r.ctx.op = "SEARCH_DOWN" THEN "SEARCH_LOWER" ELSE r.ctx.op
  BY <1>1 DEF Lower
<1> QED
  BY <1>2, <1>3 DEF UpdateLowerCow, r

LEMMA BTreeNext ==
  ASSUME NEW h, NEW c, IsContext(c), c.op \in {"INIT", "SEARCH_DOWN", "SEARCH_SPLIT"}
  PROVE  HandleBTree(h, c).ctx.op \in {"WILD", "DONE", "SEARCH_DOWN", "SEARCH_SPLIT"}
<1>1. Wild(h, c).ctx.op = "WILD"
  BY DEF Wild, Result, IsContext
<1>2. CASE c.op = "INIT"
  <2>1. HandleBTree(h, c) = HandleInit(h, c)
    BY <1>2 DEF HandleBTree
  <2>2. \A ls : RootLeaf(h, c, ls).ctx.op \in {"WILD", "DONE"}
    <3>1. SUFFICES ASSUME NEW ls PROVE RootLeaf(h, c, ls).ctx.op \in {"WILD", "DONE"}
      OBVIOUS
    <3> DEFINE d == [c EXCEPT !.root = Fresh(h, c.sno, 3), !.op = "DONE"]
    <3>2. RootLeaf(h, c, ls) = Wild(h, c) \/ \E g : RootLeaf(h, c, ls) = Result(g, d)
      BY DEF RootLeaf
    <3>3. d.op = "DONE"
      BY DEF IsContext
    <3> HIDE DEF d
    <3> QED
      BY <1>1, <3>2, <3>3 DEF Result
  <2>3. \/ HandleInit(h, c) = Wild(h, c)
        \/ \E ls : HandleInit(h, c) = RootLeaf(h, c, ls)
        \/ \E g, a, b : HandleInit(h, c) = UpdateCow(g, [c EXCEPT !.root = a, !.cur = b])
    BY DEF HandleInit
  <2>5. CASE HandleInit(h, c) = Wild(h, c)
    BY <1>1, <2>1, <2>5
  <2>6. CASE \E ls : HandleInit(h, c) = RootLeaf(h, c, ls)
    <3>1. PICK ls : HandleInit(h, c) = RootLeaf(h, c, ls)
      BY <2>6
    <3> QED
      BY <2>1, <2>2, <3>1
  <2>7. CASE \E g, a, b : HandleInit(h, c) = UpdateCow(g, [c EXCEPT !.root = a, !.cur = b])
    <3>1. PICK g, a, b : HandleInit(h, c) = UpdateCow(g, [c EXCEPT !.root = a, !.cur = b])
      BY <2>7
    <3> DEFINE d == [c EXCEPT !.root = a, !.cur = b]
    <3>2. IsContext(d) /\ HandleInit(h, c) = UpdateCow(g, d)
      BY <3>1 DEF IsContext
    <3> HIDE DEF d
    <3> QED
      BY <2>1, <3>2, UpdateCowNext
  <2> QED
    BY <2>3, <2>5, <2>6, <2>7
<1>3. CASE c.op = "SEARCH_DOWN"
  <2>1. HandleBTree(h, c) = HandleSearchDown(h, c)
    BY <1>3 DEF HandleBTree
  <2>2. HandleSearchDown(h, c) = Wild(h, c) \/ \E g : HandleSearchDown(h, c) = UpdateCow(g, c)
    BY DEF HandleSearchDown
  <2> QED
    BY <1>1, <2>1, <2>2, UpdateCowNext
<1>4. CASE c.op = "SEARCH_SPLIT"
  <2>1. HandleBTree(h, c) = HandleSearchSplit(h, c)
    BY <1>4 DEF HandleBTree
  <2>2. \/ HandleSearchSplit(h, c) = Wild(h, c)
        \/ \E g, a : HandleSearchSplit(h, c) = UpdateCow(g, [c EXCEPT !.cur = a])
    BY DEF HandleSearchSplit
  <2>3. \A a : IsContext([c EXCEPT !.cur = a])
    BY DEF IsContext
  <2> QED
    BY <1>1, <2>1, <2>2, <2>3, UpdateCowNext
<1> QED
  BY <1>2, <1>3, <1>4

-------------------------------------------------------------------------------
(* The handlers of the elastic B-tree *)

\* The nodes that take the place of one, the last one on top.
Replaces(h, v, nodes) ==
    /\ Len(nodes) \in Nat \ {0} /\ DOMAIN nodes = 1..Len(nodes)
    /\ \A k \in 1..Len(nodes) :
         IsNode(nodes[k], Upto(h, v) \union {Fresh(h, v, j) : j \in 1..Len(nodes)})

LEMMA ReplaceLeafNodes ==
  ASSUME NEW h, NEW c, c.key \in Nat, NEW t, IsNode(t, Upto(h, c.sno)),
         NEW top, {"type", "keys", "chs"} \subseteq DOMAIN top
  PROVE  Replaces(h, c.sno, ReplaceLeaf(h, c, t, top))
<1> DEFINE v == c.sno
           ls == UpdateLeafCow(t, c.key, v)
           a == Fresh(h, v, 1)  b == Fresh(h, v, 2)
           key == ls[2].keys[1]
           root == Root(top, key, a, b)
           T(n) == Upto(h, v) \union {Fresh(h, v, j) : j \in 1..n}
<1>1. AreLeaves(ls, Upto(h, v))
  BY UpdateLeafNodes
<1> HIDE DEF v, ls
<1>2. CASE Len(ls) = 1
  <2>1. ReplaceLeaf(h, c, t, top) = ls
    BY <1>2 DEF ReplaceLeaf, OverLeaves, ls, v
  <2>2. DOMAIN ls = 1..1 /\ IsNode(ls[1], T(1))
    <3>1. DOMAIN ls = 1..1 /\ IsNode(ls[1], Upto(h, v))
      BY <1>1, <1>2 DEF AreLeaves
    <3> QED
      BY <3>1, MoreTargets
  <2>3. \A k \in 1..Len(ls) : IsNode(ls[k], T(Len(ls)))
    <3> HIDE DEF T
    <3>1. SUFFICES ASSUME NEW k \in 1..1 PROVE IsNode(ls[k], T(1))
      BY <1>2
    <3>2. k = 1
      OBVIOUS
    <3> QED
      BY <2>2, <3>2
  <2> QED
    <3>1. Replaces(h, v, ls)
      BY <1>2, <2>2, <2>3 DEF Replaces
    <3> QED
      BY <2>1, <3>1 DEF v
<1>3. CASE Len(ls) # 1
  <2> DEFINE nodes == Append(ls, root)
  <2>1. /\ ls = <<ls[1], ls[2]>> /\ key \in Nat /\ DOMAIN ls = 1..2
        /\ \A k \in 1..2 : IsNode(ls[k], Upto(h, v))
    BY <1>1, <1>3 DEF AreLeaves
  <2>2. ReplaceLeaf(h, c, t, top) = nodes
    BY <1>3 DEF ReplaceLeaf, OverLeaves, ls, v
  <2>3. IsNode(root, {a, b})
    <3>1. {"type", "keys", "chs"} \subseteq DOMAIN root /\ root.keys = <<key>> /\ root.chs = <<a, b>>
      <4> HIDE DEF key, a, b
      <4> QED
        BY DEF Root
    <3> HIDE DEF root, key, a, b
    <3> QED
      BY <2>1, <3>1, TopNode
  <2> HIDE DEF root
  <2>4. AreThree(nodes, ls[1], ls[2], root)
    <3> DEFINE x == ls[1]  y == ls[2]
    <3>1. ls = <<x, y>>
      BY <2>1
    <3> HIDE DEF x, y
    <3>2. nodes = Append(<<x, y>>, root)
      BY <3>1
    <3> QED
      BY <3>2, AppendThree DEF x, y
  <2> HIDE DEF nodes
  <2>5. \A k \in 1..3 : IsNode(nodes[k], T(3))
    <3>1. Upto(h, v) \subseteq T(3) /\ {a, b} \subseteq T(3)
      OBVIOUS
    <3> HIDE DEF T, a, b
    <3>2. IsNode(ls[1], T(3)) /\ IsNode(ls[2], T(3)) /\ IsNode(root, T(3))
      BY <2>1, <2>3, <3>1, MoreTargets
    <3> QED
      BY <2>4, <3>2 DEF AreThree
  <2>6. Len(nodes) = 3 /\ DOMAIN nodes = 1..3
    BY <2>4 DEF AreThree
  <2> QED
    BY <2>2, <2>5, <2>6 DEF Replaces, v
<1> QED
  BY <1>2, <1>3

\* The memory and the context once a node of the upper part is replaced.
UpperMade(h, c, r) ==
    /\ {"heap", "ctx"} \subseteq DOMAIN r
    /\ Nodes(r.heap, {}) /\ Grows(h, r.heap, c.sno)
    /\ \A id \in DOMAIN h : r.heap[id] = h[id]
    /\ IsContext(r.ctx) /\ r.ctx.sno = c.sno /\ r.ctx.ran = c.ran
    /\ r.ctx.root = c.root /\ r.ctx.past = c.past /\ r.ctx.cur \in OwnNodes(r.heap, c.sno)
    /\ r.ctx.op \in {"DONE", "SEARCH_ELASTIC", "SEARCH_UPPER"}

LEMMA UpdateUpperMade ==
  ASSUME NEW h, NEW c, Ready(h, c), c.past \in Upto(h, c.sno - 1)
  PROVE  UpperMade(h, c, UpdateUpperCow(h, c))
<1> DEFINE v == c.sno
           t == h[c.past]
           top == [Node("BOUNDARY", <<>>, <<>>, <<>>) EXCEPT !.verge = t.verge]
           nodes == IF t.type = "LEAF" THEN ReplaceLeaf(h, c, t, top)
                    ELSE <<[t EXCEPT !.chs = <<>>]>>
           n == Len(nodes)
           g == Alloc(h, v, nodes)
           d == [c EXCEPT !.cur = Fresh(h, v, n),
                          !.wait_child = t.type = "BOUNDARY",
                          !.op = CASE t.type = "LEAF" -> "DONE"
                                   [] t.type = "BOUNDARY" -> "SEARCH_ELASTIC"
                                   [] OTHER -> "SEARCH_UPPER"]
<1>0. Nodes(h, {}) /\ Numbered(h, v) /\ v \in Nat \ {0} /\ IsContext(c)
  BY DEF Ready
<1>1. IsNode(t, Upto(h, v))
  BY ChsOfPast, MoreTargets
<1>2. UpdateUpperCow(h, c) = Result(g, d)
  BY DEF UpdateUpperCow, UpperNodes
<1>3. Replaces(h, v, nodes)
  <2>1. CASE t.type = "LEAF"
    <3>1. {"type", "keys", "chs"} \subseteq DOMAIN top /\ c.key \in Nat
      BY <1>0 DEF Node, IsContext
    <3> HIDE DEF top, t
    <3>2. nodes = ReplaceLeaf(h, c, t, top)
      BY <2>1
    <3> QED
      BY <1>1, <3>1, <3>2, ReplaceLeafNodes
  <2>2. CASE t.type # "LEAF"
    <3> DEFINE u == [t EXCEPT !.chs = <<>>]
               T == Upto(h, v) \union {Fresh(h, v, j) : j \in 1..1}
    <3> HIDE DEF t
    <3>1. IsNode(u, T)
      <4>1. {"type", "keys", "chs"} \subseteq DOMAIN t /\ t.keys \in Seq(Nat)
        BY <1>1 DEF IsNode
      <4>2. DOMAIN u = DOMAIN t /\ u.keys = t.keys /\ u.chs = <<>> /\ <<>> \in Seq(T)
        BY <4>1
      <4> HIDE DEF u, T
      <4> QED
        BY <4>1, <4>2 DEF IsNode
    <3>2. nodes = <<u>>
      BY <2>2
    <3> HIDE DEF u, nodes, T
    <3>3. Len(nodes) = 1 /\ DOMAIN nodes = 1..1 /\ nodes[1] = u
      BY <3>2
    <3>4. \A k \in 1..Len(nodes) : IsNode(nodes[k], T)
      <4>1. SUFFICES ASSUME NEW k \in 1..1 PROVE IsNode(nodes[k], T)
        BY <3>3
      <4>2. k = 1
        OBVIOUS
      <4> QED
        BY <3>1, <3>3, <4>2
    <3> QED
      BY <3>3, <3>4 DEF Replaces, T
  <2> QED
    BY <2>1, <2>2
<1> HIDE DEF nodes, t, top
<1>4. Nodes(g, {}) /\ Grows(h, g, v) /\ Extends(h, v, n, nodes, g)
  <2>1. \A k \in 1..n : IsNode(nodes[k], Upto(h, v) \union {Fresh(h, v, j) : j \in 1..n} \union {})
    <3>1. \A k \in 1..n : IsNode(nodes[k], Upto(h, v) \union {Fresh(h, v, j) : j \in 1..n})
      BY <1>3 DEF Replaces
    <3>2. Upto(h, v) \union {Fresh(h, v, j) : j \in 1..n} \union {} = Upto(h, v) \union {Fresh(h, v, j) : j \in 1..n}
      OBVIOUS
    <3> QED
      BY <3>1, <3>2
  <2>2. n \in Nat /\ DOMAIN nodes = 1..n
    BY <1>3 DEF Replaces
  <2> HIDE DEF n
  <2> QED
    BY <1>0, <2>1, <2>2, AllocGrows, AllocNodes
<1>5. n \in 1..n
  BY <1>3 DEF Replaces
<1> HIDE DEF g, n
<1>6. Fresh(h, v, n) \in OwnNodes(g, v) /\ \A id \in DOMAIN h : g[id] = h[id]
  BY <1>4, <1>5 DEF Extends, OwnNodes
<1>7. /\ DOMAIN d = DOMAIN c /\ d.op \in {"DONE", "SEARCH_ELASTIC", "SEARCH_UPPER"}
      /\ d.root = c.root /\ d.sno = c.sno /\ d.past = c.past /\ d.cur = Fresh(h, v, n)
      /\ d.ran = c.ran /\ d.key = c.key
  BY <1>0 DEF IsContext
<1> HIDE DEF d
<1> QED
  BY <1>0, <1>2, <1>4, <1>6, <1>7 DEF UpperMade, Result, IsContext, v

LEMMA InitUpperHandled ==
  ASSUME NEW h, NEW c, Ready(h, c), c.past \in Upto(h, c.sno - 1)
  PROVE  /\ Handled(h, c, HandleInitUpper(h, c))
         /\ HandleInitUpper(h, c).ctx.op \in {"DONE", "SEARCH_UPPER", "SEARCH_ELASTIC"}
<1> DEFINE r == UpdateUpperCow(h, c)
           q == [r EXCEPT !.ctx.root = r.ctx.cur]
<1>1. UpperMade(h, c, r) /\ c.sno \in Nat
  BY UpdateUpperMade DEF Ready
<1>2. HandleInitUpper(h, c) = q
  BY DEF HandleInitUpper, Rooted
<1> HIDE DEF r
<1>3. /\ DOMAIN q = DOMAIN r /\ q.heap = r.heap /\ DOMAIN q.ctx = DOMAIN r.ctx
      /\ q.ctx.root = r.ctx.cur /\ q.ctx.cur = r.ctx.cur /\ q.ctx.past = r.ctx.past
      /\ q.ctx.sno = r.ctx.sno /\ q.ctx.ran = r.ctx.ran /\ q.ctx.op = r.ctx.op /\ q.ctx.key = r.ctx.key
  BY <1>1 DEF UpperMade, IsContext
<1> HIDE DEF q
<1>4. q.ctx.root \in Upto(q.heap, c.sno) /\ q.ctx.past \in Upto(q.heap, c.sno - 1)
  <2>1. c.past \in Upto(r.heap, c.sno - 1)
    BY <1>1, GrowsKeeps DEF UpperMade
  <2> QED
    BY <1>1, <1>3, <2>1 DEF UpperMade, OwnNodes, Upto
<1>5. (q.ctx.op # "DONE" => CopiesBTree(q.heap, q.ctx)) /\ q.ctx.op # "WILD"
  BY <1>1, <1>3 DEF UpperMade, CopiesBTree
<1> QED
  BY <1>1, <1>2, <1>3, <1>4, <1>5 DEF UpperMade, Handled, IsContext

LEMMA UpperHandled ==
  ASSUME NEW h, NEW c, Between(h, c)
  PROVE  /\ Handled(h, c, HandleUpper(h, c))
         /\ HandleUpper(h, c).ctx.op \in {"WILD", "DONE", "SEARCH_UPPER", "SEARCH_ELASTIC"}
<1> DEFINE v == c.sno
           p == h[c.past]
           i == FindCh(p, c.key)
           s == p.chs
           g == [h EXCEPT ![c.cur].chs = s]
           d == [c EXCEPT !.past = s[i]]
           r == UpdateUpperCow(g, d)
           q == [r EXCEPT !.heap[c.cur].chs[i] = r.ctx.cur]
           e == [s EXCEPT ![i] = r.ctx.cur]
           f == [r.heap EXCEPT ![c.cur].chs = e]
<1>0. /\ Ready(h, c) /\ Nodes(h, {}) /\ Numbered(h, v) /\ v \in Nat \ {0} /\ IsContext(c)
      /\ c.cur \in OwnNodes(h, v) /\ c.root \in Upto(h, v)
  BY DEF Between, Ready
<1>1. c.past \in DOMAIN h /\ IsNode(p, Upto(h, v - 1)) /\ Upto(h, v - 1) \subseteq Upto(h, v)
  BY <1>0, ChsOfPast DEF Between
<1> HIDE DEF v
<1>2. CASE ~Copied(p)
  <2>1. HandleUpper(h, c) = Wild(h, c)
    BY <1>2 DEF HandleUpper
  <2> QED
    BY <1>0, <2>1, WildHandled, WildNext
<1>3. CASE Copied(p)
  <2>1. HandleUpper(h, c) = q
    BY <1>3 DEF HandleUpper, Linked
  <2>2. s \in Seq(Upto(h, v - 1)) /\ p.keys \in Seq(Nat) /\ Len(p.keys) \in Nat /\ Len(s) = Len(p.keys) + 1
    BY <1>1, <1>3, LenProperties DEF IsNode, Copied
  <2>3. i \in 1..Len(s)
    BY <2>2, FindChRange
  <2> HIDE DEF i, s, p
  <2>4. /\ s \in Seq(Upto(h, v) \union {}) /\ DOMAIN s = 1..Len(s) /\ s[i] \in Upto(h, v - 1)
    BY <1>1, <2>2, <2>3, SeqMonotonic, LenProperties
  <2>5. ChsWritten(h, {}, v, c.cur, s, g)
    BY <1>0, <2>4, WriteChs
  <2> HIDE DEF g
  <2>6. Nodes(g, {}) /\ Grows(h, g, v) /\ DOMAIN g = DOMAIN h /\ Numbered(g, v) /\ g[c.cur].chs = s
    BY <2>5 DEF ChsWritten, Grows
  <2>7. \A w : Upto(g, w) = Upto(h, w) /\ OwnNodes(g, w) = OwnNodes(h, w)
    BY <2>6, SameUpto
  <2>8. /\ DOMAIN d = DOMAIN c /\ d.past = s[i] /\ d.sno = v /\ d.root = c.root /\ d.ran = c.ran
        /\ d.key = c.key
    BY <1>0 DEF IsContext, v
  <2> HIDE DEF d
  <2>9. Ready(g, d) /\ d.past \in Upto(g, d.sno - 1)
    BY <1>0, <2>4, <2>6, <2>7, <2>8 DEF Ready, IsContext
  <2>10. UpperMade(g, d, r)
    BY <2>9, UpdateUpperMade
  <2> HIDE DEF r
  <2>11. /\ Nodes(r.heap, {}) /\ Grows(g, r.heap, v) /\ Numbered(r.heap, v)
         /\ r.ctx.cur \in OwnNodes(r.heap, v) /\ r.heap[c.cur] = g[c.cur]
    BY <1>0, <2>6, <2>8, <2>10 DEF UpperMade, Grows, OwnNodes
  <2>12. c.cur \in OwnNodes(r.heap, v) /\ s \in Seq(Upto(r.heap, v)) /\ r.ctx.cur \in Upto(r.heap, v)
    <3>1. s \in Seq(Upto(r.heap, v))
      <4>1. Upto(h, v) \subseteq Upto(r.heap, v)
        BY <2>7, <2>11, GrowsKeeps
      <4> QED
        BY <1>1, <2>2, <4>1, SeqMonotonic
    <3>2. c.cur \in OwnNodes(r.heap, v)
      BY <1>0, <2>7, <2>11, GrowsKeeps
    <3>3. r.ctx.cur \in Upto(r.heap, v)
      BY <1>0, <2>11 DEF OwnNodes, Upto
    <3> QED
      BY <3>1, <3>2, <3>3
  <2>13. e \in Seq(Upto(r.heap, v) \union {})
    <3> DEFINE x == r.ctx.cur  S == Upto(r.heap, v)
    <3>1. s \in Seq(S) /\ x \in S
      BY <2>12
    <3> HIDE DEF x, S
    <3>2. [s EXCEPT ![i] = x] \in Seq(S)
      BY <2>3, <3>1, ExceptSeq
    <3> QED
      BY <3>2 DEF x, S
  <2>14. q = [r EXCEPT !.heap = f]
    <3>1. r.heap[c.cur].chs = s
      BY <2>6, <2>11
    <3> QED
      BY <3>1
  <2> HIDE DEF e
  <2>15. ChsWritten(r.heap, {}, v, c.cur, e, f)
    BY <2>11, <2>12, <2>13, WriteChs
  <2> HIDE DEF f
  <2>16. Nodes(f, {}) /\ Grows(r.heap, f, v) /\ DOMAIN f = DOMAIN r.heap
    BY <2>15 DEF ChsWritten
  <2>17. Grows(h, f, v)
    BY <1>0, <2>6, <2>11, <2>16, GrowsGrows
  <2>18. DOMAIN q = DOMAIN r /\ q.heap = f /\ q.ctx = r.ctx
    BY <2>10, <2>14 DEF UpperMade
  <2> HIDE DEF q
  <2>19. c.root \in Upto(f, v) /\ r.ctx.cur \in OwnNodes(f, v) /\ s[i] \in Upto(f, v - 1)
    BY <1>0, <2>4, <2>11, <2>16, <2>17, GrowsKeeps
  <2>20. (q.ctx.op # "DONE" => CopiesBTree(q.heap, q.ctx)) /\ q.ctx.op # "WILD"
    BY <2>10, <2>18 DEF UpperMade, CopiesBTree
  <2> QED
    BY <2>1, <2>8, <2>10, <2>16, <2>17, <2>18, <2>19, <2>20 DEF UpperMade, Handled, v
<1> QED
  BY <1>2, <1>3

LEMMA LowerHandled ==
  ASSUME NEW h, NEW c, NEW r, Handled(h, c, r)
  PROVE  Handled(h, c, Lower(r))
<1> DEFINE op == IF r.ctx.op = "SEARCH_DOWN" THEN "SEARCH_LOWER" ELSE r.ctx.op
           q == Lower(r)
<1>1. /\ DOMAIN q = DOMAIN r /\ q.heap = r.heap /\ DOMAIN q.ctx = DOMAIN r.ctx /\ q.ctx.op = op
      /\ q.ctx.root = r.ctx.root /\ q.ctx.cur = r.ctx.cur /\ q.ctx.past = r.ctx.past
      /\ q.ctx.sno = r.ctx.sno /\ q.ctx.ran = r.ctx.ran /\ q.ctx.key = r.ctx.key
      /\ q.ctx.idx = r.ctx.idx
  BY DEF Lower, Handled, IsContext
<1> HIDE DEF q
<1>2. CopiesBTree(r.heap, r.ctx) => CopiesBTree(q.heap, q.ctx)
  <2>1. CASE r.ctx.op = "SEARCH_DOWN"
    BY <1>1, <2>1 DEF CopiesBTree
  <2>2. CASE r.ctx.op # "SEARCH_DOWN"
    BY <1>1, <2>2 DEF CopiesBTree
  <2> QED
    BY <2>1, <2>2
<1> QED
  BY <1>1, <1>2 DEF Handled, IsContext, q

\* What replaces the root t of an elastic subtree.
LEMMA ElasticNodesReplace ==
  ASSUME NEW h, NEW c, Ready(h, c), NEW t, IsNode(t, Upto(h, c.sno - 1)),
         Upto(h, c.sno - 1) \subseteq Upto(h, c.sno), t.type = "LEAF" \/ Copied(t)
  PROVE  /\ Replaces(h, c.sno, ElasticNodes(h, c, t))
         /\ t.type # "LEAF" => CopiedWhole(h, c.sno, ElasticNodes(h, c, t))
<1> DEFINE v == c.sno
           grown == [Node("LOWER", <<>>, <<>>, <<>>) EXCEPT !.height = t.height + 1]
           top == Root(grown, t.keys[B], Fresh(h, v, 1), Fresh(h, v, 2))
           nodes == ElasticNodes(h, c, t)
<1>0. {"type", "keys", "chs"} \subseteq DOMAIN grown /\ c.key \in Nat
  BY DEF Node, Ready, IsContext
<1>1. CASE t.type = "LEAF"
  <2>1. nodes = ReplaceLeaf(h, c, t, grown)
    BY <1>1 DEF ElasticNodes
  <2>2. IsNode(t, Upto(h, v))
    BY MoreTargets
  <2> HIDE DEF grown, nodes
  <2>3. Replaces(h, v, nodes)
    BY <1>0, <2>1, <2>2, ReplaceLeafNodes
  <2> QED
    BY <1>1, <2>3 DEF nodes
<1>2. CASE t.type # "LEAF"
  <2>1. nodes = IF IsFull(t) THEN Append(Halves(t), top) ELSE <<t>>
    <3>1. CASE IsFull(t)
      BY <1>2, <3>1 DEF ElasticNodes
    <3>2. CASE ~IsFull(t)
      BY <1>2, <3>2 DEF ElasticNodes
    <3> QED
      BY <3>1, <3>2
  <2>2. IsFull(t) => IsNode(top, {Fresh(h, v, 1), Fresh(h, v, 2)})
    <3> DEFINE a == Fresh(h, v, 1)  b == Fresh(h, v, 2)  k == t.keys[B]
    <3>1. IsFull(t) => k \in Nat
      <4>1. Len(t.keys) \in Nat /\ \A j \in 1..Len(t.keys) : t.keys[j] \in Nat
        BY LenProperties DEF IsNode
      <4>2. IsFull(t) => B \in 1..Len(t.keys)
        BY <4>1, BoundsAssumption DEF IsFull
      <4> QED
        BY <4>1, <4>2
    <3> HIDE DEF a, b, k, grown
    <3>2. {"type", "keys", "chs"} \subseteq DOMAIN top /\ top.keys = <<k>> /\ top.chs = <<a, b>>
      BY <1>0 DEF Root, a, b, k
    <3> HIDE DEF top
    <3>3. IsFull(t) => IsNode(top, {a, b})
      BY <3>1, <3>2, TopNode
    <3> QED
      BY <3>3 DEF a, b
  <2> HIDE DEF top, nodes
  <2>3. CopiedWhole(h, v, nodes)
    BY <1>2, <2>1, <2>2, CopyWhole
  <2>4. Replaces(h, v, nodes)
    BY <2>3 DEF CopiedWhole, Replaces
  <2> QED
    BY <2>3, <2>4 DEF nodes
<1> QED
  BY <1>1, <1>2

LEMMA ElasticHandled ==
  ASSUME NEW h, NEW c, Between(h, c)
  PROVE  /\ Handled(h, c, HandleElastic(h, c))
         /\ HandleElastic(h, c).ctx.op \in {"WILD", "DONE", "SEARCH_LOWER", "SEARCH_SPLIT"}
<1> DEFINE v == c.sno
           p == h[c.past]
           i == FindCh(p, c.key)
           s == p.chs
           y == s[i]
           t == h[y]
           u == h[c.cur]
           nodes == ElasticNodes(h, c, t)
           n == Len(nodes)
           right == n = 3 /\ c.key >= nodes[3].keys[1]
           k == IF right THEN 2 ELSE 1
           top == Fresh(h, v, n)
           e == [s EXCEPT ![i] = top]
           w == [u EXCEPT !.chs = e]
           a == Alloc(h, v, nodes)
           g == [a EXCEPT ![c.cur] = w]
           d == [c EXCEPT !.past = y, !.cur = Fresh(h, v, k),
                          !.new_checkpoint = n = 3 /\ TooHigh(t.height + 1)]
<1>0. /\ Ready(h, c) /\ Nodes(h, {}) /\ Numbered(h, v) /\ v \in Nat \ {0} /\ IsContext(c)
      /\ c.cur \in OwnNodes(h, v) /\ c.cur \in DOMAIN h /\ c.root \in Upto(h, v)
  BY DEF Between, Ready, OwnNodes
<1>1. c.past \in DOMAIN h /\ IsNode(p, Upto(h, v - 1)) /\ Upto(h, v - 1) \subseteq Upto(h, v)
  BY <1>0, ChsOfPast DEF Between
<1>2. CASE ~(Copied(p) /\ (t.type = "LEAF" \/ Copied(t)))
  <2>1. HandleElastic(h, c) = Wild(h, c)
    BY <1>2 DEF HandleElastic
  <2> QED
    BY <1>0, <2>1, WildHandled, WildNext
<1>3. CASE Copied(p) /\ (t.type = "LEAF" \/ Copied(t))
  <2>1. HandleElastic(h, c) = Descend(h, c, i, t, nodes)
    BY <1>3 DEF HandleElastic
  <2>2. s \in Seq(Upto(h, v - 1)) /\ p.keys \in Seq(Nat) /\ Len(p.keys) \in Nat /\ Len(s) = Len(p.keys) + 1
    BY <1>1, <1>3, LenProperties DEF IsNode, Copied
  <2>3. i \in 1..Len(s)
    BY <2>2, FindChRange
  <2> HIDE DEF i, v
  <2>4. s \in Seq(Upto(h, v)) /\ DOMAIN s = 1..Len(s) /\ y \in Upto(h, v - 1)
    <3> HIDE DEF s
    <3> QED
      BY <1>1, <2>2, <2>3, SeqMonotonic, LenProperties
  <2>5. IsNode(t, Upto(h, v - 1))
    <3> DEFINE x == [c EXCEPT !.past = y]
    <3> HIDE DEF y
    <3>1. DOMAIN x = DOMAIN c /\ x.past = y /\ x.sno = v /\ x.ran = c.ran /\ x.key = c.key
      BY <1>0 DEF IsContext, v
    <3> HIDE DEF x
    <3>2. Ready(h, x) /\ x.past \in Upto(h, x.sno - 1)
      BY <1>0, <2>4, <3>1 DEF Ready, IsContext
    <3>3. IsNode(h[x.past], Upto(h, x.sno - 1))
      BY <3>2, ChsOfPast
    <3> QED
      BY <3>1, <3>3
  <2> HIDE DEF t
  <2>6. Replaces(h, v, nodes) /\ (t.type # "LEAF" => CopiedWhole(h, v, nodes))
    BY <1>0, <1>1, <1>3, <2>5, ElasticNodesReplace DEF v
  <2>7. HandleElastic(h, c) = IF t.type = "LEAF" THEN Result(g, [d EXCEPT !.op = "DONE"])
                              ELSE UpdateLowerCow(g, d)
    <3> DEFINE g0 == [a EXCEPT ![c.cur].chs = e]
    <3>1. HandleElastic(h, c) = IF t.type = "LEAF" THEN Result(g0, [d EXCEPT !.op = "DONE"])
                                ELSE UpdateLowerCow(g0, d)
      BY <2>1 DEF Descend, v
    <3>2. a[c.cur] = u
      <4> HIDE DEF nodes, u
      <4>1. Extends(h, v, n, nodes, a)
        BY <1>0, <2>6, AllocNodes DEF Replaces
      <4> QED
        BY <1>0, <4>1 DEF Extends, u
    <3> HIDE DEF a, e, u
    <3>3. g0 = g
      BY <3>2
    <3> HIDE DEF g0, g, d
    <3> QED
      BY <3>1, <3>3
  <2> HIDE DEF nodes, s, y, u
  <2>8. n \in Nat \ {0} /\ n \in 1..n /\ DOMAIN nodes = 1..n
    BY <2>6 DEF Replaces
  <2> DEFINE T == Upto(h, v) \union {Fresh(h, v, j) : j \in 1..n} \union {}
  <2>9. \A j \in 1..n : IsNode(nodes[j], T)
    <3>1. \A j \in 1..n : IsNode(nodes[j], Upto(h, v) \union {Fresh(h, v, m) : m \in 1..n})
      BY <2>6 DEF Replaces
    <3>2. T = Upto(h, v) \union {Fresh(h, v, m) : m \in 1..n}
      OBVIOUS
    <3> QED
      BY <3>1, <3>2
  <2>10. IsNode(u, Upto(h, v) \union {})
    BY <1>0 DEF Nodes, OwnNodes, u
  <2>11. w.keys = u.keys /\ IsNode(w, T)
    <3>1. e \in Seq(T)
      <4>1. s \in Seq(T) /\ top \in T
        BY <2>4, <2>8, SeqMonotonic
      <4> HIDE DEF T, top
      <4> QED
        BY <2>3, <4>1, ExceptSeq
    <3> HIDE DEF e, T
    <3>2. DOMAIN w = DOMAIN u /\ w.keys = u.keys /\ w.chs = e
      BY <2>10 DEF IsNode
    <3> HIDE DEF w
    <3> QED
      BY <2>10, <3>1, <3>2 DEF IsNode
  <2>12. Len(w.keys) >= Len(h[c.cur].keys)
    <3>1. Len(u.keys) \in Nat
      BY <2>10, LenProperties DEF IsNode
    <3> QED
      BY <2>11, <3>1 DEF u
  <2> HIDE DEF n, w
  <2>13. Made(h, {}, v, n, nodes, c.cur, w, g)
    BY <1>0, <2>8, <2>9, <2>11, <2>12, MakesNodes
  <2> HIDE DEF g, T
  <2>14. /\ Nodes(g, {}) /\ Grows(h, g, v) /\ Numbered(g, v) /\ c.root \in Upto(g, v)
         /\ Upto(h, v - 1) \subseteq Upto(g, v - 1)
    BY <1>0, <2>13, GrowsKeeps DEF Made, Grows
  <2> HIDE DEF top
  <2>15. /\ DOMAIN d = DOMAIN c /\ d.sno = c.sno /\ d.ran = c.ran /\ d.root = c.root
         /\ d.key = c.key /\ d.past = y /\ d.cur = Fresh(h, v, k)
    <3> HIDE DEF k
    <3> QED
      BY <1>0 DEF IsContext
  <2>16. CASE t.type = "LEAF"
    <3> DEFINE q == [d EXCEPT !.op = "DONE"]
    <3> HIDE DEF d
    <3>1. /\ DOMAIN q = DOMAIN c /\ q.sno = c.sno /\ q.ran = c.ran /\ q.root = c.root
          /\ q.key = c.key /\ q.op = "DONE"
      BY <1>0, <2>15 DEF IsContext
    <3>2. HandleElastic(h, c) = Result(g, q)
      BY <2>7, <2>16
    <3> HIDE DEF q
    <3> QED
      BY <1>0, <2>14, <3>1, <3>2 DEF Handled, Result, IsContext, v
  <2>17. CASE t.type # "LEAF"
    <3>1. CopiedWhole(h, v, nodes)
      BY <2>6, <2>17
    <3>2. k \in 1..2 /\ (k = 1 \/ Len(nodes) = 3) /\ k \in 1..n
      BY <3>1 DEF CopiedWhole, n
    <3> HIDE DEF k, d
    <3>3. /\ Fresh(h, v, k) \in OwnNodes(g, v) /\ g[Fresh(h, v, k)] = nodes[k]
      BY <2>13, <3>2 DEF Made
    <3>4. nodes[k].chs \in Seq(Upto(g, v - 1)) /\ Len(nodes[k].chs) >= Len(nodes[k].keys) + 1
      <4>1. nodes[k].chs \in Seq(Upto(h, v - 1)) /\ Len(nodes[k].chs) >= Len(nodes[k].keys) + 1
        BY <3>1, <3>2 DEF CopiedWhole
      <4> QED
        BY <2>14, <4>1, SeqMonotonic
    <3>5. Ready(g, d)
      BY <1>0, <2>14, <2>15 DEF Ready, IsContext, v
    <3>6. Descends(g, d)
      BY <2>14, <2>15, <3>3, <3>4, <3>5 DEF Descends, v
    <3>7. /\ Handled(g, d, UpdateLowerCow(g, d))
          /\ UpdateLowerCow(g, d).ctx.op \in {"WILD", "DONE", "SEARCH_LOWER", "SEARCH_SPLIT"}
      BY <3>5, <3>6, UpdateCowHandled, LowerHandled, UpdateLowerNext DEF UpdateLowerCow, Ready
    <3>8. HandleElastic(h, c) = UpdateLowerCow(g, d)
      BY <2>7, <2>17
    <3> QED
      BY <1>0, <2>14, <2>15, <3>7, <3>8, HandledLater DEF v
  <2> QED
    BY <2>16, <2>17
<1> QED
  BY <1>2, <1>3

LEMMA BeLowerHandled ==
  ASSUME NEW h, NEW c, Between(h, c), c.op = "SEARCH_LOWER"
  PROVE  /\ Handled(h, c, HandleLower(h, c))
         /\ HandleLower(h, c).ctx.op \in {"WILD", "DONE", "SEARCH_LOWER", "SEARCH_SPLIT"}
<1>0. Ready(h, c)
  BY DEF Between
<1>1. CASE ~Copied(h[c.past])
  BY <1>0, <1>1, WildHandled, WildNext DEF HandleLower, Ready
<1>2. CASE Copied(h[c.past])
  <2> DEFINE g == [h EXCEPT ![c.cur].chs = h[c.past].chs]
  <2>1. Descends(g, c) /\ Nodes(g, {}) /\ Grows(h, g, c.sno)
    BY <1>2, DescendsCopied
  <2>2. HandleLower(h, c) = UpdateLowerCow(g, c)
    BY <1>2 DEF HandleLower
  <2> HIDE DEF g
  <2>3. /\ Handled(g, c, UpdateLowerCow(g, c))
        /\ UpdateLowerCow(g, c).ctx.op \in {"WILD", "DONE", "SEARCH_LOWER", "SEARCH_SPLIT"}
    BY <1>0, <2>1, UpdateCowHandled, LowerHandled, UpdateLowerNext DEF UpdateLowerCow, Ready
  <2> QED
    BY <1>0, <2>1, <2>2, <2>3, HandledLater
<1> QED
  BY <1>1, <1>2

-------------------------------------------------------------------------------
(* A handler, whatever the structure *)

AllFit(h) == \A id \in DOMAIN h : Fits(h, h[id])

\* What of a node of the radix trees stays as it is made.
Steady(h, r) ==
    structure \notin BTrees =>
        \A id \in DOMAIN h :
            /\ id \in DOMAIN r
            /\ r[id].type = h[id].type /\ r[id].ofs = h[id].ofs /\ r[id].len = h[id].len
            /\ structure = "aert" /\ h[id].type = "NODE16" => r[id].keys = h[id].keys

\* What the handler of the task c finds.
Starts(h, c) ==
    /\ Nodes(h, NoNode) /\ AllFit(h)
    /\ Numbered(h, c.sno) /\ c.sno \in Nat \ {0} /\ IsContext(c)
    /\ \/ /\ c.op = "INIT" /\ c.past \in Upto(h, c.sno - 1) \union NoNode
          /\ RootFits(h, c.past) /\ c.ofs = 0 /\ c.emb = <<>>
       \/ c.op \in Handlers /\ TaskHolds(h, c)

\* What it leaves.
Leaves(h, c, r) ==
    /\ {"heap", "ctx"} \subseteq DOMAIN r
    /\ Nodes(r.heap, NoNode) /\ AllFit(r.heap)
    /\ Grows(h, r.heap, c.sno) /\ Steady(h, r.heap)
    /\ IsContext(r.ctx) /\ r.ctx.sno = c.sno /\ r.ctx.ran = c.ran
    /\ r.ctx.op # "WILD" => TaskHolds(r.heap, r.ctx)

LEMMA HandledLeaves ==
  ASSUME structure \in BTrees, NEW h, NEW c, NEW r, Handled(h, c, r),
         r.ctx.op \in Handlers \union {"WILD", "DONE"}
  PROVE  Leaves(h, c, r)
<1>1. NoNode = {} /\ structure # "art" /\ structure # "aert"
  BY DEF NoNode, BTrees
<1>2. RootFits(r.heap, r.ctx.root)
  BY DEF RootFits
<1>3. AllFit(r.heap) /\ Steady(h, r.heap)
  BY <1>1 DEF AllFit, Fits, Steady
<1> QED
  BY <1>1, <1>2, <1>3 DEF Handled, Leaves, TaskHolds

LEMMA BTreesLeave ==
  ASSUME structure \in BTrees, NEW h, NEW c, Starts(h, c)
  PROVE  Leaves(h, c, Handle(h, c))
<1>0. NoNode = {}
  BY DEF NoNode
<1>1. Ready(h, c)
  BY <1>0 DEF Starts, Ready
<1>2. c.op = "INIT" => c.past \in Upto(h, c.sno - 1)
  <2>1. "INIT" \notin Handlers
    BY DEF Handlers, BTrees
  <2> QED
    BY <1>0, <2>1 DEF Starts
<1>3. c.op # "INIT" => Between(h, c) /\ c.op \in Handlers
  <2>1. "DONE" \notin Handlers
    BY DEF Handlers, BTrees
  <2> QED
    BY <1>0, <1>1, <2>1 DEF Starts, TaskHolds, Between
<1>4. CASE structure = "btree"
  <2>1. Handle(h, c) = HandleBTree(h, c) /\ Handlers = {"SEARCH_DOWN", "SEARCH_SPLIT"}
    BY <1>4 DEF Handle, Handlers
  <2>2. c.op \in {"INIT", "SEARCH_DOWN", "SEARCH_SPLIT"}
    BY <1>3, <2>1
  <2>3. Handled(h, c, HandleBTree(h, c))
    <3>1. CASE c.op = "INIT"
      BY <1>1, <1>2, <3>1, InitHandled DEF HandleBTree
    <3>2. CASE c.op = "SEARCH_DOWN"
      BY <1>3, <3>2, CopiedHandled DEF HandleBTree
    <3>3. CASE c.op = "SEARCH_SPLIT"
      BY <1>3, <3>3, SplitHandled DEF HandleBTree
    <3> QED
      BY <2>2, <3>1, <3>2, <3>3
  <2>4. HandleBTree(h, c).ctx.op \in {"WILD", "DONE", "SEARCH_DOWN", "SEARCH_SPLIT"}
    BY <1>1, <2>2, BTreeNext DEF Ready
  <2> QED
    BY <2>1, <2>3, <2>4, HandledLeaves
<1>5. CASE structure = "betree"
  <2> DEFINE ops == {"SEARCH_UPPER", "SEARCH_ELASTIC", "SEARCH_LOWER", "SEARCH_SPLIT"}
  <2>1. Handle(h, c) = HandleBeTree(h, c) /\ Handlers = ops
    BY <1>5 DEF Handle, Handlers
  <2>2. c.op \in {"INIT"} \union ops
    BY <1>3, <2>1
  <2>3. Handled(h, c, HandleBeTree(h, c)) /\ HandleBeTree(h, c).ctx.op \in ops \union {"WILD", "DONE"}
    <3>1. CASE c.op = "INIT"
      <4>1. HandleBeTree(h, c) = HandleInitUpper(h, c)
        BY <3>1 DEF HandleBeTree
      <4> QED
        BY <1>1, <1>2, <3>1, <4>1, InitUpperHandled
    <3>2. CASE c.op = "SEARCH_UPPER"
      <4>1. HandleBeTree(h, c) = HandleUpper(h, c)
        BY <3>2 DEF HandleBeTree
      <4> QED
        BY <1>3, <3>2, <4>1, UpperHandled
    <3>3. CASE c.op = "SEARCH_ELASTIC"
      <4>1. HandleBeTree(h, c) = HandleElastic(h, c)
        BY <3>3 DEF HandleBeTree
      <4> QED
        BY <1>3, <3>3, <4>1, ElasticHandled
    <3>4. CASE c.op = "SEARCH_LOWER"
      <4>1. HandleBeTree(h, c) = HandleLower(h, c)
        BY <3>4 DEF HandleBeTree
      <4> QED
        BY <1>3, <3>4, <4>1, BeLowerHandled
    <3>5. CASE c.op = "SEARCH_SPLIT"
      <4> DEFINE r == HandleSearchSplit(h, c)
      <4>1. HandleBeTree(h, c) = Lower(r)
        BY <3>5 DEF HandleBeTree, HandleSplit
      <4>2. Handled(h, c, r) /\ r = HandleBTree(h, c)
        BY <1>3, <3>5, SplitHandled DEF HandleBTree
      <4>3. r.ctx.op \in {"WILD", "DONE", "SEARCH_DOWN", "SEARCH_SPLIT"}
        BY <1>1, <3>5, <4>2, BTreeNext DEF Ready
      <4> HIDE DEF r
      <4>4. Lower(r).ctx.op = IF r.ctx.op = "SEARCH_DOWN" THEN "SEARCH_LOWER" ELSE r.ctx.op
        BY <4>2 DEF Lower, Handled, IsContext
      <4> QED
        BY <4>1, <4>2, <4>3, <4>4, LowerHandled
    <3> QED
      BY <2>2, <3>1, <3>2, <3>3, <3>4, <3>5
  <2> QED
    BY <2>1, <2>3, HandledLeaves
<1> QED
  BY <1>4, <1>5 DEF BTrees

-------------------------------------------------------------------------------
(* The others, and the steps *)

\* The memory r is h and what one task, or a checkpoint, made and wrote.
Lasts(h, r, v) ==
    /\ DOMAIN h \subseteq DOMAIN r
    /\ \A id \in DOMAIN r : id \notin DOMAIN h => Version(id) = v
    /\ \A id \in DOMAIN h : Version(id) # v => r[id] = h[id]
    /\ \A id \in DOMAIN h : Len(r[id].keys) >= Len(h[id].keys)
    /\ Steady(h, r)

LEMMA LastsKeeps ==
  ASSUME NEW h, NEW r, NEW v, Lasts(h, r, v)
  PROVE  /\ \A w : Upto(h, w) \subseteq Upto(r, w)
         /\ \A w : OwnNodes(h, w) \subseteq OwnNodes(r, w)
         /\ \A w : w # v => OwnNodes(r, w) = OwnNodes(h, w)
         /\ \A w : w # v /\ Numbered(h, w) => Numbered(r, w)
<1>1. \A w : w # v => OwnNodes(r, w) = OwnNodes(h, w)
  BY DEF Lasts, OwnNodes
<1> QED
  BY <1>1 DEF Lasts, Upto, OwnNodes, Numbered

LEMMA RootLasts ==
  ASSUME NEW h, NEW r, NEW v, Lasts(h, r, v),
         NEW w, NEW root \in Upto(h, w) \union NoNode, RootFits(h, root)
  PROVE  root \in Upto(r, w) \union NoNode /\ RootFits(r, root)
<1>1. root \in Upto(r, w) \union NoNode
  BY LastsKeeps
<1>2. CASE structure \in BTrees
  BY <1>1, <1>2 DEF RootFits
<1>3. CASE structure \notin BTrees
  BY <1>1, <1>3 DEF RootFits, Steady, Lasts, Upto, NoNode
<1> QED
  BY <1>2, <1>3

\* What a task of the B-trees waits with is not disturbed by another.
LEMMA CopiesLast ==
  ASSUME structure \in BTrees, NEW h, NEW r, NEW v, Lasts(h, r, v), Nodes(h, {}), Nodes(r, {}),
         NEW c, c.cur \in OwnNodes(h, c.sno), c.sno # v, c.past \in DOMAIN h,
         CopiesBTree(h, c)
  PROVE  CopiesBTree(r, c)
<1>1. r[c.cur] = h[c.cur]
  BY DEF Lasts, OwnNodes
<1>2. /\ Len(h[c.past].keys) \in Nat /\ Len(r[c.past].keys) \in Nat /\ Len(h[c.cur].keys) \in Nat
      /\ Len(r[c.past].keys) >= Len(h[c.past].keys)
  BY LenProperties DEF Lasts, OwnNodes, Nodes, IsNode
<1>3. \A id \in OwnNodes(h, c.sno) : id \in OwnNodes(r, c.sno) /\ r[id] = h[id]
  BY DEF Lasts, OwnNodes
<1>4. CASE c.op \in {"SEARCH_DOWN", "SEARCH_LOWER"}
  <2>1. Len(h[c.cur].keys) <= Len(h[c.past].keys)
    BY <1>4 DEF CopiesBTree
  <2>2. Len(r[c.cur].keys) <= Len(r[c.past].keys)
    <3>1. r[c.cur] = h[c.cur]
      BY <1>1
    <3> QED
      BY <1>2, <2>1, <3>1, AtMostTransitive
  <2> QED
    BY <1>4, <2>2 DEF CopiesBTree
<1>5. CASE c.op = "SEARCH_SPLIT"
  <2>1. /\ c.idx \in 1..(Len(h[c.cur].chs) - 1)
        /\ \A j \in {c.idx, c.idx + 1} : /\ h[c.cur].chs[j] \in OwnNodes(h, c.sno)
                                         /\ Len(h[h[c.cur].chs[j]].keys) = B - 1
        /\ Len(h[c.past].keys) >= 2*B - 1
    BY <1>5 DEF CopiesBTree
  <2>2. \A j \in {c.idx, c.idx + 1} : /\ r[c.cur].chs[j] \in OwnNodes(r, c.sno)
                                      /\ Len(r[r[c.cur].chs[j]].keys) = B - 1
    BY <1>1, <1>3, <2>1
  <2>3. Len(r[c.past].keys) >= 2*B - 1
    <3> DEFINE least == 2*B - 1
    <3>1. least \in Nat /\ least <= Len(h[c.past].keys) /\ Len(h[c.past].keys) <= Len(r[c.past].keys)
      BY <1>2, <2>1, BoundsAssumption
    <3> HIDE DEF least
    <3>2. least <= Len(r[c.past].keys)
      BY <1>2, <3>1, AtMostTransitive
    <3> QED
      BY <3>2 DEF least
  <2>4. c.idx \in 1..(Len(r[c.cur].chs) - 1)
    BY <1>1, <2>1
  <2> QED
    BY <1>5, <2>2, <2>3, <2>4 DEF CopiesBTree
<1>6. CASE c.op \notin {"SEARCH_DOWN", "SEARCH_LOWER", "SEARCH_SPLIT"}
  BY <1>6 DEF CopiesBTree
<1> QED
  BY <1>4, <1>5, <1>6

LEMMA ForkLasts ==
  ASSUME NEW h, NEW r, NEW v, Lasts(h, r, v), structure \notin BTrees,
         NEW c, c.cur \in OwnNodes(h, c.sno), c.sno # v, c.past \in DOMAIN h,
         ForkWaits(h, c)
  PROVE  ForkWaits(r, c)
<1> DEFINE old == h[c.cur].chs[c.idx]
<1>1. r[c.cur] = h[c.cur]
  BY DEF Lasts, OwnNodes
<1>2. /\ r[c.past].type = h[c.past].type /\ r[c.past].ofs = h[c.past].ofs
      /\ r[c.past].len = h[c.past].len
  BY DEF Lasts, Steady
<1>3. /\ old \in OwnNodes(h, c.sno)
      /\ h[old].type = h[c.past].type
      /\ h[old].ofs + h[old].len = h[c.past].ofs + h[c.past].len
  BY DEF ForkWaits
<1>4. r[c.cur].chs[c.idx] = old /\ old \in OwnNodes(r, c.sno) /\ r[old] = h[old]
  BY <1>1, <1>3 DEF Lasts, OwnNodes
<1> HIDE DEF old
<1> QED
  BY <1>2, <1>3, <1>4 DEF ForkWaits

LEMMA ArtLasts ==
  ASSUME structure = "art", NEW h, NEW r, NEW v, Lasts(h, r, v), Nodes(h, {Nil}), Nodes(r, {Nil}),
         NEW c, c.cur \in OwnNodes(h, c.sno), c.sno # v, c.past \in DOMAIN h,
         ArtTask(h, c)
  PROVE  ArtTask(r, c)
<1>1. r[c.cur] = h[c.cur]
  BY DEF Lasts, OwnNodes
<1>2. /\ Len(h[c.past].keys) \in Nat /\ Len(r[c.past].keys) \in Nat /\ Len(h[c.cur].keys) \in Nat
      /\ Len(r[c.past].keys) >= Len(h[c.past].keys)
  BY LenProperties DEF Lasts, OwnNodes, Nodes, IsNode
<1>3. /\ r[c.past].type = h[c.past].type /\ r[c.past].ofs = h[c.past].ofs
      /\ r[c.past].len = h[c.past].len
  BY DEF Lasts, Steady, BTrees
<1>4. CASE c.op = "FORK"
  BY <1>4, ForkLasts DEF ArtTask, BTrees
<1>5. CASE c.op # "FORK"
  <2>1. /\ h[c.cur].type # "LEAF" /\ h[c.past].type # "LEAF"
        /\ h[c.cur].ofs + h[c.cur].len = h[c.past].ofs + h[c.past].len
        /\ c.ofs = h[c.cur].ofs + h[c.cur].len + 1
        /\ c.idx \in 1..Len(h[c.cur].keys)
        /\ c.op = "SEARCH" => Len(h[c.cur].keys) <= Len(h[c.past].keys)
        /\ c.op = "INSERT" /\ h[c.cur].type # "NODE256" =>
             Len(h[c.cur].keys) <= Len(h[c.past].keys) + 1
    BY <1>5 DEF ArtTask
  <2>2. /\ c.op = "SEARCH" => Len(r[c.cur].keys) <= Len(r[c.past].keys)
        /\ c.op = "INSERT" /\ r[c.cur].type # "NODE256" =>
             Len(r[c.cur].keys) <= Len(r[c.past].keys) + 1
    <3> DEFINE m == Len(h[c.cur].keys)  p == Len(h[c.past].keys)  q == Len(r[c.past].keys)
    <3>1. m \in Nat /\ p \in Nat /\ q \in Nat /\ q >= p
      BY <1>2
    <3>2. Len(r[c.cur].keys) = m /\ r[c.cur].type = h[c.cur].type
      BY <1>1
    <3>3. /\ c.op = "SEARCH" => m <= p
          /\ c.op = "INSERT" /\ r[c.cur].type # "NODE256" => m <= p + 1
      BY <2>1, <3>2
    <3> HIDE DEF m, p, q
    <3>4. (m <= p => m <= q) /\ (m <= p + 1 => m <= q + 1)
      BY <3>1
    <3> QED
      BY <3>2, <3>3, <3>4 DEF q
  <2>3. c.idx \in 1..Len(r[c.cur].keys)
    BY <1>1, <2>1
  <2> QED
    BY <1>1, <1>3, <1>5, <2>1, <2>2, <2>3, Zenon DEF ArtTask
<1> QED
  BY <1>4, <1>5

LEMMA SplitLasts ==
  ASSUME structure = "aert", NEW h, NEW r, NEW v, Lasts(h, r, v),
         NEW c, c.cur \in OwnNodes(h, c.sno), c.sno # v, c.past \in DOMAIN h,
         SplitWaits(h, c)
  PROVE  SplitWaits(r, c)
<1> DEFINE past == h[c.past]
           ks == SplitKeySet(h, c)
           shared == AERT!Shared(ks)
           lower(f) == h[c.cur].chs[AERT!FindIdx(h[c.cur], f)]
<1>1. r[c.cur] = h[c.cur]
  BY DEF Lasts, OwnNodes
<1>2. \A id \in OwnNodes(h, c.sno) : id \in OwnNodes(r, c.sno) /\ r[id] = h[id]
  BY DEF Lasts, OwnNodes
<1>3. /\ past.type = "NODE16" /\ c.ofs = Below(past)
      /\ HalfWaits(h[c.cur], Cardinality(AERT!Firsts(ks)), shared, past.ofs, past.len)
      /\ \A f \in shared :
           /\ lower(f) \in OwnNodes(h, c.sno)
           /\ HalfWaits(h[lower(f)], Cardinality(AERT!Seconds(ks, f)), {}, past.ofs + past.len + 1, 0)
  BY DEF SplitWaits
<1>4. /\ r[c.past].keys = past.keys /\ r[c.past].type = past.type
      /\ r[c.past].ofs = past.ofs /\ r[c.past].len = past.len
  BY <1>3 DEF Lasts, Steady, BTrees
<1>5. Below(r[c.past]) = Below(past) /\ SplitKeySet(r, c) = ks
  BY <1>4 DEF Below, SplitKeySet
<1>6. \A f : lower(f) = r[c.cur].chs[AERT!FindIdx(r[c.cur], f)]
  BY <1>1
<1> HIDE DEF past, ks, lower
<1>7. \A f \in shared :
        LET l == r[c.cur].chs[AERT!FindIdx(r[c.cur], f)] IN
        /\ l \in OwnNodes(r, c.sno)
        /\ HalfWaits(r[l], Cardinality(AERT!Seconds(ks, f)), {}, r[c.past].ofs + r[c.past].len + 1, 0)
  BY <1>2, <1>3, <1>4, <1>6
<1>8. HalfWaits(r[c.cur], Cardinality(AERT!Firsts(ks)), shared, r[c.past].ofs, r[c.past].len)
  BY <1>1, <1>3, <1>4
<1>9. r[c.past].type = "NODE16" /\ c.ofs = Below(r[c.past])
  BY <1>3, <1>4, <1>5
<1> QED
  BY <1>5, <1>7, <1>8, <1>9 DEF SplitWaits

LEMMA AertLasts ==
  ASSUME structure = "aert", NEW h, NEW r, NEW v, Lasts(h, r, v), Nodes(h, {Nil}), Nodes(r, {Nil}),
         NEW c, c.cur \in OwnNodes(h, c.sno), c.sno # v, c.past \in DOMAIN h,
         AertTask(h, c)
  PROVE  AertTask(r, c)
<1>1. r[c.cur] = h[c.cur]
  BY DEF Lasts, OwnNodes
<1>2. /\ Len(h[c.past].keys) \in Nat /\ Len(r[c.past].keys) \in Nat /\ Len(h[c.cur].keys) \in Nat
      /\ Len(r[c.past].keys) >= Len(h[c.past].keys)
  BY LenProperties DEF Lasts, OwnNodes, Nodes, IsNode
<1>3. /\ r[c.past].type = h[c.past].type /\ r[c.past].ofs = h[c.past].ofs
      /\ r[c.past].len = h[c.past].len
  BY DEF Lasts, Steady, BTrees
<1>4. CASE c.op = "FORK"
  BY <1>4, ForkLasts DEF AertTask, BTrees
<1>5. CASE c.op = "SPLIT"
  BY <1>5, SplitLasts DEF AertTask
<1>6. CASE c.op \notin {"FORK", "SPLIT"}
  <2>1. /\ c.emb \in Seq(Nat)
        /\ h[c.cur].type # "LEAF" /\ h[c.past].type # "LEAF"
        /\ h[c.cur].ofs = h[c.past].ofs /\ h[c.cur].len = h[c.past].len
        /\ c.ofs = Below(h[c.cur])
        /\ AERT!KeyLen(h[c.cur].type) = AERT!KeyLen(h[c.past].type)
        /\ c.idx \in 1..Len(h[c.cur].keys)
        /\ c.op = "SEARCH" => Len(h[c.cur].keys) <= Len(h[c.past].keys)
        /\ c.op = "INSERT" /\ h[c.cur].type # "NODEH16" =>
             Len(h[c.cur].keys) <= Len(h[c.past].keys) + 1
    BY <1>6 DEF AertTask
  <2>2. /\ c.op = "SEARCH" => Len(r[c.cur].keys) <= Len(r[c.past].keys)
        /\ c.op = "INSERT" /\ r[c.cur].type # "NODEH16" =>
             Len(r[c.cur].keys) <= Len(r[c.past].keys) + 1
    <3> DEFINE m == Len(h[c.cur].keys)  p == Len(h[c.past].keys)  q == Len(r[c.past].keys)
    <3>1. m \in Nat /\ p \in Nat /\ q \in Nat /\ q >= p
      BY <1>2
    <3>2. Len(r[c.cur].keys) = m /\ r[c.cur].type = h[c.cur].type
      BY <1>1
    <3>3. /\ c.op = "SEARCH" => m <= p
          /\ c.op = "INSERT" /\ r[c.cur].type # "NODEH16" => m <= p + 1
      BY <2>1, <3>2
    <3> HIDE DEF m, p, q
    <3>4. (m <= p => m <= q) /\ (m <= p + 1 => m <= q + 1)
      BY <3>1
    <3> QED
      BY <3>2, <3>3, <3>4 DEF q
  <2>3. c.idx \in 1..Len(r[c.cur].keys)
    BY <1>1, <2>1
  <2> QED
    BY <1>1, <1>3, <1>6, <2>1, <2>2, <2>3 DEF AertTask
<1> QED
  BY <1>4, <1>5, <1>6

\* Nor is where a node stands.
LEMMA FitsLast ==
  ASSUME NEW h, NEW r, NEW v, Lasts(h, r, v), NEW w,
         NEW t, IsNode(t, Upto(h, w) \union NoNode), Fits(h, t)
  PROVE  Fits(r, t)
<1>1. SUFFICES ASSUME structure \in {"art", "aert"} PROVE Fits(r, t)
  BY DEF Fits
<1>2. NoNode = {Nil} /\ \A id \in DOMAIN h : r[id].ofs = h[id].ofs
  BY <1>1 DEF NoNode, BTrees, Lasts, Steady
<1>3. \A i \in DOMAIN t.chs : t.chs[i] # Nil => r[t.chs[i]].ofs = h[t.chs[i]].ofs
  <2>1. \A i \in DOMAIN t.chs : t.chs[i] \in Upto(h, w) \union {Nil}
    BY <1>2, LenProperties DEF IsNode
  <2> QED
    BY <1>2, <2>1 DEF Upto
<1>4. ArtFits(h, t) => ArtFits(r, t)
  BY <1>3 DEF ArtFits
<1>5. AertFits(h, t) => AertFits(r, t)
  BY <1>3 DEF AertFits
<1> QED
  BY <1>4, <1>5 DEF Fits

LEMMA OthersHold ==
  ASSUME NEW h, NEW r, NEW v, Lasts(h, r, v), Nodes(h, NoNode), Nodes(r, NoNode),
         NEW c, c.sno # v, TaskHolds(h, c)
  PROVE  TaskHolds(r, c)
<1>1. c.root \in Upto(r, c.sno) \union NoNode /\ RootFits(r, c.root)
  BY RootLasts DEF TaskHolds
<1>2. ASSUME c.op # "DONE"
      PROVE  /\ c.cur \in OwnNodes(r, c.sno)
             /\ c.past \in Upto(r, c.sno - 1)
             /\ structure \in BTrees => CopiesBTree(r, c)
             /\ structure = "art" => ArtTask(r, c)
             /\ structure = "aert" => AertTask(r, c)
  <2>1. c.cur \in OwnNodes(h, c.sno) /\ c.past \in Upto(h, c.sno - 1) /\ c.past \in DOMAIN h
    BY <1>2 DEF TaskHolds, Upto
  <2>2. c.cur \in OwnNodes(r, c.sno) /\ c.past \in Upto(r, c.sno - 1)
    BY <2>1, LastsKeeps
  <2>3. CASE structure \in BTrees
    <3>1. Nodes(h, {}) /\ Nodes(r, {}) /\ structure # "art" /\ structure # "aert"
      BY <2>3 DEF NoNode, BTrees
    <3>2. CopiesBTree(h, c)
      BY <1>2, <2>3 DEF TaskHolds
    <3> QED
      BY <2>1, <2>2, <2>3, <3>1, <3>2, CopiesLast
  <2>4. CASE structure = "art"
    <3>1. Nodes(h, {Nil}) /\ Nodes(r, {Nil}) /\ structure \notin BTrees
      BY <2>4 DEF NoNode, BTrees
    <3>2. ArtTask(h, c)
      BY <1>2, <2>4 DEF TaskHolds
    <3> QED
      BY <2>1, <2>2, <2>4, <3>1, <3>2, ArtLasts
  <2>5. CASE structure = "aert"
    <3>1. Nodes(h, {Nil}) /\ Nodes(r, {Nil}) /\ structure \notin BTrees
      BY <2>5 DEF NoNode, BTrees
    <3>2. AertTask(h, c)
      BY <1>2, <2>5 DEF TaskHolds
    <3> QED
      BY <2>1, <2>2, <2>5, <3>1, <3>2, AertLasts
  <2> QED
    BY <2>2, <2>3, <2>4, <2>5
<1> QED
  BY <1>1, <1>2 DEF TaskHolds

LEMMA Same ==
  ASSUME structure' = structure
  PROVE  /\ \A h, c : TaskHolds(h, c)' <=> TaskHolds(h, c)
         /\ \A h, id : RootFits(h, id)' <=> RootFits(h, id)
         /\ \A h, t : Fits(h, t)' <=> Fits(h, t)
         /\ NoNode' = NoNode
<1>1. Handlers' = Handlers /\ NoNode' = NoNode
  BY DEF Handlers, NoNode
<1>2. \A h, id : RootFits(h, id)' <=> RootFits(h, id)
  BY DEF RootFits
<1>3. \A h, c : TaskHolds(h, c)' <=> TaskHolds(h, c)
  BY <1>1, <1>2 DEF TaskHolds
<1>4. \A h, t : Fits(h, t)' <=> Fits(h, t)
  BY DEF Fits
<1> QED
  BY <1>1, <1>2, <1>3, <1>4

LEMMA Counted ==
  ASSUME ctx \in Seq(Range(ctx))
  PROVE  Len(ctx) \in Nat /\ Ids = 1..Len(ctx)
BY LenProperties DEF Ids

LEMMA IsSequence ==
  ASSUME NEW n \in Nat, NEW S, NEW f \in [1..n -> S]
  PROVE  f \in Seq(S)
<1>1. f \in UNION {[1..k -> S] : k \in Nat}
  OBVIOUS
<1> QED
  BY <1>1, SeqDef, Zenon

\* The task id, which may be new, goes a step: it has the context c then.
Moves(id, c) ==
    /\ DOMAIN ctx' = Ids \union {id} /\ ctx'[id] = c
    /\ \A i \in Ids : i # id => ctx'[i] = ctx[i]
    /\ ctx' \in Seq(Range(ctx'))

LEMMA MovesAfter ==
  ASSUME NEW n \in Nat, Ids = 1..n, NEW id \in 1..(n + 1), NEW c,
         ctx' = [i \in Ids \union {id} |-> IF i = id THEN c ELSE ctx[i]]
  PROVE  Moves(id, c)
<1>1. DOMAIN ctx' = Ids \union {id} /\ ctx'[id] = c /\ \A i \in Ids : i # id => ctx'[i] = ctx[i]
  OBVIOUS
<1>2. PICK m \in Nat : Ids \union {id} = 1..m
  <2>1. CASE id \in 1..n
    BY <2>1
  <2>2. CASE id = n + 1
    BY <2>2
  <2> QED
    BY <2>1, <2>2
<1>3. ctx' \in [1..m -> Range(ctx')]
  <2>1. ctx' = [i \in DOMAIN ctx' |-> ctx'[i]]
    OBVIOUS
  <2> QED
    BY <1>1, <1>2, <2>1 DEF Range
<1>4. ctx' \in Seq(Range(ctx'))
  BY <1>3, IsSequence
<1> QED
  BY <1>1, <1>4 DEF Moves

LEMMA MovesAppend ==
  ASSUME ctx \in Seq(Range(ctx)), NEW c, ctx' = Append(ctx, c)
  PROVE  Moves(Len(ctx) + 1, c)
<1> DEFINE S == Range(ctx)  n == Len(ctx)
<1>1. n \in Nat /\ Ids = 1..n
  BY Counted
<1>2. /\ ctx' \in Seq(S \union {c}) /\ Len(ctx') = n + 1 /\ ctx'[n + 1] = c
      /\ \A i \in 1..n : ctx'[i] = ctx[i]
  <2>1. ctx \in Seq(S \union {c})
    BY SeqMonotonic
  <2> QED
    BY <2>1, AppendProperties
<1>3. DOMAIN ctx' = 1..(n + 1)
  BY <1>1, <1>2, LenProperties
<1>4. ctx' \in [1..(n + 1) -> Range(ctx')]
  <2>1. ctx' = [i \in DOMAIN ctx' |-> ctx'[i]]
    BY <1>2, LenProperties
  <2> QED
    BY <1>3, <2>1 DEF Range
<1>5. ctx' \in Seq(Range(ctx'))
  <2> DEFINE m == n + 1
  <2>1. m \in Nat /\ ctx' \in [1..m -> Range(ctx')]
    BY <1>1, <1>4
  <2> HIDE DEF m
  <2> QED
    BY <2>1, IsSequence
<1> HIDE DEF n
<1>6. 1..(n + 1) = 1..n \union {n + 1}
  BY <1>1
<1> QED
  BY <1>1, <1>2, <1>3, <1>5, <1>6 DEF Moves, n

LEMMA InvStep ==
  ASSUME CowInv, structure' = structure,
         NEW u \in 1..(Len(ctx) + 1), NEW v \in {0, u}, NEW c, Moves(u, c),
         Lasts(heap, heap', v), Nodes(heap', NoNode), AllFit(heap'), Numbered(heap', u),
         \A i \in DOMAIN heap' \ DOMAIN heap : Version(i) = u \/ (Version(i) = 0 /\ i[2] = u),
         c.sno = u, IsContext(c), c.op # "WILD" => TaskHolds(heap', c)
  PROVE  CowInv'
<1>0. Len(ctx) \in Nat /\ Ids = 1..Len(ctx) /\ Nodes(heap, NoNode)
  <2>1. Len(ctx) \in Nat /\ Ids = 1..Len(ctx)
    BY Counted DEF CowInv, TasksHold
  <2> QED
    BY <2>1 DEF CowInv, Nodes, NodesMade, PointersBack
<1>1. structure' \in Structures
  BY DEF CowInv
<1>2. Ids' = Ids \union {u} /\ u \in Nat \ {0}
  BY <1>0 DEF Ids, Moves
<1>3. ASSUME NEW i \in Ids' PROVE Numbered(heap', i)
  <2>1. CASE i = u
    BY <2>1
  <2>2. CASE i # u
    <3>1. i \in Ids /\ i # v
      BY <1>0, <1>2, <2>2
    <3> QED
      BY <3>1, LastsKeeps DEF CowInv, NodesMade
  <2> QED
    BY <2>1, <2>2
<1>4. NodesMade'
  <2>1. ASSUME NEW i \in DOMAIN heap'
        PROVE  Version(i) \in Ids' \/ (Version(i) = 0 /\ i[2] \in {0} \union Ids')
    <3>1. CASE i \in DOMAIN heap
      BY <1>2, <3>1 DEF CowInv, NodesMade
    <3>2. CASE i \notin DOMAIN heap
      BY <1>2, <3>2
    <3> QED
      BY <3>1, <3>2
  <2>2. structure \in BTrees => <<0, 0>> \in DOMAIN heap'
    BY DEF CowInv, NodesMade, Lasts
  <2> QED
    BY <1>3, <2>1, <2>2 DEF NodesMade, Version
<1>5. PointersBack'
  BY Same DEF Nodes, PointersBack, Upto, Version
<1>6. (\A i \in DOMAIN heap : Fits(heap, heap[i]))'
  BY Same DEF AllFit
<1>7. RootFits(heap, BuiltRoot)'
  <2>1. <<0, 0>> \in DOMAIN heap' <=> <<0, 0>> \in DOMAIN heap
    <3>1. Version(<<0, 0>>) = 0 /\ <<0, 0>>[2] = 0
      BY DEF Version
    <3> QED
      BY <1>2, <3>1 DEF Lasts
  <2>2. BuiltRoot' = BuiltRoot
    BY <2>1 DEF BuiltRoot
  <2>3. BuiltRoot \in Upto(heap, 0) \union NoNode
    <3>1. Version(<<0, 0>>) = 0
      BY DEF Version
    <3> QED
      BY <3>1 DEF BuiltRoot, Upto, CowInv, NodesMade, NoNode
  <2>4. RootFits(heap', BuiltRoot)
    BY <2>3, RootLasts DEF CowInv, NodesFit
  <2> QED
    BY <2>2, <2>4, Same
<1>8. ASSUME NEW i \in Ids'
      PROVE  /\ ctx'[i].sno = i /\ IsContext(ctx'[i])
             /\ ctx'[i].op # "WILD" => TaskHolds(heap', ctx'[i])
  <2>1. CASE i = u
    BY <2>1 DEF Moves
  <2>2. CASE i # u
    <3>1. i \in Ids /\ i # v /\ ctx'[i] = ctx[i]
      BY <1>0, <1>2, <2>2 DEF Moves
    <3>2. ctx[i].sno = i /\ IsContext(ctx[i]) /\ (ctx[i].op # "WILD" => TaskHolds(heap, ctx[i]))
      BY <3>1 DEF CowInv, TasksHold, Stopped
    <3> QED
      BY <1>0, <3>1, <3>2, OthersHold
  <2> QED
    BY <2>1, <2>2
<1>9. TasksHold'
  <2>1. \A id \in Ids' : /\ ctx'[id].sno = id /\ IsContext(ctx'[id])
                         /\ ~(ctx'[id].op = "WILD") => TaskHolds(heap', ctx'[id])
    BY <1>8
  <2>2. \A id \in Ids' : Stopped(id)' <=> ctx'[id].op = "WILD"
    BY DEF Stopped
  <2>3. \A id \in Ids' : TaskHolds(heap, ctx[id])' <=> TaskHolds(heap', ctx'[id])
    BY Same
  <2>4. \A id \in Ids' : IsContext(ctx[id])' <=> IsContext(ctx'[id])
    BY DEF IsContext
  <2>5. (ctx \in Seq(Range(ctx)))'
    BY DEF Moves
  <2> QED
    BY <2>1, <2>2, <2>3, <2>4, <2>5, Zenon DEF TasksHold
<1>10. NodesFit'
  BY <1>6, <1>7 DEF NodesFit
<1> QED
  BY <1>1, <1>4, <1>5, <1>9, <1>10 DEF CowInv

-------------------------------------------------------------------------------
(* The radix trees: memory *)

\* A step of the task v on the memory of a radix tree.
Keeps(h, r, v) == Nodes(r, {Nil}) /\ AllFit(r) /\ Grows(h, r, v) /\ Steady(h, r)

LEMMA KeepsLasts ==
  ASSUME NEW h, NEW r, NEW v, Keeps(h, r, v)
  PROVE  Lasts(h, r, v) /\ Numbered(r, v)
BY DEF Keeps, Grows, Lasts

LEMMA KeepsKeeps ==
  ASSUME NEW h, NEW g, NEW r, NEW v, Nodes(h, {Nil}), Keeps(h, g, v), Keeps(g, r, v)
  PROVE  Keeps(h, r, v)
<1>1. Grows(h, r, v)
  BY GrowsGrows DEF Keeps
<1>2. Steady(h, r)
  BY DEF Keeps, Steady
<1> QED
  BY <1>1, <1>2 DEF Keeps

LEMMA RadixAlloc ==
  ASSUME structure \notin BTrees, NEW h, Nodes(h, {Nil}), AllFit(h), NEW v \in Nat, Numbered(h, v),
         NEW n \in Nat, NEW nodes, DOMAIN nodes = 1..n,
         \A k \in 1..n : IsNode(nodes[k], Upto(h, v) \union {Fresh(h, v, j) : j \in 1..n} \union {Nil}),
         Extends(h, v, n, nodes, Alloc(h, v, nodes)) =>
            \A k \in 1..n : Fits(Alloc(h, v, nodes), nodes[k])
  PROVE  Keeps(h, Alloc(h, v, nodes), v) /\ Extends(h, v, n, nodes, Alloc(h, v, nodes))
<1> DEFINE r == Alloc(h, v, nodes)
<1>1. Extends(h, v, n, nodes, r)
  <2>1. Numbered(h, v) /\ DOMAIN nodes = 1..n
    OBVIOUS
  <2> QED
    BY <2>1, AllocNodes
<1>2. Nodes(r, {Nil}) /\ Grows(h, r, v)
  BY AllocGrows
<1>3. \A k \in 1..n : Fits(r, nodes[k])
  BY <1>1
<1> HIDE DEF r
<1>4. Steady(h, r)
  BY <1>1 DEF Extends, Steady
<1>5. Lasts(h, r, v)
  BY <1>2, <1>4 DEF Grows, Lasts
<1>6. NoNode = {Nil}
  BY DEF NoNode
<1>7. ASSUME NEW id \in DOMAIN r PROVE Fits(r, r[id])
  <2>1. CASE id \in DOMAIN h
    <3>1. IsNode(h[id], Upto(h, Version(id)) \union NoNode) /\ Fits(h, h[id])
      BY <1>6, <2>1 DEF Nodes, AllFit
    <3>2. Fits(r, h[id])
      BY <1>5, <3>1, FitsLast
    <3> QED
      BY <1>1, <2>1, <3>2 DEF Extends
  <2>2. CASE id \notin DOMAIN h
    <3>1. \E k \in 1..n : r[id] = nodes[k]
      BY <1>1, <2>2 DEF Extends
    <3> QED
      BY <1>3, <3>1
  <2> QED
    BY <2>1, <2>2
<1> QED
  BY <1>1, <1>2, <1>4, <1>7 DEF Keeps, AllFit, r

LEMMA RadixWrite ==
  ASSUME structure \notin BTrees, NEW h, Nodes(h, {Nil}), AllFit(h), NEW v, Numbered(h, v),
         NEW cur \in OwnNodes(h, v), NEW t, IsNode(t, Upto(h, v) \union {Nil}), Fits(h, t),
         Len(t.keys) >= Len(h[cur].keys),
         t.type = h[cur].type, t.ofs = h[cur].ofs, t.len = h[cur].len,
         structure = "aert" /\ t.type = "NODE16" => t.keys = h[cur].keys
  PROVE  Keeps(h, [h EXCEPT ![cur] = t], v)
<1> DEFINE r == [h EXCEPT ![cur] = t]
<1>1. Nodes(r, {Nil}) /\ Grows(h, r, v)
  BY WriteGrows
<1>2. cur \in DOMAIN h /\ DOMAIN r = DOMAIN h /\ \A id \in DOMAIN h : r[id] = IF id = cur THEN t ELSE h[id]
  BY DEF OwnNodes
<1> HIDE DEF r
<1>3. Steady(h, r)
  BY <1>2 DEF Steady
<1>4. Lasts(h, r, v)
  BY <1>1, <1>3 DEF Grows, Lasts
<1>5. NoNode = {Nil}
  BY DEF NoNode
<1>6. ASSUME NEW id \in DOMAIN r PROVE Fits(r, r[id])
  <2>1. CASE id = cur
    <3>1. Fits(r, t)
      BY <1>4, <1>5, FitsLast
    <3> QED
      BY <1>2, <2>1, <3>1
  <2>2. CASE id # cur
    <3>1. IsNode(h[id], Upto(h, Version(id)) \union NoNode) /\ Fits(h, h[id])
      BY <1>2, <1>5 DEF Nodes, AllFit
    <3>2. Fits(r, h[id])
      BY <1>4, <3>1, FitsLast
    <3> QED
      BY <1>2, <2>2, <3>2
  <2> QED
    BY <2>1, <2>2
<1> QED
  BY <1>1, <1>3, <1>6 DEF Keeps, AllFit, r

\* The first position of an element, or 0.
First(s, e) == LET I == {i \in 1..Len(s) : s[i] = e} IN IF I # {} THEN Min(I) ELSE 0

LEMMA FirstRange ==
  ASSUME NEW s, Len(s) \in Nat, NEW e
  PROVE  /\ First(s, e) # 0 => First(s, e) \in 1..Len(s) /\ s[First(s, e)] = e
         /\ (\E i \in 1..Len(s) : s[i] = e) => First(s, e) # 0
<1> DEFINE I == {i \in 1..Len(s) : s[i] = e}
<1>1. First(s, e) = IF I # {} THEN Min(I) ELSE 0
  BY DEF First
<1>2. I # {} => Min(I) \in I
  <2>1. I \in SUBSET Nat
    OBVIOUS
  <2> HIDE DEF I
  <2> QED
    BY <2>1, Least
<1>3. \A i \in I : i \in 1..Len(s) /\ s[i] = e /\ i # 0
  OBVIOUS
<1>4. (\E i \in 1..Len(s) : s[i] = e) => I # {}
  OBVIOUS
<1> HIDE DEF I
<1> QED
  BY <1>1, <1>2, <1>3, <1>4

-------------------------------------------------------------------------------
(* The adaptive radix tree *)

\* The memory of ArtCow is that of TreeHeap.
LEMMA ArtHeap ==
  /\ \A h, v, ns : ART!Alloc(h, v, ns) = Alloc(h, v, ns)
  /\ \A h, v, k : ART!Fresh(h, v, k) = Fresh(h, v, k)
  /\ \A h, c : ART!Result(h, c) = Result(h, c) /\ ART!Wild(h, c) = Wild(h, c)
  /\ ART!Nil = Nil
<1>1. \A S : ART!Cardinality(S) = Cardinality(S)
  BY Zenon DEF ART!Cardinality, Cardinality
<1>2. \A id : ART!Version(id) = Version(id)
  BY DEF ART!Version, Version
<1>3. \A h, v, k : ART!Fresh(h, v, k) = Fresh(h, v, k)
  BY <1>1, <1>2 DEF ART!Fresh, Fresh
<1>4. \A h, v, ns : ART!Alloc(h, v, ns) = Alloc(h, v, ns)
  BY <1>1, <1>2 DEF ART!Alloc, Alloc
<1>5. \A h, c : ART!Result(h, c) = Result(h, c) /\ ART!Wild(h, c) = Wild(h, c)
  BY DEF ART!Result, Result, ART!Wild, Wild
<1>6. ART!Nil = Nil
  BY DEF ART!Nil, Nil
<1> QED
  BY <1>3, <1>4, <1>5, <1>6

LEMMA ArtDigit ==
  ASSUME NEW key \in Nat, NEW pos \in Nat, pos < ArtDigits
  PROVE  ART!Digit(key, pos) \in 0..(ArtRadix - 1)
<1> DEFINE p == ArtRadix^(ArtDigits - 1 - pos)
<1>1. p \in Nat \ {0}
  BY RadixAssumption, PowersAssumption
<1>2. ART!Digit(key, pos) = (key \div p) % ArtRadix
  BY DEF ART!Digit
<1> HIDE DEF p
<1>3. key \div p \in Nat
  BY <1>1
<1> QED
  BY <1>2, <1>3, RadixAssumption

LEMMA ArtFindIdx ==
  ASSUME NEW t, t.keys \in Seq(Nat), NEW d
  PROVE  /\ ART!FindIdx(t, d) # 0 => ART!FindIdx(t, d) \in 1..Len(t.keys) /\ t.keys[ART!FindIdx(t, d)] = d
         /\ (\E i \in 1..Len(t.keys) : t.keys[i] = d) => ART!FindIdx(t, d) # 0
<1>1. ART!FindIdx(t, d) = First(t.keys, d)
  BY DEF ART!FindIdx, ART!SelectInSeq, ART!Min, Min, First
<1>2. Len(t.keys) \in Nat
  BY LenProperties
<1> QED
  BY <1>1, <1>2, FirstRange

\* Where the prefix of a node differs, if it does.
LEMMA ArtPrefix ==
  ASSUME NEW t, t.len \in Nat, t.ofs \in Nat, NEW key
  PROVE  LET m == ART!PrefixMatch(t, key) IN
         m \in 0..t.len /\ (m # t.len => ART!Digit(key, t.ofs + m) # ART!Digit(t.pfx, t.ofs + m))
<1> DEFINE n == t.len + 1
           s == [i \in 1..n |-> i]
           I == {i \in 1..n : i = n \/ ART!Digit(key, t.ofs + i - 1) # ART!Digit(t.pfx, t.ofs + i - 1)}
           m == ART!PrefixMatch(t, key)
<1>1. n \in Nat /\ Len(s) = n /\ \A i \in 1..n : s[i] = i
  <2>1. n \in Nat
    OBVIOUS
  <2>2. s \in Seq(Nat) /\ DOMAIN s = 1..n
    <3>1. s \in [1..n -> Nat]
      OBVIOUS
    <3> QED
      BY <2>1, <3>1, IsSequence
  <2>3. Len(s) = n
    BY <2>1, <2>2, LenProperties
  <2> QED
    BY <2>1, <2>3
<1>2. m = (IF I # {} THEN Min(I) ELSE 0) - 1
  <2> DEFINE J == {i \in 1..Len(s) :
                      s[i] = n \/ ART!Digit(key, t.ofs + s[i] - 1) # ART!Digit(t.pfx, t.ofs + s[i] - 1)}
  <2>1. m = (IF J # {} THEN Min(J) ELSE 0) - 1
    BY DEF ART!PrefixMatch, ART!SelectInSeq, ART!Min, Min
  <2> HIDE DEF s, n
  <2>2. J = I
    BY <1>1
  <2> QED
    BY <2>1, <2>2
<1>3. n \in I /\ I \in SUBSET Nat
  BY <1>1
<1>4. Min(I) \in I
  <2>1. I # {}
    BY <1>3
  <2> HIDE DEF I
  <2> QED
    BY <1>3, <2>1, Least
<1>5. PICK k \in I : m = k - 1
  BY <1>2, <1>3, <1>4
<1>6. k \in 1..n /\ (k = n \/ ART!Digit(key, t.ofs + k - 1) # ART!Digit(t.pfx, t.ofs + k - 1))
  BY <1>5
<1>7. t.ofs + k - 1 = t.ofs + m /\ m \in 0..t.len /\ (m # t.len => k # n)
  BY <1>5, <1>6
<1> QED
  BY <1>6, <1>7

\* What UpdateCow of the task c finds,
ArtReady(h, c) ==
    /\ Nodes(h, {Nil}) /\ AllFit(h) /\ Numbered(h, c.sno) /\ c.sno \in Nat \ {0} /\ IsContext(c)
    /\ c.past \in Upto(h, c.sno - 1) \union {Nil}
    /\ c.ofs \in 0..ArtDigits
    /\ c.past # Nil => h[c.past].ofs = c.ofs

\* and what is common to what it leaves: a new node in the place of past.
Replaced(h, c, r) ==
    /\ {"heap", "ctx"} \subseteq DOMAIN r
    /\ Keeps(h, r.heap, c.sno)
    /\ IsContext(r.ctx) /\ r.ctx.sno = c.sno /\ r.ctx.ran = c.ran /\ r.ctx.root = c.root
    /\ r.ctx.past = c.past
    /\ r.ctx.cur \in OwnNodes(r.heap, c.sno) /\ r.ctx.cur \notin DOMAIN h

ArtMade(h, c, r) ==
    /\ Replaced(h, c, r)
    /\ r.heap[r.ctx.cur].ofs = c.ofs
    /\ r.ctx.op # "DONE" => /\ r.ctx.op \in {"SEARCH", "INSERT", "FORK"} /\ c.past # Nil
                            /\ ArtTask(r.heap, r.ctx)

LEMMA NodesReplace ==
  ASSUME structure \notin BTrees, NEW h, NEW c, Nodes(h, {Nil}), AllFit(h), Numbered(h, c.sno),
         c.sno \in Nat,
         NEW n \in Nat \ {0}, NEW nodes, DOMAIN nodes = 1..n,
         \A k \in 1..n : IsNode(nodes[k], Upto(h, c.sno) \union {Fresh(h, c.sno, j) : j \in 1..n} \union {Nil}),
         Extends(h, c.sno, n, nodes, Alloc(h, c.sno, nodes)) =>
            \A k \in 1..n : Fits(Alloc(h, c.sno, nodes), nodes[k]),
         NEW d, IsContext(d), d.sno = c.sno, d.ran = c.ran, d.root = c.root, d.past = c.past,
         d.cur = Fresh(h, c.sno, n)
  PROVE  /\ Replaced(h, c, Result(Alloc(h, c.sno, nodes), d))
         /\ Extends(h, c.sno, n, nodes, Alloc(h, c.sno, nodes))
<1> DEFINE g == Alloc(h, c.sno, nodes)  v == c.sno
<1>0. /\ Nodes(h, {Nil}) /\ Numbered(h, v) /\ v \in Nat /\ n \in Nat /\ DOMAIN nodes = 1..n
      /\ \A k \in 1..n : IsNode(nodes[k], Upto(h, v) \union {Fresh(h, v, j) : j \in 1..n} \union {Nil})
      /\ Extends(h, v, n, nodes, Alloc(h, v, nodes)) => \A k \in 1..n : Fits(Alloc(h, v, nodes), nodes[k])
  OBVIOUS
<1> HIDE DEF v
<1>1. Keeps(h, Alloc(h, v, nodes), v) /\ Extends(h, v, n, nodes, Alloc(h, v, nodes))
  BY <1>0, RadixAlloc
<1>2. Keeps(h, g, v) /\ Extends(h, v, n, nodes, g)
  BY <1>1 DEF v
<1> HIDE DEF g
<1>3. d.cur \in OwnNodes(g, v) /\ d.cur \notin DOMAIN h
  BY <1>2 DEF Extends, OwnNodes, v
<1> QED
  BY <1>2, <1>3 DEF Replaced, Result, g, v

\* A node that has no children yet.
Childless(t) == \A S, g : IsNode(t, S) /\ Fits(g, t)

LEMMA NodeReplaces ==
  ASSUME structure \notin BTrees, NEW h, NEW c, Nodes(h, {Nil}), AllFit(h), Numbered(h, c.sno),
         c.sno \in Nat, NEW t, Childless(t),
         NEW d, IsContext(d), d.sno = c.sno, d.ran = c.ran, d.root = c.root, d.past = c.past,
         d.cur = Fresh(h, c.sno, 1)
  PROVE  /\ Replaced(h, c, Result(Alloc(h, c.sno, <<t>>), d))
         /\ Alloc(h, c.sno, <<t>>)[d.cur] = t
         /\ \A id \in DOMAIN h : Alloc(h, c.sno, <<t>>)[id] = h[id]
<1> DEFINE nodes == <<t>>
<1>1. DOMAIN nodes = 1..1 /\ \A k \in 1..1 : nodes[k] = t
  OBVIOUS
<1> HIDE DEF nodes
<1>2. \A k \in 1..1 : /\ IsNode(nodes[k], Upto(h, c.sno) \union {Fresh(h, c.sno, j) : j \in 1..1} \union {Nil})
                      /\ Fits(Alloc(h, c.sno, nodes), nodes[k])
  BY <1>1 DEF Childless
<1>3. 1 \in Nat \ {0} /\ DOMAIN nodes = 1..1
  BY <1>1
<1>4. /\ Replaced(h, c, Result(Alloc(h, c.sno, nodes), d))
      /\ Extends(h, c.sno, 1, nodes, Alloc(h, c.sno, nodes))
  BY <1>2, <1>3, NodesReplace
<1>5. /\ Alloc(h, c.sno, nodes)[d.cur] = t
      /\ \A id \in DOMAIN h : Alloc(h, c.sno, nodes)[id] = h[id]
  BY <1>1, <1>4 DEF Extends
<1> QED
  BY <1>4, <1>5 DEF nodes

LEMMA EmptyIs == \A S : <<>> \in Seq(S) /\ DOMAIN <<>> = {} /\ Len(<<>>) = 0
OBVIOUS

LEMMA ArtLeafNode ==
  ASSUME structure = "art", NEW ofs \in 0..ArtDigits, NEW key \in Nat, NEW val, NEW h, NEW S
  PROVE  /\ IsNode(ART!Leaf(ofs, key, val), S) /\ Fits(h, ART!Leaf(ofs, key, val))
         /\ ART!Leaf(ofs, key, val).ofs = ofs
<1> DEFINE t == ART!Leaf(ofs, key, val)
<1>1. /\ {"type", "keys", "chs", "ofs", "len", "pfx"} \subseteq DOMAIN t
      /\ t.type = "LEAF" /\ t.keys = <<>> /\ t.chs = <<>> /\ t.ofs = ofs /\ t.len = ArtDigits - ofs
      /\ t.pfx = key
  BY DEF ART!Leaf, ART!Node
<1> HIDE DEF t
<1>2. t.len \in Nat /\ t.ofs \in Nat /\ t.ofs + t.len = ArtDigits
  BY <1>1, RadixAssumption
<1> QED
  BY <1>1, <1>2, EmptyIs DEF IsNode, Fits, ArtFits, t

\* There is no child to replace.
LEMMA ArtNewLeaf ==
  ASSUME structure = "art", NEW h, NEW c, ArtReady(h, c), c.past = Nil
  PROVE  ArtMade(h, c, ART!UpdateCow(h, c))
<1> DEFINE t == ART!Leaf(c.ofs, c.key, c.sno)
           d == [c EXCEPT !.cur = Fresh(h, c.sno, 1), !.op = "DONE"]
<1>1. ART!UpdateCow(h, c) = Result(Alloc(h, c.sno, <<t>>), d)
  BY ArtHeap DEF ART!UpdateCow
<1>2. Childless(t) /\ t.ofs = c.ofs
  BY ArtLeafNode DEF ArtReady, IsContext, Childless
<1>3. /\ IsContext(d) /\ d.sno = c.sno /\ d.ran = c.ran /\ d.root = c.root /\ d.past = c.past
      /\ d.cur = Fresh(h, c.sno, 1) /\ d.op = "DONE"
  BY DEF ArtReady, IsContext
<1> HIDE DEF t, d
<1>4. /\ Replaced(h, c, Result(Alloc(h, c.sno, <<t>>), d))
      /\ Alloc(h, c.sno, <<t>>)[d.cur] = t
  BY <1>2, <1>3, NodeReplaces DEF ArtReady, BTrees
<1> QED
  BY <1>1, <1>2, <1>3, <1>4 DEF ArtMade, Result

\* What past is, if there is one: a node of the memory, within the key.
LEMMA ArtPast ==
  ASSUME structure = "art", NEW h, NEW c, ArtReady(h, c), c.past # Nil
  PROVE  LET t == h[c.past] IN
         /\ c.past \in DOMAIN h /\ ArtFits(h, t) /\ t.ofs = c.ofs
         /\ {"type", "keys", "chs", "ofs", "len", "pfx"} \subseteq DOMAIN t
         /\ t.keys \in Seq(Nat) /\ Len(t.keys) \in Nat /\ t.pfx \in Nat /\ t.len \in Nat /\ t.ofs \in Nat
         /\ c.ofs + t.len <= ArtDigits /\ (t.type # "LEAF" => c.ofs + t.len < ArtDigits)
<1> DEFINE t == h[c.past]
<1>1. c.past \in DOMAIN h /\ t.ofs = c.ofs
  BY DEF ArtReady, Upto
<1>2. IsNode(t, Upto(h, Version(c.past)) \union {Nil}) /\ ArtFits(h, t)
  BY <1>1 DEF ArtReady, Nodes, AllFit, Fits
<1> HIDE DEF t
<1>3. Len(t.keys) \in Nat
  BY <1>2, LenProperties DEF IsNode
<1>4. c.ofs + t.len <= ArtDigits /\ (t.type # "LEAF" => c.ofs + t.len < ArtDigits)
  BY <1>1, <1>2, RadixAssumption DEF ArtFits
<1> QED
  BY <1>1, <1>2, <1>3, <1>4 DEF t, ArtFits, IsNode

\* The leaf has the key.
LEMMA ArtUpdateLeaf ==
  ASSUME structure = "art", NEW h, NEW c, ArtReady(h, c), c.past # Nil,
         ART!Matches(h[c.past], c.key), h[c.past].type = "LEAF"
  PROVE  ArtMade(h, c, ART!UpdateCow(h, c))
<1> DEFINE p == h[c.past]
           t == [p EXCEPT !.val = c.sno]
           d == [c EXCEPT !.cur = Fresh(h, c.sno, 1), !.op = "DONE"]
<1>1. ART!UpdateCow(h, c) = Result(Alloc(h, c.sno, <<t>>), d)
  BY ArtHeap DEF ART!UpdateCow
<1>2. Childless(t) /\ t.ofs = c.ofs
  <2>1. /\ p.ofs = c.ofs /\ ArtFits(h, p) /\ p.keys \in Seq(Nat)
        /\ {"type", "keys", "chs", "ofs", "len", "pfx"} \subseteq DOMAIN p
        /\ p.type = "LEAF"
    BY ArtPast
  <2> HIDE DEF p
  <2>2. /\ t.type = p.type /\ t.keys = p.keys /\ t.chs = p.chs /\ t.ofs = p.ofs
        /\ t.len = p.len /\ t.pfx = p.pfx /\ DOMAIN t = DOMAIN p
    BY <2>1
  <2> HIDE DEF t
  <2> QED
    BY <2>1, <2>2, EmptyIs DEF IsNode, Fits, ArtFits, Childless
<1>3. /\ IsContext(d) /\ d.sno = c.sno /\ d.ran = c.ran /\ d.root = c.root /\ d.past = c.past
      /\ d.cur = Fresh(h, c.sno, 1) /\ d.op = "DONE"
  BY DEF ArtReady, IsContext
<1> HIDE DEF t, d
<1>4. /\ Replaced(h, c, Result(Alloc(h, c.sno, <<t>>), d))
      /\ Alloc(h, c.sno, <<t>>)[d.cur] = t
  BY <1>2, <1>3, NodeReplaces DEF ArtReady, BTrees
<1> QED
  BY <1>1, <1>2, <1>3, <1>4 DEF ArtMade, Result

\* AppendKey of a node with children.
ArtMore(t, d, n) ==
    /\ DOMAIN n = DOMAIN t /\ n.keys \in Seq(Nat) /\ n.chs = <<>>
    /\ n.type # "LEAF" /\ n.ofs = t.ofs /\ n.len = t.len /\ n.pfx = t.pfx
    /\ \E i \in 1..Len(n.keys) : n.keys[i] = d
    /\ n.type # "NODE256" => Len(n.keys) = Len(t.keys) + 1

LEMMA ArtAppendKey ==
  ASSUME NEW t, {"type", "keys", "chs", "ofs", "len", "pfx"} \subseteq DOMAIN t,
         t.keys \in Seq(Nat), t.type # "LEAF", NEW d \in 0..(ArtRadix - 1)
  PROVE  ArtMore(t, d, ART!AppendKey(t, d))
<1> DEFINE type == IF ART!IsFull(t) THEN ART!Larger(t.type) ELSE t.type
           gt == ART!SelectInSeq(Append(t.keys, ArtRadix), LAMBDA k : k > d)
           ks == CASE type = "NODE48"  -> Append(t.keys, d)
                   [] type = "NODE256" -> [i \in 1..ArtRadix |-> i - 1]
                   [] OTHER            -> ART!InsertAt(t.keys, gt, d)
           n == ART!AppendKey(t, d)
<1>1. /\ n = [t EXCEPT !.type = type, !.chs = <<>>, !.keys = ks]
  BY DEF ART!AppendKey
<1>2. type # "LEAF"
  BY DEF ART!Larger
<1>3. Len(t.keys) \in Nat /\ d \in Nat /\ ArtRadix \in Nat
  BY LenProperties, RadixAssumption
<1>4. gt \in 1..(Len(t.keys) + 1)
  <2> DEFINE s == Append(t.keys, ArtRadix)
             I == {i \in 1..Len(s) : s[i] > d}
  <2>1. Len(s) = Len(t.keys) + 1 /\ s[Len(t.keys) + 1] = ArtRadix
    BY <1>3, AppendProperties
  <2>2. gt = IF I # {} THEN Min(I) ELSE 0
    BY DEF ART!SelectInSeq, ART!Min, Min
  <2> HIDE DEF s, gt
  <2>3. Len(t.keys) + 1 \in I /\ I \in SUBSET Nat /\ I \subseteq 1..(Len(t.keys) + 1)
    BY <1>3, <2>1
  <2>4. Min(I) \in I
    <3> HIDE DEF I
    <3> QED
      BY <2>3, Least
  <2> QED
    BY <2>2, <2>3, <2>4
<1> HIDE DEF gt
<1>5. /\ ks \in Seq(Nat) /\ \E i \in 1..Len(ks) : ks[i] = d
      /\ type # "NODE256" => Len(ks) = Len(t.keys) + 1
  <2>1. CASE type = "NODE48"
    <3>1. ks = Append(t.keys, d)
      BY <2>1
    <3> HIDE DEF ks, type
    <3>2. Append(t.keys, d) \in Seq(Nat) /\ Len(Append(t.keys, d)) = Len(t.keys) + 1
          /\ Append(t.keys, d)[Len(t.keys) + 1] = d
      BY <1>3, AppendProperties
    <3> QED
      BY <1>3, <3>1, <3>2
  <2>2. CASE type = "NODE256"
    <3> DEFINE f == [i \in 1..ArtRadix |-> i - 1]
    <3>1. ks = f
      BY <2>2
    <3> HIDE DEF ks
    <3>2. f \in [1..ArtRadix -> Nat]
      BY <1>3
    <3>3. f \in Seq(Nat) /\ DOMAIN f = 1..ArtRadix
      BY <1>3, <3>2, IsSequence
    <3>4. Len(f) = ArtRadix
      BY <1>3, <3>3, LenProperties
    <3>5. d + 1 \in 1..ArtRadix /\ f[d + 1] = d
      BY <1>3
    <3> HIDE DEF f
    <3> QED
      BY <2>2, <3>1, <3>3, <3>4, <3>5
  <2>3. CASE type \notin {"NODE48", "NODE256"}
    <3>1. ks = InsertAt(t.keys, gt, d)
      BY <2>3 DEF ART!InsertAt, InsertAt
    <3> HIDE DEF ks, type
    <3>2. IsInsertion(Nat, t.keys, gt, d, InsertAt(t.keys, gt, d))
      BY <1>3, <1>4, InsertAtSeq
    <3>3. ks \in Seq(Nat) /\ Len(ks) = Len(t.keys) + 1 /\ ks[gt] = d
      BY <1>3, <1>4, <3>1, <3>2 DEF IsInsertion
    <3> QED
      BY <1>3, <1>4, <3>3
  <2> QED
    BY <2>1, <2>2, <2>3
<1> HIDE DEF ks, type
<1>6. /\ DOMAIN n = DOMAIN t /\ n.keys = ks /\ n.chs = <<>> /\ n.type = type
      /\ n.ofs = t.ofs /\ n.len = t.len /\ n.pfx = t.pfx
  BY <1>1
<1> HIDE DEF n
<1> QED
  BY <1>2, <1>5, <1>6 DEF ArtMore, n

\* The copy n of past, as it is or with one more key.
ArtCopy(h, c, n, op) ==
    LET t == h[c.past] IN
    /\ op \in {"SEARCH", "INSERT"} /\ t.type # "LEAF"
    /\ DOMAIN n = DOMAIN t /\ n.keys \in Seq(Nat) /\ n.chs = <<>> /\ n.type # "LEAF"
    /\ n.ofs = t.ofs /\ n.len = t.len /\ n.pfx = t.pfx
    /\ \E i \in 1..Len(n.keys) : n.keys[i] = ART!Digit(c.key, c.ofs + t.len)
    /\ op = "SEARCH" => Len(n.keys) = Len(t.keys)
    /\ op = "INSERT" /\ n.type # "NODE256" => Len(n.keys) = Len(t.keys) + 1

ArtDownContext(h, c, n, op) ==
    [c EXCEPT !.cur = Fresh(h, c.sno, 1), !.ofs = c.ofs + h[c.past].len + 1,
              !.op = op, !.idx = ART!FindIdx(n, ART!Digit(c.key, c.ofs + h[c.past].len))]

\* It takes the place of past, and the task goes on below.
LEMMA ArtDown ==
  ASSUME structure = "art", NEW h, NEW c, ArtReady(h, c), c.past # Nil,
         NEW n, NEW op, ArtCopy(h, c, n, op)
  PROVE  ArtMade(h, c, Result(Alloc(h, c.sno, <<n>>), ArtDownContext(h, c, n, op)))
<1> DEFINE t == h[c.past]
           k == ART!Digit(c.key, c.ofs + t.len)
           ofs == c.ofs + t.len + 1
           idx == ART!FindIdx(n, k)
           d == ArtDownContext(h, c, n, op)
           g == Alloc(h, c.sno, <<n>>)
<1>1. /\ c.past \in DOMAIN h /\ ArtFits(h, t) /\ t.ofs = c.ofs
      /\ {"type", "keys", "chs", "ofs", "len", "pfx"} \subseteq DOMAIN t
      /\ Len(t.keys) \in Nat /\ t.pfx \in Nat /\ t.len \in Nat /\ t.ofs \in Nat
      /\ c.ofs + t.len < ArtDigits
  BY ArtPast DEF ArtCopy
<1>c. /\ op \in {"SEARCH", "INSERT"} /\ t.type # "LEAF"
      /\ DOMAIN n = DOMAIN t /\ n.keys \in Seq(Nat) /\ n.chs = <<>> /\ n.type # "LEAF"
      /\ n.ofs = t.ofs /\ n.len = t.len /\ n.pfx = t.pfx
      /\ \E i \in 1..Len(n.keys) : n.keys[i] = k
      /\ op = "SEARCH" => Len(n.keys) = Len(t.keys)
      /\ op = "INSERT" /\ n.type # "NODE256" => Len(n.keys) = Len(t.keys) + 1
  BY DEF ArtCopy
<1>2. Childless(n) /\ n.ofs = c.ofs
  BY <1>1, <1>c, EmptyIs DEF IsNode, Fits, ArtFits, Childless
<1>3. idx \in 1..Len(n.keys)
  BY <1>c, ArtFindIdx
<1>4. /\ IsContext(d) /\ d.sno = c.sno /\ d.ran = c.ran /\ d.root = c.root /\ d.past = c.past
      /\ d.cur = Fresh(h, c.sno, 1) /\ d.op = op /\ d.ofs = ofs /\ d.idx = idx
  BY DEF ArtReady, IsContext, ArtDownContext
<1> HIDE DEF d
<1>6. Replaced(h, c, Result(g, d)) /\ g[d.cur] = n /\ \A id \in DOMAIN h : g[id] = h[id]
  <2>1. /\ structure \notin BTrees /\ Nodes(h, {Nil}) /\ AllFit(h) /\ Numbered(h, c.sno)
        /\ c.sno \in Nat
    BY DEF ArtReady, BTrees
  <2> HIDE DEF t, idx, ofs, k
  <2> QED
    BY <1>2, <1>4, <2>1, NodeReplaces
<1> HIDE DEF g
<1>7. g[d.past] = t
  BY <1>1, <1>4, <1>6
<1>8. ArtTask(g, d)
  <2>1. /\ n.type # "LEAF" /\ t.type # "LEAF"
        /\ n.ofs + n.len = t.ofs + t.len /\ ofs = n.ofs + n.len + 1
        /\ idx \in 1..Len(n.keys)
    BY <1>1, <1>3, <1>c
  <2>2. /\ op = "SEARCH" => Len(n.keys) <= Len(t.keys)
        /\ op = "INSERT" /\ n.type # "NODE256" => Len(n.keys) <= Len(t.keys) + 1
    <3>1. Len(n.keys) \in Nat
      BY <1>c, LenProperties
    <3> QED
      BY <1>1, <1>c, <3>1
  <2> HIDE DEF t, ofs, idx
  <2> QED
    BY <1>4, <1>6, <1>7, <1>c, <2>1, <2>2 DEF ArtTask
<1>9. Result(g, d).heap = g /\ Result(g, d).ctx = d
  BY DEF Result
<1> QED
  <2> DEFINE r == Result(g, d)
  <2>1. r.heap = g /\ r.ctx = d /\ Replaced(h, c, r)
    BY <1>6, <1>9
  <2>2. d.op \in {"SEARCH", "INSERT", "FORK"} /\ g[d.cur].ofs = c.ofs
    BY <1>2, <1>4, <1>6, <1>c
  <2> HIDE DEF r, t, k, ofs, idx
  <2>3. ArtMade(h, c, r)
    BY <1>8, <2>1, <2>2 DEF ArtMade
  <2> QED
    BY <2>3 DEF r, g, d

\* The next digit is there, or is put in.
LEMMA ArtGoesDown ==
  ASSUME structure = "art", NEW h, NEW c, ArtReady(h, c), c.past # Nil,
         ART!Matches(h[c.past], c.key), h[c.past].type # "LEAF"
  PROVE  ArtMade(h, c, ART!UpdateCow(h, c))
<1> DEFINE t == h[c.past]
           k == ART!Digit(c.key, c.ofs + t.len)
           copy == [t EXCEPT !.chs = <<>>]
           more == ART!AppendKey(t, k)
<1>1. /\ c.past \in DOMAIN h /\ ArtFits(h, t) /\ t.ofs = c.ofs
      /\ {"type", "keys", "chs", "ofs", "len", "pfx"} \subseteq DOMAIN t /\ t.keys \in Seq(Nat)
      /\ Len(t.keys) \in Nat /\ t.pfx \in Nat /\ t.len \in Nat /\ t.ofs \in Nat
      /\ c.ofs + t.len < ArtDigits
  BY ArtPast
<1>2. k \in 0..(ArtRadix - 1)
  <2>1. c.key \in Nat /\ c.ofs + t.len \in Nat
    BY <1>1 DEF ArtReady, IsContext
  <2> QED
    BY <1>1, <2>1, ArtDigit
<1>3. CASE ART!FindIdx(t, k) # 0
  <2>1. ART!UpdateCow(h, c) = Result(Alloc(h, c.sno, <<copy>>), ArtDownContext(h, c, copy, "SEARCH"))
    BY <1>3, ArtHeap DEF ART!UpdateCow, ArtDownContext
  <2>2. \E i \in 1..Len(t.keys) : t.keys[i] = k
    BY <1>1, <1>3, ArtFindIdx
  <2> HIDE DEF k
  <2>3. /\ DOMAIN copy = DOMAIN t /\ copy.keys = t.keys /\ copy.chs = <<>> /\ copy.type = t.type
        /\ copy.ofs = t.ofs /\ copy.len = t.len /\ copy.pfx = t.pfx
    BY <1>1
  <2> HIDE DEF copy
  <2>4. ArtCopy(h, c, copy, "SEARCH")
    BY <1>1, <2>2, <2>3 DEF ArtCopy, k
  <2> QED
    BY <2>1, <2>4, ArtDown
<1>4. CASE ART!FindIdx(t, k) = 0
  <2>1. ART!UpdateCow(h, c) = Result(Alloc(h, c.sno, <<more>>), ArtDownContext(h, c, more, "INSERT"))
    BY <1>4, ArtHeap DEF ART!UpdateCow, ArtDownContext
  <2>2. ArtMore(t, k, more)
    BY <1>1, <1>2, ArtAppendKey
  <2> HIDE DEF more
  <2>3. ArtCopy(h, c, more, "INSERT")
    BY <2>2 DEF ArtCopy, ArtMore
  <2> QED
    BY <2>1, <2>3, ArtDown
<1> QED
  BY <1>3, <1>4

\* The old node of a fork, below the digit that tells it apart.
ArtOld(t, c, o) ==
    LET m == ART!PrefixMatch(t, c.key) IN
    /\ m \in 0..(t.len - 1) /\ c.ofs + m + 1 \in 0..ArtDigits
    /\ ART!Digit(c.key, c.ofs + m) # ART!Digit(t.pfx, c.ofs + m)
    /\ ART!Digit(c.key, c.ofs + m) \in Nat /\ ART!Digit(t.pfx, c.ofs + m) \in Nat
    /\ Childless(o) /\ o.type = t.type /\ o.ofs = c.ofs + m + 1
    /\ o.ofs + o.len = t.ofs + t.len

LEMMA ArtForkOld ==
  ASSUME structure = "art", NEW h, NEW c, ArtReady(h, c), c.past # Nil,
         ~ART!Matches(h[c.past], c.key)
  PROVE  ArtOld(h[c.past], c, [ART!MaskLeaf(ART!ForkOld(h[c.past], c.key)) EXCEPT !.chs = <<>>])
<1> DEFINE o == [ART!MaskLeaf(ART!ForkOld(h[c.past], c.key)) EXCEPT !.chs = <<>>]
<1> DEFINE t == h[c.past]
           m == ART!PrefixMatch(t, c.key)
           u == ART!ForkOld(t, c.key)
           w == ART!MaskLeaf(u)
<1>1. /\ c.past \in DOMAIN h /\ ArtFits(h, t) /\ t.ofs = c.ofs
      /\ {"type", "keys", "chs", "ofs", "len", "pfx"} \subseteq DOMAIN t /\ t.keys \in Seq(Nat)
      /\ Len(t.keys) \in Nat /\ t.pfx \in Nat /\ t.len \in Nat /\ t.ofs \in Nat
      /\ c.ofs + t.len <= ArtDigits /\ (t.type # "LEAF" => c.ofs + t.len < ArtDigits)
  BY ArtPast
<1>2. m \in 0..t.len /\ (m # t.len => ART!Digit(c.key, t.ofs + m) # ART!Digit(t.pfx, t.ofs + m))
  BY <1>1, ArtPrefix
<1>3. m # t.len
  BY DEF ART!Matches
<1>4. c.key \in Nat /\ c.ofs \in Nat /\ ArtDigits \in Nat
  BY RadixAssumption DEF ArtReady, IsContext
<1>5. u = [t EXCEPT !.ofs = t.ofs + m + 1, !.len = t.len - m - 1]
  BY <1>1 DEF ART!ForkOld
<1> HIDE DEF t, m, u, o
<1>6. m \in 0..(t.len - 1) /\ c.ofs + m + 1 \in 0..ArtDigits /\ c.ofs + m \in Nat /\ c.ofs + m < ArtDigits
  BY <1>1, <1>2, <1>3, <1>4
<1>7. ART!Digit(c.key, c.ofs + m) \in Nat /\ ART!Digit(t.pfx, c.ofs + m) \in Nat
  <2>1. 0..(ArtRadix - 1) \subseteq Nat
    OBVIOUS
  <2> QED
    BY <1>1, <1>4, <1>6, <2>1, ArtDigit
<1>8. /\ DOMAIN u = DOMAIN t /\ u.type = t.type /\ u.keys = t.keys /\ u.chs = t.chs /\ u.pfx = t.pfx
      /\ u.ofs = c.ofs + m + 1 /\ u.len = t.len - m - 1
  BY <1>1, <1>5
<1>9. u.ofs \in 0..ArtDigits /\ u.len \in Nat /\ u.ofs + u.len = t.ofs + t.len
  <2> DEFINE n == t.len
  <2>1. n \in Nat /\ m \in Nat /\ m <= n - 1 /\ t.ofs = c.ofs
    BY <1>1, <1>6
  <2>2. u.ofs = c.ofs + m + 1 /\ u.len = n - m - 1
    BY <1>8
  <2> HIDE DEF n, w
  <2>3. n - m - 1 \in Nat /\ c.ofs + m + 1 + (n - m - 1) = c.ofs + n
    BY <1>4, <2>1
  <2> QED
    BY <1>6, <2>1, <2>2, <2>3 DEF n
<1>10. /\ DOMAIN w = DOMAIN t /\ w.type = t.type /\ w.keys = t.keys /\ w.ofs = u.ofs /\ w.len = u.len
       /\ w.pfx \in Nat
  <2> DEFINE p == ArtRadix^(ArtDigits - u.ofs)
  <2>1. p \in Nat \ {0}
    <3> DEFINE e == ArtDigits - u.ofs
    <3>1. e \in 0..ArtDigits
      BY <1>4, <1>9
    <3> HIDE DEF e
    <3>2. ArtRadix^e \in Nat \ {0}
      BY <3>1, PowersAssumption
    <3> QED
      BY <3>2 DEF e
  <2> HIDE DEF p
  <2>2. u.pfx % p \in Nat
    BY <1>1, <1>8, <2>1
  <2>3. w = IF u.type = "LEAF" /\ u.len > 0 THEN [u EXCEPT !.pfx = u.pfx % p] ELSE u
    BY DEF ART!MaskLeaf, p
  <2> QED
    BY <1>1, <1>8, <2>2, <2>3
<1> HIDE DEF w
<1>11. /\ DOMAIN o = DOMAIN t /\ o.type = t.type /\ o.keys = t.keys /\ o.ofs = u.ofs /\ o.len = u.len
       /\ o.pfx \in Nat /\ o.chs = <<>>
  BY <1>1, <1>10 DEF w, u, t, o
<1>12. Childless(o)
  <2>1. IF o.type = "LEAF" THEN o.ofs + o.len = ArtDigits ELSE o.ofs + o.len < ArtDigits
    BY <1>1, <1>9, <1>11 DEF ArtFits
  <2>2. o.ofs \in Nat /\ o.len \in Nat
    BY <1>9, <1>11
  <2> QED
    BY <1>1, <1>11, <2>1, <2>2, EmptyIs DEF Childless, IsNode, Fits, ArtFits
<1>13. ART!Digit(c.key, c.ofs + m) # ART!Digit(t.pfx, c.ofs + m)
  BY <1>1, <1>2, <1>3
<1>14. o.type = t.type /\ o.ofs = c.ofs + m + 1 /\ o.ofs + o.len = t.ofs + t.len
  BY <1>8, <1>9, <1>11
<1>15. ArtOld(t, c, o)
  BY <1>6, <1>7, <1>12, <1>13, <1>14 DEF m, ArtOld
<1> QED
  BY <1>15 DEF o, t

\* The NODE4 above: the old node and the leaf are its children.
ArtAbove(t, ofs, m, a, b, f, x) ==
    /\ {"type", "keys", "chs", "ofs", "len", "pfx"} \subseteq DOMAIN f
    /\ f.type = "NODE4" /\ f.keys \in Seq(Nat) /\ f.chs \in Seq({a, b})
    /\ DOMAIN f.chs = 1..2
    /\ f.ofs = ofs /\ f.len = m /\ f.pfx \in Nat
    /\ f.chs[ART!FindIdx(f, x)] = a

LEMMA ArtForkNode ==
  ASSUME NEW t, NEW ofs, NEW key \in Nat, NEW a, NEW b,
         NEW m, m = ART!PrefixMatch(t, key), NEW x \in Nat, NEW y \in Nat, x # y,
         x = ART!Digit(t.pfx, ofs + m), y = ART!Digit(key, ofs + m)
  PROVE  ArtAbove(t, ofs, m, a, b, ART!ForkNode(t, ofs, key, a, b), x)
<1> DEFINE f == ART!ForkNode(t, ofs, key, a, b)
<1>1. /\ f.type = "NODE4" /\ f.ofs = ofs /\ f.len = m /\ f.pfx = key
      /\ {"type", "keys", "chs", "ofs", "len", "pfx"} \subseteq DOMAIN f
      /\ f.keys = IF x > y THEN <<y, x>> ELSE <<x, y>>
      /\ f.chs = IF x > y THEN <<b, a>> ELSE <<a, b>>
  BY DEF ART!ForkNode, ART!Node
<1> HIDE DEF f
<1>2. f.keys \in Seq(Nat) /\ Len(f.keys) = 2 /\ f.chs \in Seq({a, b}) /\ DOMAIN f.chs = 1..2
  <2>1. CASE x > y
    BY <1>1, <2>1
  <2>2. CASE ~(x > y)
    BY <1>1, <2>2
  <2> QED
    BY <2>1, <2>2
<1>3. f.chs[ART!FindIdx(f, x)] = a
  <2> DEFINE i == ART!FindIdx(f, x)
  <2>1. \E j \in 1..2 : f.keys[j] = x
    <3>1. f.keys[1] = x \/ f.keys[2] = x
      BY <1>1
    <3> QED
      BY <3>1
  <2>2. i \in 1..2 /\ f.keys[i] = x
    BY <1>2, <2>1, ArtFindIdx
  <2> HIDE DEF i
  <2>3. i = 1 \/ i = 2
    BY <2>2
  <2>4. CASE x > y
    <3>1. f.keys[1] = y /\ f.chs[2] = a
      BY <1>1, <2>4
    <3>2. i = 2
      BY <2>2, <2>3, <3>1
    <3> QED
      BY <3>1, <3>2 DEF i
  <2>5. CASE ~(x > y)
    <3>1. f.keys[2] = y /\ f.chs[1] = a
      BY <1>1, <2>5
    <3>2. i = 1
      BY <2>2, <2>3, <3>1
    <3> QED
      BY <3>1, <3>2 DEF i
  <2> QED
    BY <2>4, <2>5
<1> QED
  BY <1>1, <1>2, <1>3 DEF ArtAbove, f

LEMMA ArtForks ==
  ASSUME structure = "art", NEW h, NEW c, ArtReady(h, c), c.past # Nil,
         ~ART!Matches(h[c.past], c.key)
  PROVE  ArtMade(h, c, ART!UpdateCow(h, c))
<1> DEFINE t == h[c.past]
           m == ART!PrefixMatch(t, c.key)
           x == ART!Digit(t.pfx, c.ofs + m)
           y == ART!Digit(c.key, c.ofs + m)
           v == c.sno
           a == Fresh(h, v, 1)
           b == Fresh(h, v, 2)
           o == [ART!MaskLeaf(ART!ForkOld(t, c.key)) EXCEPT !.chs = <<>>]
           l == ART!Leaf(c.ofs + m + 1, c.key, v)
           f == ART!ForkNode(t, c.ofs, c.key, a, b)
           nodes == Append(<<o, l>>, f)
           idx == ART!FindIdx(f, x)
           d == [c EXCEPT !.cur = Fresh(h, v, 3), !.op = "FORK", !.idx = idx]
           g == Alloc(h, v, nodes)
<1>1. ART!UpdateCow(h, c) = Result(g, d)
  BY ArtHeap DEF ART!UpdateCow
<1>2. /\ m \in 0..(t.len - 1) /\ c.ofs + m + 1 \in 0..ArtDigits
      /\ x # y /\ x \in Nat /\ y \in Nat
      /\ Childless(o) /\ o.type = t.type /\ o.ofs = c.ofs + m + 1
      /\ o.ofs + o.len = t.ofs + t.len
  <2>1. ArtOld(t, c, o)
    BY ArtForkOld
  <2> HIDE DEF o
  <2> QED
    BY <2>1 DEF ArtOld
<1>3. /\ c.past \in DOMAIN h /\ t.ofs = c.ofs /\ t.len \in Nat /\ c.ofs \in Nat /\ c.key \in Nat
      /\ c.ofs + t.len <= ArtDigits /\ ArtDigits \in Nat
  BY ArtPast, RadixAssumption DEF ArtReady, IsContext
<1>4. Childless(l) /\ l.ofs = c.ofs + m + 1
  <2> DEFINE at == c.ofs + m + 1
  <2>1. at \in 0..ArtDigits /\ c.key \in Nat
    BY <1>2, <1>3
  <2> HIDE DEF at
  <2>2. ART!Leaf(at, c.key, v).ofs = at
        /\ \A h1, S : IsNode(ART!Leaf(at, c.key, v), S) /\ Fits(h1, ART!Leaf(at, c.key, v))
    BY <2>1, ArtLeafNode
  <2> QED
    BY <2>2 DEF at, Childless
<1>5. ArtAbove(t, c.ofs, m, a, b, f, x)
  BY <1>2, <1>3, ArtForkNode
<1>6. AreThree(nodes, o, l, f)
  BY AppendThree
<1>7. /\ IsContext(d) /\ d.sno = v /\ d.ran = c.ran /\ d.root = c.root /\ d.past = c.past
      /\ d.cur = Fresh(h, v, 3) /\ d.op = "FORK" /\ d.idx = idx
  BY DEF ArtReady, IsContext
<1>8. v \in Nat /\ Nodes(h, {Nil}) /\ AllFit(h) /\ Numbered(h, v) /\ structure \notin BTrees
  BY DEF ArtReady, BTrees
<1> HIDE DEF o, l, f, nodes, x, y, m, t, d, idx, a, b
<1>9. \A k \in 1..3 : IsNode(nodes[k], Upto(h, v) \union {Fresh(h, v, j) : j \in 1..3} \union {Nil})
  <2> DEFINE S == Upto(h, v) \union {Fresh(h, v, j) : j \in 1..3} \union {Nil}
  <2>1. a \in S /\ b \in S
    BY DEF a, b
  <2> HIDE DEF S
  <2>2. IsNode(o, S) /\ IsNode(l, S)
    BY <1>2, <1>4 DEF Childless
  <2>3. IsNode(f, S)
    <3>1. {a, b} \subseteq S
      BY <2>1
    <3>2. f.chs \in Seq(S)
      BY <1>5, <3>1, SeqMonotonic DEF ArtAbove
    <3> QED
      BY <1>5, <3>2 DEF IsNode, ArtAbove
  <2>4. ASSUME NEW k \in 1..3 PROVE IsNode(nodes[k], S)
    <3>1. k = 1 \/ k = 2 \/ k = 3
      OBVIOUS
    <3> QED
      BY <1>6, <2>2, <2>3, <3>1 DEF AreThree
  <2> QED
    BY <2>4 DEF S
<1>10. ASSUME Extends(h, v, 3, nodes, g)
       PROVE  \A k \in 1..3 : Fits(g, nodes[k])
  <2>1. g[a] = o /\ g[b] = l
    BY <1>6, <1>10 DEF Extends, AreThree, a, b
  <2> HIDE DEF g
  <2>2. ArtFits(g, f)
    <3>1. \A i \in DOMAIN f.chs : f.chs[i] \in {a, b}
      BY <1>5, LenProperties DEF ArtAbove
    <3>2. \A i \in DOMAIN f.chs : f.chs[i] # Nil => g[f.chs[i]].ofs = c.ofs + m + 1
      BY <1>2, <1>4, <2>1, <3>1
    <3>3. m \in Nat /\ c.ofs + m < ArtDigits
      BY <1>2, <1>3
    <3> QED
      BY <1>3, <1>5, <3>2, <3>3 DEF ArtFits, ArtAbove
  <2>3. Fits(g, o) /\ Fits(g, l) /\ Fits(g, f)
    BY <1>2, <1>4, <2>2 DEF Childless, Fits
  <2>4. SUFFICES ASSUME NEW k \in 1..3 PROVE Fits(g, nodes[k])
    OBVIOUS
  <2>5. k = 1 \/ k = 2 \/ k = 3
    OBVIOUS
  <2> QED
    BY <1>6, <2>3, <2>5 DEF AreThree
<1> HIDE DEF v
<1>11. Replaced(h, c, Result(g, d)) /\ Extends(h, v, 3, nodes, g)
  <2>1. 3 \in Nat \ {0} /\ DOMAIN nodes = 1..3
    BY <1>6 DEF AreThree
  <2> QED
    BY <1>7, <1>8, <1>9, <1>10, <2>1, NodesReplace DEF v
<1> HIDE DEF g
<1>12. /\ g[d.cur] = f /\ g[d.past] = t /\ g[a] = o /\ a \in OwnNodes(g, v)
  <2>1. g[Fresh(h, v, 3)] = f /\ g[a] = o /\ a \in OwnNodes(g, v)
    BY <1>6, <1>11 DEF Extends, AreThree, a, OwnNodes
  <2> QED
    BY <1>3, <1>7, <1>11, <2>1 DEF Extends, t
<1>13. ArtTask(g, d)
  <2>1. g[d.cur].chs[d.idx] = a
    BY <1>5, <1>7, <1>12 DEF ArtAbove, idx
  <2>2. g[a].type = g[d.past].type /\ g[a].ofs + g[a].len = g[d.past].ofs + g[d.past].len
    BY <1>2, <1>12
  <2>3. ForkWaits(g, d)
    BY <1>7, <1>12, <2>1, <2>2 DEF ForkWaits
  <2> QED
    BY <1>7, <2>3 DEF ArtTask
<1>14. Result(g, d).heap = g /\ Result(g, d).ctx = d
  BY DEF Result
<1>15. ArtMade(h, c, Result(g, d))
  <2> DEFINE r == Result(g, d)
  <2>1. r.heap = g /\ r.ctx = d /\ Replaced(h, c, r)
    BY <1>11, <1>14
  <2>2. d.op = "FORK" /\ g[d.cur].ofs = c.ofs
    BY <1>5, <1>7, <1>12 DEF ArtAbove
  <2> HIDE DEF r
  <2>3. ArtMade(h, c, r)
    BY <1>13, <2>1, <2>2 DEF ArtMade
  <2> QED
    BY <2>3 DEF r
<1> QED
  BY <1>1, <1>15 DEF g, d

LEMMA ArtUpdateCow ==
  ASSUME structure = "art", NEW h, NEW c, ArtReady(h, c)
  PROVE  ArtMade(h, c, ART!UpdateCow(h, c))
BY ArtNewLeaf, ArtForks, ArtUpdateLeaf, ArtGoesDown

-------------------------------------------------------------------------------
(* What the handlers of the radix trees do with the new node *)

\* A task of a radix tree waits for others.
RadixTask(h, c) ==
    /\ c.op \in Handlers
    /\ structure = "art" => ArtTask(h, c)
    /\ structure = "aert" => AertTask(h, c)

LEMMA RadixLeaves ==
  ASSUME structure \in {"art", "aert"}, NEW h, NEW c, NEW r,
         {"heap", "ctx"} \subseteq DOMAIN r, Keeps(h, r.heap, c.sno),
         IsContext(r.ctx), r.ctx.sno = c.sno, r.ctx.ran = c.ran,
         r.ctx.op # "WILD" => /\ r.ctx.root \in Upto(r.heap, c.sno) \union {Nil}
                              /\ RootFits(r.heap, r.ctx.root),
         r.ctx.op \notin {"WILD", "DONE"} => /\ r.ctx.cur \in OwnNodes(r.heap, c.sno)
                                             /\ r.ctx.past \in Upto(r.heap, c.sno - 1)
                                             /\ RadixTask(r.heap, r.ctx)
  PROVE  Leaves(h, c, r)
<1>1. NoNode = {Nil} /\ structure \notin BTrees
  BY DEF NoNode, BTrees
<1>2. r.ctx.op # "WILD" => TaskHolds(r.heap, r.ctx)
  BY <1>1 DEF TaskHolds, RadixTask
<1> QED
  BY <1>1, <1>2 DEF Leaves, Keeps

LEMMA RadixWild ==
  ASSUME structure \in {"art", "aert"}, NEW h, NEW c, Starts(h, c)
  PROVE  Leaves(h, c, Wild(h, c))
<1> DEFINE d == [c EXCEPT !.op = "WILD"]  r == Wild(h, c)
<1>1. r.heap = h /\ r.ctx = d /\ {"heap", "ctx"} \subseteq DOMAIN r
  BY DEF Wild, Result
<1>2. IsContext(d) /\ d.sno = c.sno /\ d.ran = c.ran /\ d.op = "WILD"
  BY DEF Starts, IsContext
<1>3. Keeps(h, h, c.sno)
  <2>1. Grows(h, h, c.sno) /\ Nodes(h, {Nil})
    BY GrowsSame DEF Starts, NoNode, BTrees
  <2> QED
    BY <2>1 DEF Keeps, Steady, Starts
<1> HIDE DEF r, d
<1> QED
  BY <1>1, <1>2, <1>3, RadixLeaves DEF r

\* The handler INIT.
LEMMA RadixRooted ==
  ASSUME structure \in {"art", "aert"}, NEW h, NEW c, Starts(h, c),
         c.past \in Upto(h, c.sno - 1) \union {Nil},
         NEW r, Replaced(h, c, r), r.heap[r.ctx.cur].ofs = 0,
         r.ctx.op # "DONE" => c.past # Nil /\ RadixTask(r.heap, r.ctx)
  PROVE  Leaves(h, c, Rooted(r))
<1> DEFINE d == [r.ctx EXCEPT !.root = r.ctx.cur]  x == Rooted(r)
<1>1. x.heap = r.heap /\ x.ctx = d /\ {"heap", "ctx"} \subseteq DOMAIN x
  BY DEF Rooted, Replaced
<1>2. /\ IsContext(d) /\ d.sno = c.sno /\ d.ran = c.ran /\ d.op = r.ctx.op /\ d.root = r.ctx.cur
      /\ d.cur = r.ctx.cur /\ d.past = c.past /\ d.idx = r.ctx.idx /\ d.ofs = r.ctx.ofs
      /\ d.emb = r.ctx.emb /\ d.key = r.ctx.key
  BY DEF Replaced, IsContext
<1> HIDE DEF x, d
<1>3. d.root \in Upto(r.heap, c.sno) \union {Nil} /\ RootFits(r.heap, d.root)
  <2>1. c.sno \in Nat
    BY DEF Starts
  <2> QED
    BY <1>2, <2>1 DEF RootFits, Replaced, OwnNodes, Upto
<1>4. d.op # "DONE" => /\ d.cur \in OwnNodes(r.heap, c.sno)
                       /\ d.past \in Upto(r.heap, c.sno - 1)
                       /\ RadixTask(r.heap, d)
  <2>1. SUFFICES ASSUME d.op # "DONE"
                 PROVE  /\ d.cur \in OwnNodes(r.heap, c.sno)
                        /\ d.past \in Upto(r.heap, c.sno - 1)
                        /\ RadixTask(r.heap, d)
    OBVIOUS
  <2>2. c.past # Nil /\ RadixTask(r.heap, r.ctx)
    BY <1>2, <2>1
  <2>3. RadixTask(r.heap, d)
    <3>1. d.sno = r.ctx.sno /\ d.past = r.ctx.past
      BY <1>2 DEF Replaced
    <3>2. /\ ArtTask(r.heap, r.ctx) => ArtTask(r.heap, d)
          /\ AertTask(r.heap, r.ctx) => AertTask(r.heap, d)
      BY <1>2, <3>1 DEF ArtTask, AertTask, ForkWaits, SplitWaits, SplitKeySet
    <3> QED
      BY <1>2, <2>2, <3>2 DEF RadixTask
  <2>4. d.past \in Upto(r.heap, c.sno - 1)
    BY <1>2, <2>2, GrowsKeeps DEF Replaced, Keeps
  <2> QED
    BY <1>2, <2>3, <2>4 DEF Replaced
<1> QED
  BY <1>1, <1>2, <1>3, <1>4, RadixLeaves DEF Replaced, x

\* The nodes are as they were but for their children.
Alike(h, x) ==
    /\ DOMAIN x = DOMAIN h
    /\ \A id \in DOMAIN h : /\ x[id].type = h[id].type /\ x[id].ofs = h[id].ofs
                            /\ x[id].len = h[id].len /\ x[id].keys = h[id].keys

LEMMA AlikeTask ==
  ASSUME NEW h, NEW x, Alike(h, x), NEW c, c.cur \in DOMAIN h, c.past \in DOMAIN h,
         x[c.cur] = h[c.cur], RadixTask(h, c)
  PROVE  RadixTask(x, c)
<1>1. \A w : OwnNodes(x, w) = OwnNodes(h, w)
  BY DEF Alike, OwnNodes
<1>2. \A id \in OwnNodes(h, c.sno) : /\ x[id].type = h[id].type /\ x[id].ofs = h[id].ofs
                                     /\ x[id].len = h[id].len /\ x[id].keys = h[id].keys
  BY DEF Alike, OwnNodes
<1>3. /\ x[c.past].type = h[c.past].type /\ x[c.past].ofs = h[c.past].ofs
      /\ x[c.past].len = h[c.past].len /\ x[c.past].keys = h[c.past].keys
  BY DEF Alike
<1>4. ForkWaits(h, c) => ForkWaits(x, c)
  <2> DEFINE old == h[c.cur].chs[c.idx]
  <2>1. SUFFICES ASSUME ForkWaits(h, c) PROVE ForkWaits(x, c)
    OBVIOUS
  <2>2. /\ old \in OwnNodes(h, c.sno) /\ h[old].type = h[c.past].type
        /\ h[old].ofs + h[old].len = h[c.past].ofs + h[c.past].len
    BY <2>1 DEF ForkWaits
  <2>3. x[c.cur].chs[c.idx] = old
    OBVIOUS
  <2> HIDE DEF old
  <2> QED
    BY <1>1, <1>2, <1>3, <2>2, <2>3 DEF ForkWaits
<1>5. SplitWaits(h, c) => SplitWaits(x, c)
  <2> DEFINE past == h[c.past]
             ks == SplitKeySet(h, c)
             lower(f) == h[c.cur].chs[AERT!FindIdx(h[c.cur], f)]
  <2>1. SUFFICES ASSUME SplitWaits(h, c) PROVE SplitWaits(x, c)
    OBVIOUS
  <2>2. /\ past.type = "NODE16" /\ c.ofs = Below(past)
        /\ HalfWaits(h[c.cur], Cardinality(AERT!Firsts(ks)), AERT!Shared(ks), past.ofs, past.len)
        /\ \A f \in AERT!Shared(ks) :
             /\ lower(f) \in OwnNodes(h, c.sno)
             /\ HalfWaits(h[lower(f)], Cardinality(AERT!Seconds(ks, f)), {}, past.ofs + past.len + 1, 0)
    BY <2>1 DEF SplitWaits
  <2>3. Below(x[c.past]) = Below(past) /\ SplitKeySet(x, c) = ks
    BY <1>3 DEF Below, SplitKeySet
  <2>4. \A f : lower(f) = x[c.cur].chs[AERT!FindIdx(x[c.cur], f)]
    OBVIOUS
  <2>5. x[c.past].ofs = past.ofs /\ x[c.past].len = past.len /\ x[c.past].type = past.type
    BY <1>3
  <2> HIDE DEF past, ks, lower
  <2>6. \A f \in AERT!Shared(ks) :
          LET l == x[c.cur].chs[AERT!FindIdx(x[c.cur], f)] IN
          /\ l \in OwnNodes(x, c.sno)
          /\ HalfWaits(x[l], Cardinality(AERT!Seconds(ks, f)), {}, x[c.past].ofs + x[c.past].len + 1, 0)
    BY <1>1, <1>2, <2>2, <2>4, <2>5 DEF HalfWaits
  <2>7. HalfWaits(x[c.cur], Cardinality(AERT!Firsts(ks)), AERT!Shared(ks), x[c.past].ofs, x[c.past].len)
    BY <2>2, <2>5
  <2> QED
    BY <2>2, <2>3, <2>5, <2>6, <2>7 DEF SplitWaits
<1>6. ArtTask(h, c) => ArtTask(x, c)
  BY <1>3, <1>4 DEF ArtTask
<1>7. AertTask(h, c) => AertTask(x, c)
  BY <1>3, <1>4, <1>5 DEF AertTask
<1> QED
  BY <1>6, <1>7 DEF RadixTask

\* A handler that has copied children into the node in hand, then made the
\* node below, links the two.
LEMMA RadixLinks ==
  ASSUME structure \in {"art", "aert"}, NEW h, NEW c, Starts(h, c), TaskHolds(h, c),
         c.cur \in OwnNodes(h, c.sno),
         NEW g, Keeps(h, g, c.sno),
         NEW d, d.sno = c.sno, d.ran = c.ran, d.root = c.root,
         d.past \in Upto(g, c.sno - 1) \union {Nil},
         NEW r, Replaced(g, d, r),
         r.ctx.op # "DONE" => d.past # Nil /\ RadixTask(r.heap, r.ctx),
         NEW t, IsNode(t, Upto(r.heap, c.sno) \union {Nil}), Fits(r.heap, t),
         t.keys = r.heap[c.cur].keys, t.type = r.heap[c.cur].type,
         t.ofs = r.heap[c.cur].ofs, t.len = r.heap[c.cur].len,
         NEW q, {"heap", "ctx"} \subseteq DOMAIN q, q.ctx = r.ctx,
         q.heap = [r.heap EXCEPT ![c.cur] = t]
  PROVE  Leaves(h, c, q)
<1> DEFINE v == c.sno
           x == [r.heap EXCEPT ![c.cur] = t]
<1>1. /\ Nodes(h, {Nil}) /\ structure \notin BTrees /\ NoNode = {Nil} /\ v \in Nat \ {0}
  BY DEF Starts, NoNode, BTrees
<1>2. /\ Keeps(g, r.heap, v) /\ IsContext(r.ctx) /\ r.ctx.sno = v /\ r.ctx.ran = c.ran
      /\ r.ctx.root = c.root /\ r.ctx.past = d.past
      /\ r.ctx.cur \in OwnNodes(r.heap, v) /\ r.ctx.cur \notin DOMAIN g
  BY DEF Replaced
<1>3. Keeps(h, r.heap, v)
  BY <1>1, <1>2, KeepsKeeps
<1>4. c.cur \in OwnNodes(g, v) /\ c.cur \in OwnNodes(r.heap, v) /\ c.cur \in DOMAIN g
      /\ c.cur \in DOMAIN r.heap
  BY <1>3, GrowsKeeps DEF Keeps, OwnNodes
<1>5. Keeps(r.heap, x, v)
  <2>1. Nodes(r.heap, {Nil}) /\ AllFit(r.heap) /\ Numbered(r.heap, v)
    BY <1>3 DEF Keeps, Grows
  <2>2. Len(t.keys) >= Len(r.heap[c.cur].keys)
    <3>1. Len(t.keys) \in Nat
      BY LenProperties DEF IsNode
    <3> QED
      BY <3>1
  <2> QED
    BY <1>1, <1>4, <2>1, <2>2, RadixWrite
<1>6. Keeps(h, x, v)
  BY <1>1, <1>3, <1>5, KeepsKeeps
<1>7. Alike(r.heap, x) /\ x[r.ctx.cur] = r.heap[r.ctx.cur]
  BY <1>2, <1>4 DEF Alike, OwnNodes
<1> HIDE DEF x
<1>8. c.root \in Upto(x, v) \union {Nil} /\ RootFits(x, c.root)
  <2>1. Lasts(h, x, v)
    BY <1>6, KeepsLasts
  <2>2. c.root \in Upto(h, v) \union NoNode /\ RootFits(h, c.root)
    BY DEF TaskHolds
  <2> QED
    BY <1>1, <2>1, <2>2, RootLasts
<1>9. r.ctx.op # "DONE" => /\ r.ctx.cur \in OwnNodes(x, v)
                           /\ r.ctx.past \in Upto(x, v - 1)
                           /\ RadixTask(x, r.ctx)
  <2>1. SUFFICES ASSUME r.ctx.op # "DONE"
                 PROVE  /\ r.ctx.cur \in OwnNodes(x, v)
                        /\ r.ctx.past \in Upto(x, v - 1)
                        /\ RadixTask(x, r.ctx)
    OBVIOUS
  <2>2. d.past \in Upto(g, v - 1) /\ RadixTask(r.heap, r.ctx)
    BY <2>1
  <2>3. r.ctx.past \in Upto(r.heap, v - 1)
    BY <1>2, <2>2, GrowsKeeps DEF Keeps
  <2>4. r.ctx.cur \in OwnNodes(x, v) /\ r.ctx.past \in Upto(x, v - 1)
    BY <1>2, <1>5, <2>3, GrowsKeeps DEF Keeps
  <2>5. r.ctx.cur \in DOMAIN r.heap /\ r.ctx.past \in DOMAIN r.heap
    BY <1>2, <2>3 DEF OwnNodes, Upto
  <2>6. RadixTask(x, r.ctx)
    BY <1>7, <2>2, <2>5, AlikeTask
  <2> QED
    BY <2>4, <2>6
<1>10. q.heap = x /\ q.ctx = r.ctx /\ {"heap", "ctx"} \subseteq DOMAIN q
  BY DEF x
<1> HIDE DEF v
<1>11. /\ Keeps(h, q.heap, c.sno) /\ IsContext(q.ctx) /\ q.ctx.sno = c.sno /\ q.ctx.ran = c.ran
       /\ q.ctx.root \in Upto(q.heap, c.sno) \union {Nil} /\ RootFits(q.heap, q.ctx.root)
       /\ q.ctx.op \notin {"WILD", "DONE"} => /\ q.ctx.cur \in OwnNodes(q.heap, c.sno)
                                              /\ q.ctx.past \in Upto(q.heap, c.sno - 1)
                                              /\ RadixTask(q.heap, q.ctx)
  BY <1>2, <1>6, <1>8, <1>9, <1>10 DEF v
<1> QED
  BY <1>10, <1>11, RadixLeaves

LEMMA ReplaceInSeq ==
  ASSUME NEW S, NEW s \in Seq(S), NEW i, NEW e \in S
  PROVE  /\ [s EXCEPT ![i] = e] \in Seq(S) /\ DOMAIN [s EXCEPT ![i] = e] = DOMAIN s
         /\ Len([s EXCEPT ![i] = e]) = Len(s)
         /\ \A j \in DOMAIN s : [s EXCEPT ![i] = e][j] = IF j = i THEN e ELSE s[j]
<1> DEFINE q == [s EXCEPT ![i] = e]
<1>1. Len(s) \in Nat /\ DOMAIN s = 1..Len(s) /\ \A j \in DOMAIN s : s[j] \in S
  BY LenProperties
<1>2. DOMAIN q = DOMAIN s /\ \A j \in DOMAIN s : q[j] = IF j = i THEN e ELSE s[j]
  OBVIOUS
<1>3. q \in [1..Len(s) -> S]
  <2>1. q = [j \in DOMAIN q |-> q[j]]
    OBVIOUS
  <2> HIDE DEF q
  <2> QED
    BY <1>1, <1>2, <2>1
<1> HIDE DEF q
<1>4. q \in Seq(S)
  BY <1>1, <1>3, IsSequence
<1>5. Len(q) = Len(s)
  BY <1>1, <1>2, <1>4, LenProperties
<1> QED
  BY <1>2, <1>4, <1>5 DEF q

-------------------------------------------------------------------------------
(* The handlers of the adaptive radix tree *)

\* What a task of art finds between two handlers.
ArtBetween(h, c) ==
    /\ Nodes(h, {Nil}) /\ AllFit(h) /\ Numbered(h, c.sno) /\ c.sno \in Nat \ {0} /\ IsContext(c)
    /\ c.cur \in OwnNodes(h, c.sno) /\ c.cur \in DOMAIN h
    /\ c.past \in Upto(h, c.sno - 1) /\ c.past \in DOMAIN h
    /\ TaskHolds(h, c) /\ ArtTask(h, c)
    /\ IsNode(h[c.cur], Upto(h, c.sno) \union {Nil}) /\ ArtFits(h, h[c.cur])
    /\ h[c.past].keys \in Seq(Nat) /\ h[c.past].chs \in Seq(Upto(h, c.sno - 1) \union {Nil})
    /\ ArtFits(h, h[c.past])
    /\ Upto(h, c.sno - 1) \subseteq Upto(h, c.sno)

LEMMA PastChildren ==
  ASSUME NEW h, Nodes(h, {Nil}), NEW v \in Nat \ {0}, NEW p \in Upto(h, v - 1)
  PROVE  /\ p \in DOMAIN h /\ Upto(h, v - 1) \subseteq Upto(h, v)
         /\ IsNode(h[p], Upto(h, v - 1) \union {Nil})
<1>1. \A id \in DOMAIN h : Version(id) \in Nat
  BY DEF Nodes
<1>2. p \in DOMAIN h /\ Version(p) <= v - 1
  BY DEF Upto
<1>3. \A n \in Nat : /\ n <= v - 1 => n <= v
                     /\ n <= Version(p) => n <= v - 1
  BY <1>1, <1>2
<1>4. Upto(h, v - 1) \subseteq Upto(h, v) /\ Upto(h, Version(p)) \subseteq Upto(h, v - 1)
  BY <1>1, <1>3 DEF Upto
<1>5. IsNode(h[p], Upto(h, v - 1) \union {Nil})
  <2>1. IsNode(h[p], Upto(h, Version(p)) \union {Nil})
    BY <1>2 DEF Nodes
  <2>2. Upto(h, Version(p)) \union {Nil} \subseteq Upto(h, v - 1) \union {Nil}
    BY <1>4
  <2> QED
    BY <2>1, <2>2, MoreTargets
<1> QED
  BY <1>2, <1>4, <1>5

LEMMA ArtWaits ==
  ASSUME structure = "art", NEW h, NEW c, Starts(h, c), c.op \in Handlers
  PROVE  ArtBetween(h, c)
<1>1. c.op # "INIT" /\ c.op # "DONE" /\ NoNode = {Nil}
  BY DEF Handlers, NoNode, BTrees
<1>2. /\ Nodes(h, {Nil}) /\ AllFit(h) /\ Numbered(h, c.sno) /\ c.sno \in Nat \ {0} /\ IsContext(c)
      /\ TaskHolds(h, c)
  BY <1>1 DEF Starts
<1>3. c.cur \in OwnNodes(h, c.sno) /\ c.past \in Upto(h, c.sno - 1) /\ ArtTask(h, c)
  BY <1>1, <1>2 DEF TaskHolds
<1>4. /\ c.past \in DOMAIN h /\ Upto(h, c.sno - 1) \subseteq Upto(h, c.sno)
      /\ IsNode(h[c.past], Upto(h, c.sno - 1) \union {Nil})
  BY <1>2, <1>3, PastChildren
<1>5. c.cur \in DOMAIN h /\ IsNode(h[c.cur], Upto(h, c.sno) \union {Nil})
  BY <1>2, <1>3 DEF OwnNodes, Nodes
<1>6. ArtFits(h, h[c.cur]) /\ ArtFits(h, h[c.past])
  BY <1>2, <1>4, <1>5 DEF AllFit, Fits
<1> QED
  BY <1>2, <1>3, <1>4, <1>5, <1>6 DEF ArtBetween, IsNode

\* The node in hand gets the children s, which stand where past's do.
LEMMA ArtCopies ==
  ASSUME structure = "art", NEW h, NEW c, ArtBetween(h, c), c.op = "SEARCH"
  PROVE  Keeps(h, [h EXCEPT ![c.cur].chs = h[c.past].chs], c.sno)
<1> DEFINE v == c.sno
           cur == h[c.cur]
           past == h[c.past]
           t == [cur EXCEPT !.chs = past.chs]
<1>1. /\ Nodes(h, {Nil}) /\ AllFit(h) /\ Numbered(h, v) /\ c.cur \in OwnNodes(h, v)
      /\ structure \notin BTrees
  BY DEF ArtBetween, BTrees
<1>2. /\ cur.type # "LEAF" /\ past.type # "LEAF"
      /\ cur.ofs + cur.len = past.ofs + past.len
      /\ IsNode(cur, Upto(h, v) \union {Nil}) /\ ArtFits(h, cur) /\ ArtFits(h, past)
      /\ past.chs \in Seq(Upto(h, v - 1) \union {Nil})
      /\ Upto(h, v - 1) \union {Nil} \subseteq Upto(h, v) \union {Nil}
  BY DEF ArtBetween, ArtTask
<1> HIDE DEF past, cur
<1>3. past.chs \in Seq(Upto(h, v) \union {Nil})
  BY <1>2, SeqMonotonic
<1>4. /\ DOMAIN t = DOMAIN cur /\ t.chs = past.chs /\ t.keys = cur.keys /\ t.type = cur.type
      /\ t.ofs = cur.ofs /\ t.len = cur.len /\ t.pfx = cur.pfx
  BY <1>2 DEF IsNode, ArtFits
<1> HIDE DEF t
<1>5. IsNode(t, Upto(h, v) \union {Nil})
  BY <1>2, <1>3, <1>4 DEF IsNode
<1>6. Fits(h, t)
  BY <1>2, <1>4 DEF Fits, ArtFits
<1>7. Len(t.keys) >= Len(h[c.cur].keys)
  <2>1. Len(t.keys) \in Nat
    BY <1>5, LenProperties DEF IsNode
  <2> QED
    BY <1>4, <2>1 DEF cur
<1>8. Keeps(h, [h EXCEPT ![c.cur] = t], v)
  BY <1>1, <1>4, <1>5, <1>6, <1>7, RadixWrite DEF cur
<1> QED
  BY <1>8 DEF t, cur, past

\* What the next handler stage of the copy finds.
LEMMA ArtNextReady ==
  ASSUME structure = "art", NEW h, NEW c, ArtBetween(h, c), c.op = "SEARCH", ART!Copied(h[c.past]),
         NEW g, Keeps(h, g, c.sno), NEW d, d = [c EXCEPT !.past = h[c.past].chs[c.idx]]
  PROVE  /\ ArtReady(g, d) /\ d.sno = c.sno /\ d.ran = c.ran /\ d.root = c.root /\ d.ofs = c.ofs
         /\ d.past \in Upto(g, c.sno - 1) \union {Nil}
         /\ c.ofs = h[c.cur].ofs + h[c.cur].len + 1
<1> DEFINE v == c.sno
           cur == h[c.cur]
           past == h[c.past]
           p == past.chs[c.idx]
<1>1. /\ cur.type # "LEAF" /\ past.type # "LEAF"
      /\ cur.ofs + cur.len = past.ofs + past.len /\ c.ofs = cur.ofs + cur.len + 1
      /\ c.idx \in 1..Len(cur.keys) /\ Len(cur.keys) <= Len(past.keys)
      /\ cur.keys \in Seq(Nat) /\ past.keys \in Seq(Nat)
      /\ ArtFits(h, cur) /\ ArtFits(h, past)
      /\ past.chs \in Seq(Upto(h, v - 1) \union {Nil})
  BY DEF ArtBetween, ArtTask, IsNode
<1>2. Len(past.chs) = Len(past.keys)
  BY DEF ART!Copied
<1> HIDE DEF past, cur
<1>3. c.idx \in DOMAIN past.chs /\ p \in Upto(h, v - 1) \union {Nil}
  <2>1. Len(cur.keys) \in Nat /\ Len(cur.keys) <= Len(past.chs)
    BY <1>1, <1>2, LenProperties
  <2> QED
    BY <1>1, <2>1, EarlierPosition
<1>4. /\ DOMAIN d = DOMAIN c /\ d.past = p /\ d.sno = v /\ d.ran = c.ran /\ d.root = c.root
      /\ d.ofs = c.ofs /\ IsContext(d)
  BY DEF ArtBetween, IsContext, p, past
<1>5. Nodes(g, {Nil}) /\ AllFit(g) /\ Numbered(g, v) /\ Grows(h, g, v) /\ Steady(h, g)
  BY DEF Keeps, Grows
<1>6. p \in Upto(g, v - 1) \union {Nil}
  BY <1>3, <1>5, GrowsKeeps
<1>7. p # Nil => g[p].ofs = c.ofs
  <2>1. SUFFICES ASSUME p # Nil PROVE g[p].ofs = c.ofs
    OBVIOUS
  <2>2. h[p].ofs = c.ofs
    BY <1>1, <1>3, <2>1 DEF ArtFits
  <2>3. p \in DOMAIN h
    BY <1>3, <2>1 DEF Upto
  <2> QED
    BY <1>5, <2>2, <2>3 DEF Steady, BTrees
<1>8. c.ofs \in 0..ArtDigits
  <2>1. cur.ofs \in Nat /\ cur.len \in Nat /\ cur.ofs + cur.len < ArtDigits
    BY <1>1 DEF ArtFits
  <2>2. ArtDigits \in Nat
    BY RadixAssumption
  <2> DEFINE o == cur.ofs
             l == cur.len
  <2>3. c.ofs = o + l + 1 /\ o \in Nat /\ l \in Nat /\ o + l < ArtDigits
    BY <1>1, <2>1
  <2> HIDE DEF o, l
  <2>4. o + l + 1 \in 0..ArtDigits
    BY <2>2, <2>3
  <2> QED
    BY <2>3, <2>4
<1> HIDE DEF p
<1>9. ArtReady(g, d)
  BY <1>4, <1>5, <1>6, <1>7, <1>8 DEF ArtReady, ArtBetween
<1> QED
  BY <1>1, <1>4, <1>6, <1>9 DEF cur

LEMMA ArtSearches ==
  ASSUME structure = "art", NEW h, NEW c, Starts(h, c), c.op = "SEARCH", c.op \in Handlers,
         ART!Copied(h[c.past])
  PROVE  Leaves(h, c, ART!HandleSearch(h, c))
<1> DEFINE v == c.sno
           chs == h[c.past].chs
           g == [h EXCEPT ![c.cur].chs = chs]
           d == [c EXCEPT !.past = chs[c.idx]]
           r == ART!UpdateCow(g, d)
           u == r.heap[c.cur]
           s == [u.chs EXCEPT ![c.idx] = r.ctx.cur]
           t == [u EXCEPT !.chs = s]
           q == ART!HandleSearch(h, c)
<1>1. q = [r EXCEPT !.heap[c.cur].chs[c.idx] = r.ctx.cur]
  BY DEF ART!HandleSearch, ART!Linked
<1>2. ArtBetween(h, c)
  BY ArtWaits
<1>3. Keeps(h, g, v)
  BY <1>2, ArtCopies
<1> HIDE DEF g
<1>4. /\ ArtReady(g, d) /\ d.sno = v /\ d.ran = c.ran /\ d.root = c.root /\ d.ofs = c.ofs
      /\ d.past \in Upto(g, v - 1) \union {Nil}
      /\ c.ofs = h[c.cur].ofs + h[c.cur].len + 1
  BY <1>2, <1>3, ArtNextReady
<1> HIDE DEF d
<1>5. ArtMade(g, d, r)
  BY <1>4, ArtUpdateCow
<1> HIDE DEF r
<1>6. /\ Replaced(g, d, r) /\ r.heap[r.ctx.cur].ofs = c.ofs
      /\ r.ctx.op # "DONE" => /\ r.ctx.op \in {"SEARCH", "INSERT", "FORK"} /\ d.past # Nil
                              /\ ArtTask(r.heap, r.ctx)
  BY <1>4, <1>5 DEF ArtMade
<1>7. /\ {"heap", "ctx"} \subseteq DOMAIN r /\ Keeps(g, r.heap, v)
      /\ r.ctx.cur \in OwnNodes(r.heap, v)
  BY <1>4, <1>6 DEF Replaced
<1>8. /\ c.cur \in DOMAIN r.heap /\ Version(c.cur) = v
      /\ u.type = h[c.cur].type /\ u.ofs = h[c.cur].ofs /\ u.len = h[c.cur].len
  BY <1>2, <1>3, <1>7 DEF ArtBetween, Keeps, Steady, OwnNodes, BTrees
<1>9. /\ IsNode(u, Upto(r.heap, v) \union {Nil}) /\ ArtFits(r.heap, u) /\ u.type # "LEAF"
  BY <1>2, <1>7, <1>8 DEF Keeps, Nodes, AllFit, Fits, ArtBetween, ArtTask
<1>10. r.ctx.cur \in Upto(r.heap, v)
  BY <1>2, <1>7 DEF OwnNodes, Upto, ArtBetween
<1> HIDE DEF u
<1>11. /\ s \in Seq(Upto(r.heap, v) \union {Nil}) /\ DOMAIN s = DOMAIN u.chs
       /\ \A j \in DOMAIN u.chs : s[j] = IF j = c.idx THEN r.ctx.cur ELSE u.chs[j]
  <2> DEFINE S == Upto(r.heap, v) \union {Nil}
  <2>1. u.chs \in Seq(S) /\ r.ctx.cur \in S
    BY <1>9, <1>10 DEF IsNode
  <2> HIDE DEF S
  <2> QED
    BY <2>1, ReplaceInSeq DEF S
<1> HIDE DEF s
<1>12. /\ DOMAIN t = DOMAIN u /\ t.chs = s /\ t.keys = u.keys /\ t.type = u.type
       /\ t.ofs = u.ofs /\ t.len = u.len /\ t.pfx = u.pfx
  BY <1>9 DEF IsNode, ArtFits
<1>13. q.heap = [r.heap EXCEPT ![c.cur] = t] /\ q.ctx = r.ctx /\ {"heap", "ctx"} \subseteq DOMAIN q
  BY <1>1, <1>7, <1>8 DEF t, s, u
<1> HIDE DEF t
<1>14. IsNode(t, Upto(r.heap, v) \union {Nil})
  BY <1>9, <1>11, <1>12 DEF IsNode
<1>15. Fits(r.heap, t)
  BY <1>4, <1>6, <1>8, <1>9, <1>11, <1>12 DEF Fits, ArtFits
<1>16. r.ctx.op # "DONE" => d.past # Nil /\ RadixTask(r.heap, r.ctx)
  BY <1>6 DEF RadixTask, Handlers
<1>17. TaskHolds(h, c) /\ c.cur \in OwnNodes(h, v)
  BY <1>2 DEF ArtBetween
<1> HIDE DEF q
<1> QED
  BY <1>3, <1>4, <1>6, <1>12, <1>13, <1>14, <1>15, <1>16, <1>17, RadixLinks DEF u, q

\* A task ends with the root it has made.
LEMMA RadixDone ==
  ASSUME structure \in {"art", "aert"}, NEW h, NEW c, TaskHolds(h, c), NEW r,
         {"heap", "ctx"} \subseteq DOMAIN r, Keeps(h, r.heap, c.sno),
         IsContext(r.ctx), r.ctx.sno = c.sno, r.ctx.ran = c.ran, r.ctx.root = c.root,
         r.ctx.op = "DONE"
  PROVE  Leaves(h, c, r)
<1>1. NoNode = {Nil}
  BY DEF NoNode, BTrees
<1>2. c.root \in Upto(r.heap, c.sno) \union NoNode /\ RootFits(r.heap, c.root)
  <2>1. Lasts(h, r.heap, c.sno)
    BY KeepsLasts
  <2>2. c.root \in Upto(h, c.sno) \union NoNode /\ RootFits(h, c.root)
    BY DEF TaskHolds
  <2> QED
    BY <2>1, <2>2, RootLasts
<1> QED
  BY <1>1, <1>2, RadixLeaves

LEMMA ArtInsertChild ==
  ASSUME NEW S, Nil \in S, NEW new, NEW old, new.keys \in Seq(Nat), old.keys \in Seq(Nat),
         old.chs \in Seq(S), Len(old.chs) = Len(old.keys), NEW ch \in S,
         NEW d, \E i \in 1..Len(new.keys) : new.keys[i] = d,
         new.type # "NODE256" => Len(new.keys) <= Len(old.keys) + 1
  PROVE  ART!InsertChild(new, old, d, ch) \in Seq(S)
<1> DEFINE i == ART!FindIdx(new, d)
           s == ART!InsertChild(new, old, d, ch)
           f == [j \in DOMAIN new.keys |->
                    IF j = i THEN ch
                    ELSE LET k == ART!FindIdx(old, new.keys[j]) IN IF k = 0 THEN Nil ELSE old.chs[k]]
<1>1. i \in 1..Len(new.keys)
  BY ArtFindIdx
<1>2. s = IF new.type # "NODE256" THEN InsertAt(old.chs, i, ch) ELSE f
  BY ArtHeap DEF ART!InsertChild, ART!InsertAt, InsertAt
<1> HIDE DEF s
<1>3. CASE new.type # "NODE256"
  <2>1. i \in 1..(Len(old.chs) + 1)
    <3>1. Len(new.keys) \in Nat /\ Len(old.keys) \in Nat
      BY LenProperties
    <3> HIDE DEF i
    <3> QED
      BY <1>1, <1>3, <3>1
  <2> HIDE DEF i
  <2>2. IsInsertion(S, old.chs, i, ch, InsertAt(old.chs, i, ch))
    BY <2>1, InsertAtSeq
  <2> QED
    BY <1>2, <1>3, <2>2 DEF IsInsertion, s
<1>4. CASE new.type = "NODE256"
  <2> DEFINE n == Len(new.keys)
  <2>1. n \in Nat /\ DOMAIN new.keys = 1..n
    BY LenProperties
  <2>2. ASSUME NEW j \in 1..n PROVE f[j] \in S
    <3> DEFINE k == ART!FindIdx(old, new.keys[j])
    <3>1. k # 0 => k \in 1..Len(old.keys)
      BY ArtFindIdx
    <3>2. f[j] = IF j = i THEN ch ELSE IF k = 0 THEN Nil ELSE old.chs[k]
      BY <2>1
    <3> HIDE DEF k, i, f
    <3>3. k # 0 => old.chs[k] \in S
      BY <3>1, LenProperties
    <3> QED
      BY <3>2, <3>3
  <2>3. f \in [1..n -> S]
    <3>1. DOMAIN f = 1..n /\ f = [j \in DOMAIN f |-> f[j]]
      BY <2>1
    <3> HIDE DEF f, n
    <3> QED
      BY <2>2, <3>1
  <2> HIDE DEF f, n
  <2>4. f \in Seq(S)
    BY <2>1, <2>3, IsSequence
  <2> QED
    BY <1>2, <1>4, <2>4 DEF s
<1> QED
  BY <1>3, <1>4

LEMMA ArtInserts ==
  ASSUME structure = "art", NEW h, NEW c, Starts(h, c), c.op = "INSERT", c.op \in Handlers,
         ART!Copied(h[c.past])
  PROVE  Leaves(h, c, ART!HandleInsert(h, c))
<1> DEFINE v == c.sno
           cur == h[c.cur]
           past == h[c.past]
           a == Fresh(h, v, 1)
           l == ART!Leaf(c.ofs, c.key, v)
           g == Alloc(h, v, <<l>>)
           d == [c EXCEPT !.cur = a]
           e == [c EXCEPT !.op = "DONE"]
           chs == ART!InsertChild(cur, past, cur.keys[c.idx], a)
           t == [g[c.cur] EXCEPT !.chs = chs]
           q == ART!HandleInsert(h, c)
<1>1. q = Result([g EXCEPT ![c.cur].chs = chs], e)
  BY ArtHeap DEF ART!HandleInsert
<1>2. ArtBetween(h, c)
  BY ArtWaits
<1>3. /\ Nodes(h, {Nil}) /\ AllFit(h) /\ Numbered(h, v) /\ v \in Nat \ {0} /\ IsContext(c)
      /\ c.key \in Nat /\ TaskHolds(h, c) /\ structure \notin BTrees
      /\ c.cur \in OwnNodes(h, v) /\ c.cur \in DOMAIN h /\ c.past \in DOMAIN h
      /\ ArtFits(h, cur) /\ ArtFits(h, past) /\ cur.type # "LEAF" /\ past.type # "LEAF"
      /\ cur.keys \in Seq(Nat) /\ past.keys \in Seq(Nat)
      /\ {"type", "keys", "chs"} \subseteq DOMAIN cur
      /\ past.chs \in Seq(Upto(h, v - 1) \union {Nil})
      /\ Upto(h, v - 1) \subseteq Upto(h, v)
      /\ cur.ofs + cur.len = past.ofs + past.len /\ c.ofs = cur.ofs + cur.len + 1
      /\ c.idx \in 1..Len(cur.keys)
      /\ cur.type # "NODE256" => Len(cur.keys) <= Len(past.keys) + 1
  BY <1>2 DEF ArtBetween, ArtTask, BTrees, IsContext, IsNode
<1>4. Len(past.chs) = Len(past.keys)
  BY DEF ART!Copied
<1> HIDE DEF cur, past
<1>5. c.ofs \in 0..ArtDigits
  <2>1. cur.ofs \in Nat /\ cur.len \in Nat /\ cur.ofs + cur.len < ArtDigits
    BY <1>3 DEF ArtFits
  <2>2. ArtDigits \in Nat
    BY RadixAssumption
  <2> QED
    BY <1>3, <2>1, <2>2
<1>6. Childless(l) /\ l.ofs = c.ofs
  BY <1>3, <1>5, ArtLeafNode DEF Childless
<1>7. /\ IsContext(d) /\ d.sno = v /\ d.ran = c.ran /\ d.root = c.root /\ d.past = c.past
      /\ d.cur = a
  BY <1>3 DEF IsContext
<1>8. /\ IsContext(e) /\ e.sno = v /\ e.ran = c.ran /\ e.root = c.root /\ e.op = "DONE"
  BY <1>3 DEF IsContext
<1> HIDE DEF l, d, e
<1>9. /\ Replaced(h, c, Result(g, d)) /\ g[d.cur] = l
      /\ \A id \in DOMAIN h : g[id] = h[id]
  <2>1. /\ Nodes(h, {Nil}) /\ AllFit(h) /\ Numbered(h, v) /\ v \in Nat /\ structure \notin BTrees
        /\ Childless(l)
    BY <1>3, <1>6
  <2> QED
    BY <1>7, <2>1, NodeReplaces
<1> HIDE DEF g
<1>10. Keeps(h, g, v) /\ a \in OwnNodes(g, v) /\ g[a] = l /\ g[c.cur] = cur
  BY <1>3, <1>7, <1>9 DEF Replaced, Result, cur
<1> HIDE DEF a
<1> DEFINE S == {x \in Upto(g, v) \union {Nil} : x # Nil => g[x].ofs = c.ofs}
<1>11. chs \in Seq(S)
  <2>1. a \in S /\ Nil \in S
    BY <1>3, <1>6, <1>10 DEF OwnNodes, Upto
  <2>2. past.chs \in Seq(S)
    <3>1. Len(past.chs) \in Nat /\ DOMAIN past.chs = 1..Len(past.chs)
      BY <1>3, LenProperties
    <3>2. ASSUME NEW j \in DOMAIN past.chs PROVE past.chs[j] \in S
      <4>1. past.chs[j] \in Upto(h, v) \union {Nil}
        BY <1>3, <3>1, LenProperties
      <4>2. past.chs[j] # Nil => h[past.chs[j]].ofs = c.ofs
        BY <1>3 DEF ArtFits
      <4>3. Upto(h, v) \subseteq Upto(g, v)
        BY <1>10, GrowsKeeps DEF Keeps
      <4>4. \A x \in Upto(h, v) : g[x] = h[x]
        BY <1>9 DEF Upto
      <4> QED
        BY <4>1, <4>2, <4>3, <4>4
    <3>3. past.chs \in [1..Len(past.chs) -> S]
      <4>1. past.chs = [j \in DOMAIN past.chs |-> past.chs[j]]
        BY <1>3, LenProperties
      <4> HIDE DEF S
      <4> QED
        BY <3>1, <3>2, <4>1
    <3> HIDE DEF S
    <3> QED
      BY <3>1, <3>3, IsSequence
  <2> HIDE DEF S
  <2>3. \E i \in 1..Len(cur.keys) : cur.keys[i] = cur.keys[c.idx]
    BY <1>3
  <2> QED
    BY <1>3, <1>4, <2>1, <2>2, <2>3, ArtInsertChild
<1> HIDE DEF chs
<1>12. IsNode(t, Upto(g, v) \union {Nil}) /\ Fits(g, t)
  <2>1. /\ DOMAIN t = DOMAIN cur /\ t.chs = chs /\ t.keys = cur.keys /\ t.type = cur.type
        /\ t.ofs = cur.ofs /\ t.len = cur.len /\ t.pfx = cur.pfx
    BY <1>3, <1>10 DEF ArtFits
  <2>2. S \subseteq Upto(g, v) \union {Nil}
    OBVIOUS
  <2>3. \A j \in DOMAIN chs : chs[j] # Nil => g[chs[j]].ofs = c.ofs
    <3>1. \A j \in DOMAIN chs : chs[j] \in S
      BY <1>11, LenProperties
    <3> QED
      BY <3>1
  <2> HIDE DEF S, t
  <2>4. chs \in Seq(Upto(g, v) \union {Nil})
    BY <1>11, <2>2, SeqMonotonic
  <2> QED
    BY <1>3, <2>1, <2>3, <2>4 DEF IsNode, Fits, ArtFits
<1>13. /\ t.keys = g[c.cur].keys /\ t.type = g[c.cur].type
       /\ t.ofs = g[c.cur].ofs /\ t.len = g[c.cur].len
  BY <1>3, <1>10 DEF ArtFits
<1> DEFINE x == [g EXCEPT ![c.cur] = t]
<1>14. q.heap = x /\ q.ctx = e /\ {"heap", "ctx"} \subseteq DOMAIN q
  BY <1>1 DEF Result
<1> HIDE DEF t
<1>15. Keeps(g, x, v)
  <2>1. Nodes(g, {Nil}) /\ AllFit(g) /\ Numbered(g, v) /\ c.cur \in OwnNodes(g, v)
    BY <1>3, <1>10, GrowsKeeps DEF Keeps, Grows
  <2>2. Len(t.keys) >= Len(g[c.cur].keys)
    <3>1. Len(t.keys) \in Nat
      BY <1>12, LenProperties DEF IsNode
    <3> QED
      BY <1>13, <3>1
  <2> QED
    BY <1>3, <1>12, <1>13, <2>1, <2>2, RadixWrite
<1> HIDE DEF x
<1>16. Keeps(h, x, v)
  BY <1>3, <1>10, <1>15, KeepsKeeps
<1> HIDE DEF q
<1> QED
  BY <1>3, <1>8, <1>14, <1>16, RadixDone DEF q

\* The old node gets the children it had.
LEMMA ArtForkDone ==
  ASSUME structure = "art", NEW h, NEW c, Starts(h, c), c.op = "FORK", c.op \in Handlers
  PROVE  Leaves(h, c, ART!HandleFork(h, c))
<1> DEFINE v == c.sno
           old == h[c.cur].chs[c.idx]
           past == h[c.past]
           p == h[old]
           t == [p EXCEPT !.chs = past.chs]
           x == [h EXCEPT ![old] = t]
           d == [c EXCEPT !.cur = old, !.op = "DONE"]
           q == ART!HandleFork(h, c)
<1>1. CASE ~ART!Copied(past)
  <2>1. q = Wild(h, c)
    BY <1>1, ArtHeap DEF ART!HandleFork
  <2> QED
    BY <2>1, RadixWild
<1>2. CASE ART!Copied(past)
  <2>1. q = Result([h EXCEPT ![old].chs = past.chs], d)
    BY <1>2, ArtHeap DEF ART!HandleFork
  <2>2. ArtBetween(h, c)
    BY ArtWaits
  <2>3. /\ Nodes(h, {Nil}) /\ AllFit(h) /\ Numbered(h, v) /\ v \in Nat \ {0} /\ IsContext(c)
        /\ TaskHolds(h, c) /\ structure \notin BTrees
        /\ old \in OwnNodes(h, v) /\ p.type = past.type /\ p.ofs + p.len = past.ofs + past.len
        /\ past.chs \in Seq(Upto(h, v - 1) \union {Nil}) /\ ArtFits(h, past)
        /\ Upto(h, v - 1) \union {Nil} \subseteq Upto(h, v) \union {Nil}
    BY <2>2 DEF ArtBetween, ArtTask, ForkWaits, BTrees
  <2> HIDE DEF old, past
  <2>4. IsNode(p, Upto(h, v) \union {Nil}) /\ ArtFits(h, p)
    BY <2>3 DEF OwnNodes, Nodes, AllFit, Fits
  <2>5. past.chs \in Seq(Upto(h, v) \union {Nil})
    BY <2>3, SeqMonotonic
  <2> HIDE DEF p
  <2>6. /\ DOMAIN t = DOMAIN p /\ t.chs = past.chs /\ t.keys = p.keys /\ t.type = p.type
        /\ t.ofs = p.ofs /\ t.len = p.len /\ t.pfx = p.pfx
    BY <2>4 DEF IsNode, ArtFits
  <2>7. q.heap = x /\ q.ctx = d /\ {"heap", "ctx"} \subseteq DOMAIN q
    BY <2>1 DEF Result, p
  <2> HIDE DEF t
  <2>8. IsNode(t, Upto(h, v) \union {Nil})
    BY <2>4, <2>5, <2>6 DEF IsNode
  <2>9. Fits(h, t)
    BY <2>3, <2>4, <2>6 DEF Fits, ArtFits
  <2>10. Keeps(h, x, v)
    <3>1. Len(t.keys) >= Len(h[old].keys)
      <4>1. Len(t.keys) \in Nat
        BY <2>8, LenProperties DEF IsNode
      <4> QED
        BY <2>6, <4>1 DEF p
    <3> QED
      BY <2>3, <2>6, <2>8, <2>9, <3>1, RadixWrite DEF p
  <2>11. IsContext(d) /\ d.sno = v /\ d.ran = c.ran /\ d.root = c.root /\ d.op = "DONE"
    BY <2>3 DEF IsContext
  <2> HIDE DEF x, d, q
  <2> QED
    BY <2>3, <2>7, <2>10, <2>11, RadixDone DEF q
<1> QED
  BY <1>1, <1>2

LEMMA ArtInits ==
  ASSUME structure = "art", NEW h, NEW c, Starts(h, c), c.op = "INIT"
  PROVE  Leaves(h, c, ART!HandleInit(h, c))
<1> DEFINE r == ART!UpdateCow(h, c)
<1>1. NoNode = {Nil} /\ c.op \notin Handlers
  BY DEF NoNode, BTrees, Handlers
<1>2. /\ Nodes(h, {Nil}) /\ AllFit(h) /\ Numbered(h, c.sno) /\ c.sno \in Nat \ {0} /\ IsContext(c)
      /\ c.past \in Upto(h, c.sno - 1) \union {Nil} /\ RootFits(h, c.past) /\ c.ofs = 0
  BY <1>1 DEF Starts
<1>3. ArtReady(h, c)
  <2>1. c.past # Nil => h[c.past].ofs = 0
    BY <1>2 DEF RootFits, BTrees
  <2>2. 0 \in 0..ArtDigits
    BY RadixAssumption
  <2> QED
    BY <1>2, <2>1, <2>2 DEF ArtReady
<1>4. ArtMade(h, c, r)
  BY <1>3, ArtUpdateCow
<1>5. ART!HandleInit(h, c) = Rooted(r)
  BY DEF ART!HandleInit, ART!Rooted, Rooted
<1> HIDE DEF r
<1>6. /\ Replaced(h, c, r) /\ r.heap[r.ctx.cur].ofs = 0
      /\ r.ctx.op # "DONE" => c.past # Nil /\ RadixTask(r.heap, r.ctx)
  BY <1>2, <1>4 DEF ArtMade, RadixTask, Handlers
<1> QED
  BY <1>2, <1>5, <1>6, RadixRooted

LEMMA ArtLeaves ==
  ASSUME structure = "art", NEW h, NEW c, Starts(h, c)
  PROVE  Leaves(h, c, Handle(h, c))
<1>1. Handle(h, c) = ART!Handle(h, c) /\ Handlers = {"SEARCH", "INSERT", "FORK"}
  BY DEF Handle, Handlers
<1>2. c.op \in {"INIT", "SEARCH", "INSERT", "FORK"}
  BY <1>1 DEF Starts
<1>3. ART!Wild(h, c) = Wild(h, c)
  BY ArtHeap
<1>4. CASE c.op = "INIT"
  <2>1. ART!Handle(h, c) = ART!HandleInit(h, c)
    BY <1>4 DEF ART!Handle
  <2> QED
    BY <1>1, <1>4, <2>1, ArtInits
<1>5. CASE c.op = "SEARCH"
  <2>1. ART!Handle(h, c) = ART!HandleSearch(h, c)
    BY <1>5 DEF ART!Handle
  <2>2. CASE ART!Copied(h[c.past])
    BY <1>1, <1>5, <2>1, <2>2, ArtSearches
  <2>3. CASE ~ART!Copied(h[c.past])
    BY <1>1, <1>3, <2>1, <2>3, RadixWild DEF ART!HandleSearch
  <2> QED
    BY <2>2, <2>3
<1>6. CASE c.op = "INSERT"
  <2>1. ART!Handle(h, c) = ART!HandleInsert(h, c)
    BY <1>6 DEF ART!Handle
  <2>2. CASE ART!Copied(h[c.past])
    BY <1>1, <1>6, <2>1, <2>2, ArtInserts
  <2>3. CASE ~ART!Copied(h[c.past])
    BY <1>1, <1>3, <2>1, <2>3, RadixWild DEF ART!HandleInsert
  <2> QED
    BY <2>2, <2>3
<1>7. CASE c.op = "FORK"
  <2>1. ART!Handle(h, c) = ART!HandleFork(h, c)
    BY <1>7 DEF ART!Handle
  <2> QED
    BY <1>1, <1>7, <2>1, ArtForkDone
<1> QED
  BY <1>2, <1>4, <1>5, <1>6, <1>7
===============================================================================
