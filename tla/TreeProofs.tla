------------------------------ MODULE TreeProofs -------------------------------
(* The tasks of TreeTasks share nodes and write only their own.  The argument  *)
(* is CowInv; it holds of the handlers in any order, so that nothing here      *)
(* uses the pipes or the waits.                                                *)
EXTENDS HandlerProofs

-------------------------------------------------------------------------------
(* The numbers of a finite set in order *)

\* How many of a set are smaller.
Rank(S, x) == Cardinality({y \in S : y < x})

LEMMA RankProperties ==
  ASSUME NEW S \in SUBSET Nat, IsFiniteSet(S)
  PROVE  /\ \A x \in S : Rank(S, x) \in 0..(Cardinality(S) - 1)
         /\ \A x, z \in S : Rank(S, x) = Rank(S, z) => x = z
         /\ Cardinality(S) \in Nat
<1>1. Cardinality(S) \in Nat
  BY FS_CardinalityType
<1>2. ASSUME NEW x \in S
      PROVE  Rank(S, x) \in 0..(Cardinality(S) - 1)
  <2> DEFINE T == {y \in S : y < x}
  <2>1. T \in SUBSET S /\ T # S
    OBVIOUS
  <2> HIDE DEF T
  <2>2. IsFiniteSet(T) /\ Cardinality(T) <= Cardinality(S) /\ Cardinality(S) # Cardinality(T)
    BY <2>1, FS_Subset
  <2>3. Cardinality(T) \in Nat
    BY <2>2, FS_CardinalityType
  <2> QED
    BY <1>1, <2>2, <2>3 DEF Rank, T
<1>3. ASSUME NEW x \in S, NEW z \in S, x < z
      PROVE  Rank(S, x) # Rank(S, z)
  <2> DEFINE T == {y \in S : y < x}  U == {y \in S : y < z}
  <2>1. T \in SUBSET U /\ T # U /\ U \in SUBSET S
    <3>1. \A y \in S : y < x => y < z
      BY <1>3
    <3>2. x \in U /\ x \notin T
      BY <1>3
    <3> QED
      BY <3>1, <3>2
  <2> HIDE DEF T, U
  <2>2. IsFiniteSet(U)
    BY <2>1, FS_Subset
  <2>3. Cardinality(U) # Cardinality(T)
    BY <2>1, <2>2, FS_Subset
  <2> QED
    BY <2>3 DEF Rank, T, U
<1>4. \A x, z \in S : x # z => x < z \/ z < x
  OBVIOUS
<1> QED
  BY <1>1, <1>2, <1>3, <1>4

\* s is the set S in a sequence without repetition.
Lists(s, S) ==
    /\ s \in Seq(S) /\ Len(s) = Cardinality(S) /\ Cardinality(S) \in Nat
    /\ \A x \in S : \E i \in 1..Len(s) : s[i] = x

LEMMA InOrderLists ==
  ASSUME NEW S \in SUBSET Nat, IsFiniteSet(S)
  PROVE  Lists(InOrder(S), S)
<1> DEFINE n == Cardinality(S)
           f == [x \in S |-> Rank(S, x) + 1]
           s == InOrder(S)
<1>1. /\ \A x \in S : Rank(S, x) \in 0..(n - 1)
      /\ \A x, z \in S : Rank(S, x) = Rank(S, z) => x = z
      /\ n \in Nat
  BY RankProperties
<1>2. IsFiniteSet(1..n) /\ Cardinality(1..n) = n
  BY <1>1, FS_Interval
<1> HIDE DEF n
<1>3. f \in Injection(S, 1..n)
  <2>1. f \in [S -> 1..n]
    BY <1>1
  <2>2. \A x, z \in S : f[x] = f[z] => x = z
    BY <1>1
  <2> HIDE DEF f
  <2> QED
    BY <2>1, <2>2, Zenon DEF Injection, IsInjective
<1>4. f \in Surjection(S, 1..n)
  <2>1. Cardinality(S) = Cardinality(1..n)
    BY <1>2 DEF n
  <2> HIDE DEF f
  <2> QED
    BY <1>2, <1>3, <2>1, FS_Injection
<1>5. \A i \in 1..n : \E x \in S : Rank(S, x) = i - 1
  <2>1. \A i \in 1..n : \E x \in S : f[x] = i
    <3> HIDE DEF f
    <3> QED
      BY <1>4 DEF Surjection
  <2>2. SUFFICES ASSUME NEW i \in 1..n PROVE \E x \in S : Rank(S, x) = i - 1
    OBVIOUS
  <2>3. PICK x \in S : f[x] = i
    BY <2>1
  <2>4. Rank(S, x) + 1 = i /\ Rank(S, x) \in Int
    BY <1>1, <2>3
  <2> QED
    BY <2>4
<1>6. s = [i \in 1..n |-> CHOOSE x \in S : Rank(S, x) = i - 1]
  BY DEF InOrder, Rank, n
<1> HIDE DEF s
<1>7. \A i \in 1..n : s[i] \in S /\ Rank(S, s[i]) = i - 1
  <2>1. SUFFICES ASSUME NEW i \in 1..n PROVE s[i] \in S /\ Rank(S, s[i]) = i - 1
    OBVIOUS
  <2>2. s[i] = CHOOSE x \in S : Rank(S, x) = i - 1
    BY <1>6
  <2> QED
    BY <1>5, <2>2
<1>8. s \in [1..n -> S]
  <2>1. DOMAIN s = 1..n /\ s = [i \in DOMAIN s |-> s[i]]
    BY <1>6
  <2> QED
    BY <1>7, <2>1
<1>9. s \in Seq(S) /\ DOMAIN s = 1..n
  BY <1>1, <1>8, IsSequence
<1>10. Len(s) = n
  BY <1>1, <1>9, LenProperties
<1>11. ASSUME NEW x \in S PROVE \E i \in 1..n : s[i] = x
  <2> DEFINE i == Rank(S, x) + 1
  <2>1. i \in 1..n /\ Rank(S, x) = i - 1
    BY <1>1
  <2>2. s[i] \in S /\ Rank(S, s[i]) = Rank(S, x)
    BY <1>7, <2>1
  <2> HIDE DEF i
  <2> QED
    BY <1>1, <2>1, <2>2
<1> QED
  BY <1>1, <1>9, <1>10, <1>11 DEF Lists, s, n

-------------------------------------------------------------------------------
(* The elastic radix tree *)

\* The memory of AertCow is that of TreeHeap, and so are its sequences.
LEMMA AertHeap ==
  /\ \A h, v, ns : AERT!Alloc(h, v, ns) = Alloc(h, v, ns)
  /\ \A h, v, k : AERT!Fresh(h, v, k) = Fresh(h, v, k)
  /\ \A h, c : AERT!Result(h, c) = Result(h, c) /\ AERT!Wild(h, c) = Wild(h, c)
  /\ AERT!Nil = Nil
  /\ \A S : AERT!Cardinality(S) = Cardinality(S) /\ AERT!InOrder(S) = InOrder(S)
  /\ \A s : AERT!ToSet(s) = ToSet(s)
<1>1. \A S : AERT!Cardinality(S) = Cardinality(S)
  BY Zenon DEF AERT!Cardinality, Cardinality
<1>2. \A id : AERT!Version(id) = Version(id)
  BY DEF AERT!Version, Version
<1>3. \A h, v, k : AERT!Fresh(h, v, k) = Fresh(h, v, k)
  BY <1>1, <1>2 DEF AERT!Fresh, Fresh
<1>4. \A h, v, ns : AERT!Alloc(h, v, ns) = Alloc(h, v, ns)
  BY <1>1, <1>2 DEF AERT!Alloc, Alloc
<1>5. \A h, c : AERT!Result(h, c) = Result(h, c) /\ AERT!Wild(h, c) = Wild(h, c)
  BY DEF AERT!Result, Result, AERT!Wild, Wild
<1>6. AERT!Nil = Nil
  BY DEF AERT!Nil, Nil
<1>7. \A S : AERT!InOrder(S) = InOrder(S)
  BY DEF AERT!InOrder, InOrder, AERT!Cardinality, Cardinality
<1>8. \A s : AERT!ToSet(s) = ToSet(s)
  BY DEF AERT!ToSet, ToSet
<1> QED
  BY <1>1, <1>3, <1>4, <1>5, <1>6, <1>7, <1>8

LEMMA DigitsEven ==
  /\ AertDigits \in Nat /\ AertDigits % 2 = 0 /\ AertRadix \in Nat /\ AertRadix \notin {0, 1}
  /\ \A n \in 0..AertDigits : n % 2 = 1 => n + 1 <= AertDigits
<1>1. /\ AertDigits \in Nat /\ AertDigits % 2 = 0 /\ AertRadix \in Nat /\ AertRadix \notin {0, 1}
  BY RadixAssumption
<1> QED
  BY <1>1

LEMMA AertPart ==
  ASSUME NEW key \in Nat, NEW pos \in Nat, NEW n \in {1, 2}, pos + n <= AertDigits
  PROVE  /\ AERT!Part(key, pos, n) \in Nat
         /\ n = 1 => AERT!Part(key, pos, n) < AertRadix
         /\ n = 2 => AERT!Part(key, pos, n) < AertRadix * AertRadix
<1> DEFINE e == AertDigits - pos - n
           p == AertRadix^e
           m == IF n = 1 THEN AertRadix ELSE AertRadix * AertRadix
<1>1. AertDigits \in Nat /\ AertRadix \in Nat \ {0}
  BY RadixAssumption
<1>2. e \in 0..AertDigits
  BY <1>1
<1>3. AERT!Part(key, pos, n) = (key \div p) % m
  BY DEF AERT!Part
<1>4. m \in Nat \ {0}
  <2>1. AertRadix * AertRadix \in Nat \ {0}
    BY <1>1
  <2> QED
    BY <1>1, <2>1
<1> HIDE DEF e
<1>5. p \in Nat \ {0}
  BY <1>2, PowersAssumption
<1> HIDE DEF p
<1>6. key \div p \in Nat
  BY <1>5
<1>7. (n = 1 => m = AertRadix) /\ (n = 2 => m = AertRadix * AertRadix)
  OBVIOUS
<1> HIDE DEF m
<1>8. (key \div p) % m \in 0..(m - 1)
  BY <1>4, <1>6
<1>9. (key \div p) % m \in Nat /\ (key \div p) % m < m
  BY <1>4, <1>8
<1> QED
  BY <1>3, <1>7, <1>9

LEMMA AertFirstIn ==
  ASSUME NEW s, Len(s) \in Nat, NEW e
  PROVE  /\ AERT!FirstIn(s, e) # 0 => AERT!FirstIn(s, e) \in 1..Len(s) /\ s[AERT!FirstIn(s, e)] = e
         /\ (\E i \in 1..Len(s) : s[i] = e) => AERT!FirstIn(s, e) # 0
<1>1. AERT!FirstIn(s, e) = First(s, e)
  BY DEF AERT!FirstIn, AERT!SelectInSeq, AERT!Min, Min, First
<1> QED
  BY <1>1, FirstRange

LEMMA AertFindIdx ==
  ASSUME NEW t, t.keys \in Seq(Nat), NEW k
  PROVE  /\ AERT!FindIdx(t, k) # 0 => AERT!FindIdx(t, k) \in 1..Len(t.keys) /\ t.keys[AERT!FindIdx(t, k)] = k
         /\ (\E i \in 1..Len(t.keys) : t.keys[i] = k) => AERT!FindIdx(t, k) # 0
<1>1. AERT!FindIdx(t, k) = AERT!FirstIn(t.keys, k)
  BY DEF AERT!FindIdx
<1>2. Len(t.keys) \in Nat
  BY LenProperties
<1> QED
  BY <1>1, <1>2, AertFirstIn

\* All half digits.
LEMMA HalfDigitsListed ==
  /\ AERT!HalfDigits \in Seq(Nat) /\ Len(AERT!HalfDigits) = AertRadix
  /\ \A f \in 0..(AertRadix - 1) : \E i \in 1..Len(AERT!HalfDigits) : AERT!HalfDigits[i] = f
<1> DEFINE s == [i \in 1..AertRadix |-> i - 1]
<1>1. AertRadix \in Nat
  BY RadixAssumption
<1>2. s \in [1..AertRadix -> Nat]
  BY <1>1
<1>3. s \in Seq(Nat) /\ DOMAIN s = 1..AertRadix
  BY <1>1, <1>2, IsSequence
<1>4. Len(s) = AertRadix
  BY <1>1, <1>3, LenProperties
<1>5. ASSUME NEW f \in 0..(AertRadix - 1) PROVE f + 1 \in 1..AertRadix /\ s[f + 1] = f
  BY <1>1
<1>6. AERT!HalfDigits = s
  BY DEF AERT!HalfDigits
<1> HIDE DEF s
<1> QED
  BY <1>3, <1>4, <1>5, <1>6

\* What is in a sequence.
LEMMA SetOfSeq ==
  ASSUME NEW S, NEW s \in Seq(S)
  PROVE  /\ ToSet(s) \in SUBSET S /\ \A x : x \in ToSet(s) <=> \E i \in 1..Len(s) : s[i] = x
         /\ IsFiniteSet(ToSet(s)) /\ Cardinality(ToSet(s)) <= Len(s) /\ Len(s) \in Nat
<1>1. Len(s) \in Nat /\ DOMAIN s = 1..Len(s) /\ \A i \in 1..Len(s) : s[i] \in S
  BY LenProperties
<1>2. ToSet(s) = {s[i] : i \in 1..Len(s)}
  BY <1>1 DEF ToSet
<1>3. IsFiniteSet(1..Len(s)) /\ Cardinality(1..Len(s)) = Len(s)
  <2> DEFINE n == Len(s)
  <2>1. n \in Nat
    BY <1>1
  <2> HIDE DEF n
  <2>2. IsFiniteSet(1..n) /\ Cardinality(1..n) = n
    BY <2>1, FS_Interval
  <2> QED
    BY <2>2 DEF n
<1>4. s \in Surjection(1..Len(s), ToSet(s))
  <2>1. s \in [1..Len(s) -> ToSet(s)]
    <3>1. s = [i \in DOMAIN s |-> s[i]]
      BY LenProperties
    <3> QED
      BY <1>1, <1>2, <3>1
  <2> QED
    BY <1>2, <2>1 DEF Surjection
<1>5. IsFiniteSet(ToSet(s)) /\ Cardinality(ToSet(s)) <= Cardinality(1..Len(s))
  BY <1>3, <1>4, FS_Surjection
<1> QED
  BY <1>1, <1>2, <1>3, <1>5

\* What UpdateCow of the task c finds,
AertReady(h, c) ==
    /\ Nodes(h, {Nil}) /\ AllFit(h) /\ Numbered(h, c.sno) /\ c.sno \in Nat \ {0} /\ IsContext(c)
    /\ c.past \in Upto(h, c.sno - 1) \union {Nil}
    /\ c.ofs \in 0..AertDigits /\ c.emb \in Seq(Nat) /\ Len(c.emb) <= c.ofs % 2
    /\ c.past # Nil => h[c.past].ofs = c.ofs + Len(c.emb)

\* and what it leaves.
AertMade(h, c, r) ==
    /\ Replaced(h, c, r)
    /\ r.ctx.emb \in Seq(Nat) /\ Len(r.ctx.emb) <= c.ofs % 2
    /\ r.heap[r.ctx.cur].ofs = c.ofs + Len(r.ctx.emb)
    /\ r.ctx.op # "DONE" => /\ r.ctx.op \in {"SEARCH", "INSERT", "FORK", "SPLIT"} /\ c.past # Nil
                            /\ AertTask(r.heap, r.ctx)

LEMMA ResultFields ==
  /\ \A g, y, e : [Result(g, y) EXCEPT !.ctx.emb = e] = Result(g, [y EXCEPT !.emb = e])
  /\ \A g, y, e : [Result(g, y) EXCEPT !.ctx.ofs = e] = Result(g, [y EXCEPT !.ofs = e])
  /\ \A g, y, e : [Result(g, y) EXCEPT !.ctx.idx = e] = Result(g, [y EXCEPT !.idx = e])
  /\ \A g, y : Result(g, y).heap = g /\ Result(g, y).ctx = y /\ {"heap", "ctx"} \subseteq DOMAIN Result(g, y)
BY DEF Result

LEMMA ResultGoesOn ==
  ASSUME NEW g, NEW y, NEW o, NEW d, d = [y EXCEPT !.ofs = o], NEW r, r = [Result(g, y) EXCEPT !.ctx.ofs = o]
  PROVE  r = Result(g, d)
BY ResultFields

\* A result whose context goes on at another place.
Moved(r, o, x) == [r EXCEPT !.ctx.ofs = o, !.ctx.idx = x]
Onward(c, o, x) == [[c EXCEPT !.ofs = o] EXCEPT !.idx = x]

LEMMA ResultDown ==
  ASSUME NEW g, NEW y, NEW o, NEW x
  PROVE  Moved(Result(g, y), o, x) = Result(g, Onward(y, o, x))
<1> DEFINE r == [Result(g, y) EXCEPT !.ctx.ofs = o]
           z == [y EXCEPT !.ofs = o]
<1>1. r = Result(g, z)
  BY ResultFields
<1>2. Moved(Result(g, y), o, x) = [r EXCEPT !.ctx.idx = x]
  BY DEF Moved
<1> HIDE DEF r, z
<1>3. [Result(g, z) EXCEPT !.ctx.idx = x] = Result(g, [z EXCEPT !.idx = x])
  BY DEF Result
<1>4. [r EXCEPT !.ctx.idx = x] = Result(g, [z EXCEPT !.idx = x])
  BY <1>1, <1>3, Zenon
<1> QED
  BY <1>2, <1>4 DEF z, Onward

LEMMA AertLeafNode ==
  ASSUME structure = "aert", NEW ofs \in 0..AertDigits, NEW key \in Nat, NEW val
  PROVE  /\ Childless(AERT!Leaf(ofs, key, val))
         /\ AERT!Leaf(ofs, key, val).ofs = ofs + (ofs % 2)
<1> DEFINE t == AERT!Leaf(ofs, key, val)
           at == AERT!LeafAt(ofs)
<1>1. at = ofs + (ofs % 2)
  BY DEF AERT!LeafAt
<1>2. /\ {"type", "keys", "chs", "ofs", "len", "pfx", "emb"} \subseteq DOMAIN t
      /\ t.type = "LEAF" /\ t.keys = <<>> /\ t.chs = <<>> /\ t.emb = <<>>
      /\ t.ofs = at /\ t.len = AertDigits - at /\ t.pfx = key
  BY DEF AERT!Leaf, AERT!Node
<1> HIDE DEF t, at
<1>3. at \in Nat /\ at <= AertDigits /\ at % 2 = 0
  BY <1>1, DigitsEven
<1>4. AertDigits - at \in Nat /\ (AertDigits - at) % 2 = 0 /\ at + (AertDigits - at) = AertDigits
  BY <1>3, DigitsEven
<1>5. structure # "art"
  OBVIOUS
<1>6. t.emb \in Seq(Seq(Nat)) /\ Len(t.emb) = Len(t.chs)
  BY <1>2, EmptyIs
<1> QED
  BY <1>1, <1>2, <1>3, <1>4, <1>5, <1>6, EmptyIs DEF Childless, IsNode, Fits, AertFits, t

LEMMA AertLeafEmb ==
  ASSUME NEW ofs \in 0..AertDigits, NEW key \in Nat
  PROVE  AERT!LeafEmb(ofs, key) \in Seq(Nat) /\ Len(AERT!LeafEmb(ofs, key)) = ofs % 2
<1>1. CASE ofs % 2 = 1
  <2>1. ofs \in Nat /\ ofs + 1 <= AertDigits
    BY <1>1, DigitsEven
  <2>2. AERT!Part(key, ofs, 1) \in Nat
    BY <2>1, AertPart
  <2> QED
    BY <1>1, <2>2 DEF AERT!LeafEmb
<1>2. CASE ofs % 2 # 1
  <2>1. ofs % 2 = 0
    BY <1>2, DigitsEven
  <2> QED
    BY <1>2, <2>1 DEF AERT!LeafEmb
<1> QED
  BY <1>1, <1>2

\* There is no child to replace.
LEMMA AertNewLeaf ==
  ASSUME structure = "aert", NEW h, NEW c, AertReady(h, c), c.past = Nil
  PROVE  AertMade(h, c, AERT!UpdateCow(h, c))
<1> DEFINE t == AERT!Leaf(c.ofs, c.key, c.sno)
           e == AERT!LeafEmb(c.ofs, c.key)
           a == Fresh(h, c.sno, 1)
           y == [c EXCEPT !.cur = a, !.op = "DONE"]
           d == [y EXCEPT !.emb = e]
           g == Alloc(h, c.sno, <<t>>)
<1>1. AERT!UpdateCow(h, c) = Result(g, d)
  <2>1. AERT!UpdateCow(h, c) = [Result(g, y) EXCEPT !.ctx.emb = e]
    BY AertHeap DEF AERT!UpdateCow
  <2> HIDE DEF g, y, e
  <2> QED
    BY <2>1, ResultFields
<1>2. c.ofs \in 0..AertDigits /\ c.key \in Nat /\ IsContext(c)
  BY DEF AertReady, IsContext
<1>3. Childless(t) /\ t.ofs = c.ofs + (c.ofs % 2)
  BY <1>2, AertLeafNode
<1>4. e \in Seq(Nat) /\ Len(e) = c.ofs % 2
  BY <1>2, AertLeafEmb
<1> HIDE DEF e, t
<1>5. /\ IsContext(d) /\ d.sno = c.sno /\ d.ran = c.ran /\ d.root = c.root /\ d.past = c.past
      /\ d.cur = Fresh(h, c.sno, 1) /\ d.op = "DONE" /\ d.emb = e
  BY <1>2 DEF IsContext
<1> HIDE DEF d
<1>6. Replaced(h, c, Result(g, d)) /\ g[d.cur] = t
  <2>1. /\ structure \notin BTrees /\ Nodes(h, {Nil}) /\ AllFit(h) /\ Numbered(h, c.sno)
        /\ c.sno \in Nat /\ Childless(t)
    BY <1>3 DEF AertReady, BTrees
  <2> QED
    BY <1>5, <2>1, NodeReplaces
<1> HIDE DEF g
<1>7. g[d.cur].ofs = c.ofs + Len(d.emb) /\ Len(d.emb) <= c.ofs % 2
  BY <1>2, <1>3, <1>4, <1>5, <1>6
<1>8. AertMade(h, c, Result(g, d))
  BY <1>4, <1>5, <1>6, <1>7, ResultFields DEF AertMade
<1> QED
  BY <1>1, <1>8

\* What past is, if there is one.
AertOfPast(h, c, t) ==
    /\ t = h[c.past] /\ c.past \in DOMAIN h /\ c.past \in Upto(h, c.sno - 1)
    /\ {"type", "keys", "chs", "ofs", "len", "pfx", "emb"} \subseteq DOMAIN t
    /\ t.ofs \in Nat /\ t.len \in Nat /\ t.pfx \in Nat /\ t.len % 2 = 0
    /\ t.keys \in Seq(Nat)
    /\ AertFits(h, t) /\ t.ofs = c.ofs + Len(c.emb) /\ c.ofs \in Nat
    /\ c.emb \in Seq(Nat) /\ Len(c.emb) \in Nat /\ Len(c.emb) <= c.ofs % 2
    /\ AERT!KeyLen(t.type) \in {1, 2}
    /\ IF t.type = "LEAF" THEN t.ofs + t.len = AertDigits /\ t.ofs % 2 = 0 /\ t.chs = <<>> /\ t.emb = <<>>
       ELSE /\ Below(t) <= AertDigits /\ Below(t) = t.ofs + t.len + AERT!KeyLen(t.type)
            /\ t.ofs % 2 = 1 => t.len = 0 /\ AERT!KeyLen(t.type) = 1
            /\ AERT!KeyLen(t.type) = 2 => \A i \in DOMAIN t.keys : t.keys[i] < AertRadix * AertRadix

LEMMA AertPast ==
  ASSUME structure = "aert", NEW h, NEW c, AertReady(h, c), c.past # Nil
  PROVE  AertOfPast(h, c, h[c.past])
<1> DEFINE t == h[c.past]
<1>1. /\ c.past \in DOMAIN h /\ t.ofs = c.ofs + Len(c.emb) /\ c.past \in Upto(h, c.sno - 1)
      /\ c.ofs \in 0..AertDigits /\ c.emb \in Seq(Nat) /\ Len(c.emb) <= c.ofs % 2
  BY DEF AertReady, Upto
<1>2. IsNode(t, Upto(h, Version(c.past)) \union {Nil}) /\ AertFits(h, t)
  BY <1>1 DEF AertReady, Nodes, AllFit, Fits
<1>3. c.ofs \in Nat /\ Len(c.emb) \in Nat
  BY <1>1, DigitsEven, LenProperties
<1>4. AERT!KeyLen(t.type) \in {1, 2}
  BY DEF AERT!KeyLen
<1> HIDE DEF t
<1>5. t.chs = <<>> => t.emb = <<>>
  <2>1. t.emb \in Seq(Seq(Nat)) /\ Len(t.emb) = Len(t.chs)
    BY <1>2 DEF AertFits
  <2>2. Len(<<>>) = 0
    BY EmptyIs
  <2> QED
    BY <2>1, <2>2, EmptyIs, LenProperties
<1> QED
  BY <1>1, <1>2, <1>3, <1>4, <1>5 DEF t, AertFits, IsNode, AertOfPast, Below

\* A node over two others.
IsPair(p, type, k0, k1, a, b, ofs, len) ==
    /\ {"type", "keys", "chs", "ofs", "len", "pfx", "emb"} \subseteq DOMAIN p
    /\ p.type = type /\ p.ofs = ofs /\ p.len = len /\ p.pfx \in Nat
    /\ p.keys \in Seq(Nat) /\ \A i \in DOMAIN p.keys : p.keys[i] \in {k0, k1}
    /\ p.chs \in Seq({a, b}) /\ Len(p.chs) = 2 /\ \E i \in 1..2 : p.chs[i] = a
    /\ p.emb \in Seq(Seq(Nat)) /\ Len(p.emb) = 2 /\ \A i \in 1..2 : Len(p.emb[i]) = 0

LEMMA AertPair ==
  ASSUME NEW type, NEW k0 \in Nat, NEW k1 \in Nat, NEW a, NEW b, NEW ofs, NEW len, NEW key \in Nat
  PROVE  IsPair(AERT!Pair(type, k0, k1, a, b, ofs, len, key), type, k0, k1, a, b, ofs, len)
<1> DEFINE p == AERT!Pair(type, k0, k1, a, b, ofs, len, key)
           e == <<<<>>, <<>>>>
<1>1. /\ {"type", "keys", "chs", "ofs", "len", "pfx", "emb"} \subseteq DOMAIN p
      /\ p.type = type /\ p.ofs = ofs /\ p.len = len /\ p.pfx = key /\ p.emb = e
      /\ p.keys = IF k0 > k1 THEN <<k1, k0>> ELSE <<k0, k1>>
      /\ p.chs = IF k0 > k1 THEN <<b, a>> ELSE <<a, b>>
  BY DEF AERT!Pair, AERT!Node
<1> HIDE DEF p
<1>2. e \in Seq(Seq(Nat)) /\ Len(e) = 2 /\ \A i \in 1..2 : Len(e[i]) = 0
  <2>1. <<>> \in Seq(Nat) /\ Len(<<>>) = 0
    BY EmptyIs
  <2>2. e[1] = <<>> /\ e[2] = <<>> /\ Len(e) = 2
    OBVIOUS
  <2>3. e \in Seq(Seq(Nat))
    BY <2>1
  <2> HIDE DEF e
  <2>4. \A i \in 1..2 : i = 1 \/ i = 2
    OBVIOUS
  <2> QED
    BY <2>1, <2>2, <2>3, <2>4
<1> HIDE DEF e
<1>3. /\ p.keys \in Seq(Nat) /\ \A i \in DOMAIN p.keys : p.keys[i] \in {k0, k1}
      /\ p.chs \in Seq({a, b}) /\ Len(p.chs) = 2 /\ \E i \in 1..2 : p.chs[i] = a
  <2>1. CASE k0 > k1
    BY <1>1, <2>1
  <2>2. CASE ~(k0 > k1)
    BY <1>1, <2>2
  <2> QED
    BY <2>1, <2>2
<1> QED
  BY <1>1, <1>2, <1>3 DEF IsPair, p

LEMMA PairFits ==
  ASSUME structure = "aert", NEW p, NEW type, NEW k0, NEW k1, NEW a, NEW b, NEW ofs \in Nat, NEW len \in Nat,
         IsPair(p, type, k0, k1, a, b, ofs, len), NEW n, n = AERT!KeyLen(type), n \in {1, 2}, type # "LEAF",
         len % 2 = 0, ofs + len + n <= AertDigits, ofs % 2 = 1 => len = 0 /\ n = 1,
         n = 2 => k0 < AertRadix * AertRadix /\ k1 < AertRadix * AertRadix,
         NEW g, g[a].ofs = ofs + len + n, g[b].ofs = ofs + len + n
  PROVE  Fits(g, p)
<1>1. Below(p) = ofs + len + n
  BY DEF IsPair, Below
<1>2. Below(p) % 2 \in Nat
  BY <1>1
<1>3. \A i \in DOMAIN p.chs : i \in 1..2 /\ p.chs[i] \in {a, b}
  BY LenProperties DEF IsPair
<1>4. ASSUME NEW i \in DOMAIN p.chs
      PROVE  Len(p.emb[i]) <= Below(p) % 2 /\ g[p.chs[i]].ofs = Below(p) + Len(p.emb[i])
  <2>1. Len(p.emb[i]) = 0 /\ g[p.chs[i]].ofs = ofs + len + n
    BY <1>3 DEF IsPair
  <2> QED
    BY <1>1, <1>2, <2>1
<1>5. n = 2 => \A i \in DOMAIN p.keys : p.keys[i] < AertRadix * AertRadix
  BY DEF IsPair
<1>6. structure # "art" /\ AERT!KeyLen(p.type) = n /\ Below(p) <= AertDigits
  BY <1>1 DEF IsPair
<1> HIDE DEF Below
<1>7. AertFits(g, p)
  BY <1>4, <1>5, <1>6 DEF IsPair, AertFits
<1> QED
  BY <1>6, <1>7 DEF Fits

\* The half digit embedded in the pointer differs: a node above gets the child
\* and a new leaf.
LEMMA AertForksHalf ==
  ASSUME structure = "aert", NEW h, NEW c, AertReady(h, c), c.past # Nil,
         ~AERT!EmbMatches(c.emb, h[c.past].ofs, c.key)
  PROVE  AertMade(h, c, AERT!UpdateCow(h, c))
<1> DEFINE v == c.sno
           a == Fresh(h, v, 1)
           l == AERT!Leaf(c.ofs + 1, c.key, v)
           x == c.emb[1]
           k == AERT!Part(c.key, c.ofs, 1)
           f == AERT!ForkHalf(c.emb, c.ofs, c.key, c.past, a)
           nodes == <<l, f>>
           y == [c EXCEPT !.cur = Fresh(h, v, 2), !.op = "DONE"]
           d == [y EXCEPT !.emb = <<>>]
           g == Alloc(h, v, nodes)
<1>1. AERT!UpdateCow(h, c) = Result(g, d)
  <2>1. AERT!UpdateCow(h, c) = [Result(g, y) EXCEPT !.ctx.emb = <<>>]
    BY AertHeap DEF AERT!UpdateCow
  <2> HIDE DEF g, y
  <2> QED
    BY <2>1, ResultFields
<1>2. AertOfPast(h, c, h[c.past])
  BY AertPast
<1>3. /\ Nodes(h, {Nil}) /\ AllFit(h) /\ Numbered(h, v) /\ v \in Nat \ {0} /\ IsContext(c)
      /\ structure \notin BTrees /\ c.key \in Nat /\ c.ofs \in 0..AertDigits
  BY DEF AertReady, BTrees, IsContext
<1>4. /\ c.emb \in Seq(Nat) /\ Len(c.emb) = 1 /\ c.ofs % 2 = 1 /\ c.ofs \in Nat
      /\ h[c.past].ofs = c.ofs + 1 /\ x \in Nat
  <2>1. c.emb # <<>>
    BY DEF AERT!EmbMatches
  <2>2. c.emb \in Seq(Nat) /\ Len(c.emb) \in Nat /\ Len(c.emb) <= c.ofs % 2 /\ c.ofs \in Nat
        /\ h[c.past].ofs = c.ofs + Len(c.emb)
    BY <1>2 DEF AertOfPast
  <2>3. Len(c.emb) # 0
    BY <2>1, <2>2, LenProperties, EmptyIs
  <2>4. c.ofs % 2 \in {0, 1}
    BY <2>2
  <2>5. Len(c.emb) = 1 /\ c.ofs % 2 = 1
    <3> DEFINE m == Len(c.emb)  o == c.ofs % 2
    <3>1. m \in Nat /\ m <= o /\ m # 0 /\ o \in {0, 1}
      BY <2>2, <2>3, <2>4
    <3> HIDE DEF m, o
    <3>2. m = 1 /\ o = 1
      BY <3>1
    <3> QED
      BY <3>2 DEF m, o
  <2> QED
    BY <2>2, <2>5, LenProperties
<1>5. c.ofs + 1 \in 0..AertDigits /\ (c.ofs + 1) % 2 = 0
  <2>1. c.ofs + 1 <= AertDigits /\ AertDigits \in Nat
    BY <1>3, <1>4, DigitsEven
  <2>2. (c.ofs + 1) % 2 = 0
    BY <1>4
  <2> QED
    BY <1>4, <2>1, <2>2
<1>6. Childless(l) /\ l.ofs = c.ofs + 1
  <2>1. Childless(l) /\ l.ofs = c.ofs + 1 + ((c.ofs + 1) % 2)
    BY <1>3, <1>5, AertLeafNode
  <2> QED
    BY <1>4, <1>5, <2>1
<1>7. k \in Nat
  <2>1. c.ofs + 1 <= AertDigits /\ 1 \in {1, 2}
    BY <1>5
  <2> QED
    BY <1>3, <1>4, <2>1, AertPart
<1>8. IsPair(f, "NODEH4", x, k, c.past, a, c.ofs, 0)
  BY <1>3, <1>4, <1>7, AertPair DEF AERT!ForkHalf
<1>9. DOMAIN nodes = 1..2 /\ nodes[1] = l /\ nodes[2] = f
  OBVIOUS
<1>10. /\ IsContext(d) /\ d.sno = v /\ d.ran = c.ran /\ d.root = c.root /\ d.past = c.past
       /\ d.cur = Fresh(h, v, 2) /\ d.op = "DONE" /\ d.emb = <<>>
  BY <1>3 DEF IsContext
<1> HIDE DEF l, f, nodes, x, k, d
<1>11. \A i \in 1..2 : IsNode(nodes[i], Upto(h, v) \union {Fresh(h, v, j) : j \in 1..2} \union {Nil})
  <2> DEFINE S == Upto(h, v) \union {Fresh(h, v, j) : j \in 1..2} \union {Nil}
  <2>1. a \in S
    OBVIOUS
  <2>2. c.past \in S
    <3>1. c.past \in Upto(h, v - 1)
      BY <1>2 DEF AertOfPast
    <3>2. Upto(h, v - 1) \subseteq Upto(h, v)
      BY <1>3, <3>1, PastChildren
    <3> QED
      BY <3>1, <3>2
  <2> HIDE DEF S, a
  <2>3. IsNode(l, S)
    BY <1>6 DEF Childless
  <2>4. IsNode(f, S)
    <3>1. {c.past, a} \subseteq S
      BY <2>1, <2>2
    <3>2. f.chs \in Seq(S)
      BY <1>8, <3>1, SeqMonotonic DEF IsPair
    <3> QED
      BY <1>8, <3>2 DEF IsNode, IsPair
  <2>5. \A i \in 1..2 : i = 1 \/ i = 2
    OBVIOUS
  <2> QED
    BY <1>9, <2>3, <2>4, <2>5 DEF S
<1>12. ASSUME Extends(h, v, 2, nodes, g)
       PROVE  \A i \in 1..2 : Fits(g, nodes[i])
  <2>1. g[a] = l /\ g[c.past] = h[c.past]
    BY <1>2, <1>9, <1>12 DEF Extends, AertOfPast
  <2> HIDE DEF g, a
  <2>2. Fits(g, f)
    <3>1. AERT!KeyLen("NODEH4") = 1
      BY DEF AERT!KeyLen
    <3>2. g[a].ofs = c.ofs + 0 + 1 /\ g[c.past].ofs = c.ofs + 0 + 1 /\ c.ofs + 0 + 1 <= AertDigits
      BY <1>4, <1>5, <1>6, <2>1
    <3>3. c.ofs \in Nat /\ 0 \in Nat /\ 0 % 2 = 0 /\ 1 \in {1, 2} /\ (c.ofs % 2 = 1 => 0 = 0 /\ 1 = 1)
          /\ (1 = 2 => x < AertRadix * AertRadix /\ k < AertRadix * AertRadix)
      BY <1>4
    <3> DEFINE n == 1
               len == 0
    <3>4. /\ IsPair(f, "NODEH4", x, k, c.past, a, c.ofs, len)
          /\ n = AERT!KeyLen("NODEH4") /\ n \in {1, 2} /\ len % 2 = 0 /\ c.ofs + len + n <= AertDigits
          /\ (c.ofs % 2 = 1 => len = 0 /\ n = 1)
          /\ (n = 2 => x < AertRadix * AertRadix /\ k < AertRadix * AertRadix)
          /\ g[c.past].ofs = c.ofs + len + n /\ g[a].ofs = c.ofs + len + n /\ c.ofs \in Nat /\ len \in Nat
      BY <1>8, <3>1, <3>2, <3>3
    <3>5. "NODEH4" # "LEAF"
      OBVIOUS
    <3> HIDE DEF n, len
    <3> QED
      BY <3>4, <3>5, PairFits
  <2>3. \A i \in 1..2 : i = 1 \/ i = 2
    OBVIOUS
  <2> QED
    BY <1>6, <1>9, <2>2, <2>3 DEF Childless
<1> HIDE DEF v
<1>13. Replaced(h, c, Result(g, d)) /\ Extends(h, v, 2, nodes, g)
  <2>1. 2 \in Nat \ {0}
    OBVIOUS
  <2> QED
    BY <1>3, <1>9, <1>10, <1>11, <1>12, <2>1, NodesReplace DEF v
<1> HIDE DEF g
<1>14. g[d.cur].ofs = c.ofs + Len(d.emb) /\ d.emb \in Seq(Nat) /\ Len(d.emb) <= c.ofs % 2
  <2>1. g[d.cur] = f
    BY <1>9, <1>10, <1>13 DEF Extends
  <2>2. Len(d.emb) = 0 /\ d.emb \in Seq(Nat)
    BY <1>10, EmptyIs
  <2>3. f.ofs = c.ofs /\ c.ofs \in Nat
    BY <1>4, <1>8 DEF IsPair
  <2>4. c.ofs + 0 = c.ofs /\ 0 <= c.ofs % 2
    BY <2>3
  <2> QED
    BY <2>1, <2>2, <2>3, <2>4
<1>15. AertMade(h, c, Result(g, d))
  <2> DEFINE r == Result(g, d)
  <2>1. r.heap = g /\ r.ctx = d /\ Replaced(h, c, r)
    BY <1>13, ResultFields
  <2> HIDE DEF r
  <2>2. AertMade(h, c, r)
    BY <1>10, <1>14, <2>1 DEF AertMade
  <2> QED
    BY <2>2 DEF r
<1> QED
  BY <1>1, <1>15 DEF g, v

\* The prefix differs in a whole digit.
LEMMA AertPrefix ==
  ASSUME NEW t, t.len \in Nat, t.len % 2 = 0, NEW key, ~AERT!Matches(t, key)
  PROVE  LET m == AERT!PrefixMatch(t, key) IN m \in Nat /\ m % 2 = 0 /\ m + 2 <= t.len
<1> DEFINE n == t.len \div 2
           differ == {i \in 0..(n - 1) : AERT!Part(key, t.ofs + 2*i, 2) # AERT!Part(t.pfx, t.ofs + 2*i, 2)}
           m == AERT!PrefixMatch(t, key)
           x == CHOOSE i \in differ : \A j \in differ : i <= j
<1>1. m = IF differ = {} THEN t.len ELSE 2 * x
  BY DEF AERT!PrefixMatch
<1>2. m # t.len
  BY DEF AERT!Matches
<1>3. n \in Nat /\ t.len = 2 * n
  OBVIOUS
<1>4. differ \in SUBSET (0..(n - 1))
  OBVIOUS
<1> HIDE DEF differ, n, m
<1>5. differ # {} /\ m = 2 * x
  BY <1>1, <1>2
<1>6. x \in differ
  <2>1. differ \in SUBSET Nat
    BY <1>3, <1>4
  <2>2. \E i \in differ : \A j \in differ : i <= j
    BY <1>5, <2>1, Least
  <2> QED
    BY <2>2
<1>7. x \in 0..(n - 1)
  BY <1>4, <1>6
<1> HIDE DEF x
<1>8. m \in Nat /\ m % 2 = 0 /\ m + 2 <= t.len
  BY <1>3, <1>5, <1>7
<1> QED
  BY <1>8 DEF m

LEMMA ForkNumbers ==
  ASSUME NEW ofs \in Nat, NEW len \in Nat, NEW m \in Nat, ofs % 2 = 0, len % 2 = 0, m % 2 = 0,
         m + 2 <= len, ofs + len <= AertDigits
  PROVE  /\ ofs + m + 2 \in 0..AertDigits /\ (ofs + m + 2) % 2 = 0
         /\ ofs + m \in Nat /\ ofs + m + 2 <= AertDigits
         /\ len - m - 2 \in Nat /\ (len - m - 2) % 2 = 0
         /\ ofs + m + 2 + (len - m - 2) = ofs + len
<1>1. AertDigits \in Nat
  BY DigitsEven
<1>2. ofs + m + 2 \in 0..AertDigits
  BY <1>1
<1>3. (ofs + m + 2) % 2 = 0
  OBVIOUS
<1>4. len - m - 2 \in Nat
  OBVIOUS
<1>5. (len - m - 2) % 2 = 0
  OBVIOUS
<1>6. ofs + m + 2 + (len - m - 2) = ofs + len
  OBVIOUS
<1> QED
  BY <1>2, <1>3, <1>4, <1>5, <1>6

LEMMA AertForks ==
  ASSUME structure = "aert", NEW h, NEW c, AertReady(h, c), c.past # Nil,
         AERT!EmbMatches(c.emb, h[c.past].ofs, c.key), ~AERT!Matches(h[c.past], c.key)
  PROVE  AertMade(h, c, AERT!UpdateCow(h, c))
<1> DEFINE v == c.sno
           t == h[c.past]
           m == AERT!PrefixMatch(t, c.key)
           a == Fresh(h, v, 1)
           b == Fresh(h, v, 2)
           u == AERT!ForkOld(t, c.key)
           o == [u EXCEPT !.chs = <<>>, !.emb = <<>>]
           l == AERT!ForkLeaf(t, c.key, v)
           f == AERT!ForkNode(t, c.key, a, b)
           k0 == AERT!Part(t.pfx, t.ofs + m, 2)
           k1 == AERT!Part(c.key, t.ofs + m, 2)
           nodes == <<o, l, f>>
           idx == AERT!FirstIn(f.chs, a)
           y == [c EXCEPT !.cur = Fresh(h, v, 3), !.op = "FORK"]
           d == [y EXCEPT !.idx = idx]
           g == Alloc(h, v, nodes)
<1>1. AERT!UpdateCow(h, c) = Result(g, d)
  <2>1. AERT!UpdateCow(h, c) = [Result(g, y) EXCEPT !.ctx.idx = idx]
    BY AertHeap DEF AERT!UpdateCow
  <2> HIDE DEF g, y, idx
  <2> QED
    BY <2>1, ResultFields
<1>2. AertOfPast(h, c, t)
  BY AertPast
<1>3. /\ Nodes(h, {Nil}) /\ AllFit(h) /\ Numbered(h, v) /\ v \in Nat \ {0} /\ IsContext(c)
      /\ structure \notin BTrees /\ structure # "art" /\ c.key \in Nat
  BY DEF AertReady, BTrees, IsContext
<1>4. m \in Nat /\ m % 2 = 0 /\ m + 2 <= t.len
  BY <1>2, AertPrefix DEF AertOfPast
<1>5. /\ {"type", "keys", "chs", "ofs", "len", "pfx", "emb"} \subseteq DOMAIN t
      /\ t.ofs \in Nat /\ t.len \in Nat /\ t.pfx \in Nat /\ t.len % 2 = 0 /\ t.keys \in Seq(Nat)
      /\ t.ofs = c.ofs + Len(c.emb) /\ AertFits(h, t) /\ c.past \in DOMAIN h
      /\ c.emb \in Seq(Nat) /\ Len(c.emb) <= c.ofs % 2
      /\ t.ofs % 2 = 0 /\ t.ofs + t.len <= AertDigits
  <2>1. t.ofs % 2 = 0
    <3>1. t.type # "LEAF" /\ t.ofs % 2 = 1 => t.len = 0
      BY <1>2 DEF AertOfPast
    <3>2. t.type = "LEAF" => t.ofs % 2 = 0
      BY <1>2 DEF AertOfPast
    <3>3. t.len \in Nat /\ t.ofs \in Nat
      BY <1>2 DEF AertOfPast
    <3>4. t.len # 0
      BY <1>4, <3>3
    <3> HIDE DEF t
    <3> QED
      BY <3>1, <3>2, <3>3, <3>4
  <2>2. t.ofs + t.len <= AertDigits
    <3>1. /\ t.ofs \in Nat /\ t.len \in Nat /\ AERT!KeyLen(t.type) \in {1, 2}
          /\ t.type = "LEAF" => t.ofs + t.len = AertDigits
          /\ t.type # "LEAF" => t.ofs + t.len + AERT!KeyLen(t.type) <= AertDigits
      BY <1>2 DEF AertOfPast
    <3> HIDE DEF t
    <3> QED
      BY <3>1, DigitsEven
  <2> QED
    BY <1>2, <2>1, <2>2 DEF AertOfPast
<1>6. o = [[t EXCEPT !.ofs = t.ofs + m + 2, !.len = t.len - m - 2] EXCEPT !.chs = <<>>, !.emb = <<>>]
  BY DEF AERT!ForkOld
<1> HIDE DEF t, m, u, o
<1>7. /\ DOMAIN o = DOMAIN t /\ o.type = t.type /\ o.keys = t.keys /\ o.pfx = t.pfx
      /\ o.ofs = t.ofs + m + 2 /\ o.len = t.len - m - 2 /\ o.chs = <<>> /\ o.emb = <<>>
  BY <1>5, <1>6
<1>8. /\ t.ofs + m + 2 \in 0..AertDigits /\ (t.ofs + m + 2) % 2 = 0
      /\ t.ofs + m \in Nat /\ t.ofs + m + 2 <= AertDigits
      /\ t.len - m - 2 \in Nat /\ (t.len - m - 2) % 2 = 0
      /\ t.ofs + m + 2 + (t.len - m - 2) = t.ofs + t.len
  <2>1. /\ t.ofs \in Nat /\ t.len \in Nat /\ m \in Nat /\ t.ofs % 2 = 0 /\ t.len % 2 = 0 /\ m % 2 = 0
        /\ m + 2 <= t.len /\ t.ofs + t.len <= AertDigits
    BY <1>4, <1>5
  <2> QED
    BY <2>1, ForkNumbers
<1>9. /\ o.ofs \in Nat /\ o.len \in Nat /\ o.len % 2 = 0 /\ o.ofs % 2 = 0
      /\ o.ofs + o.len = t.ofs + t.len
  BY <1>7, <1>8, DigitsEven
<1>10. Childless(o)
  <2>1. o.emb \in Seq(Seq(Nat)) /\ Len(o.emb) = Len(o.chs) /\ DOMAIN o.chs = {}
    BY <1>7, EmptyIs
  <2>2. Below(o) = Below(t)
    <3>1. AERT!KeyLen(o.type) = AERT!KeyLen(t.type)
      BY <1>7
    <3> QED
      BY <1>9, <3>1 DEF Below
  <2>3. \A g1 : Fits(g1, o)
    <3>1. IF t.type = "LEAF" THEN t.ofs + t.len = AertDigits
          ELSE /\ Below(t) <= AertDigits
               /\ AERT!KeyLen(t.type) = 2 => \A i \in DOMAIN t.keys : t.keys[i] < AertRadix * AertRadix
      BY <1>5 DEF AertFits
    <3> HIDE DEF Below
    <3> QED
      BY <1>3, <1>5, <1>7, <1>9, <2>1, <2>2, <3>1 DEF Fits, AertFits
  <2>4. \A S : IsNode(o, S)
    BY <1>5, <1>7, EmptyIs DEF IsNode
  <2> QED
    BY <2>3, <2>4 DEF Childless
<1>11. Childless(l) /\ l.ofs = t.ofs + m + 2
  <2>1. l = AERT!Leaf(t.ofs + m + 2, c.key, v)
    BY DEF AERT!ForkLeaf, m
  <2> DEFINE at == t.ofs + m + 2
  <2>2. at \in 0..AertDigits /\ at \in Nat /\ at % 2 = 0 /\ c.key \in Nat
    BY <1>3, <1>8
  <2> HIDE DEF at
  <2>3. Childless(AERT!Leaf(at, c.key, v)) /\ AERT!Leaf(at, c.key, v).ofs = at + (at % 2)
    BY <2>2, AertLeafNode
  <2>4. at + (at % 2) = at
    BY <2>2, EvenStays
  <2> QED
    BY <2>1, <2>3, <2>4 DEF at
<1>12. k0 \in Nat /\ k1 \in Nat /\ k0 < AertRadix * AertRadix /\ k1 < AertRadix * AertRadix
  <2> DEFINE pos == t.ofs + m
  <2>1. pos \in Nat /\ 2 \in {1, 2} /\ pos + 2 <= AertDigits
    BY <1>8
  <2>2. k0 = AERT!Part(t.pfx, pos, 2) /\ k1 = AERT!Part(c.key, pos, 2)
    OBVIOUS
  <2> HIDE DEF pos
  <2> QED
    BY <1>3, <1>5, <2>1, <2>2, AertPart
<1>13. IsPair(f, "NODE4", k0, k1, a, b, t.ofs, m)
  BY <1>3, <1>12, AertPair DEF AERT!ForkNode, m
<1>14. DOMAIN nodes = 1..3 /\ nodes[1] = o /\ nodes[2] = l /\ nodes[3] = f
  OBVIOUS
<1>15. /\ IsContext(d) /\ d.sno = v /\ d.ran = c.ran /\ d.root = c.root /\ d.past = c.past
       /\ d.cur = Fresh(h, v, 3) /\ d.op = "FORK" /\ d.emb = c.emb /\ d.idx = idx
  BY <1>3 DEF IsContext
<1>16. f.chs[idx] = a
  <2>1. Len(f.chs) = 2 /\ 2 \in Nat /\ \E i \in 1..2 : f.chs[i] = a
    BY <1>13 DEF IsPair
  <2> HIDE DEF f, a
  <2> QED
    BY <2>1, AertFirstIn
<1> HIDE DEF l, f, nodes, k0, k1, d, idx, a, b
<1>17. \A i \in 1..3 : IsNode(nodes[i], Upto(h, v) \union {Fresh(h, v, j) : j \in 1..3} \union {Nil})
  <2> DEFINE S == Upto(h, v) \union {Fresh(h, v, j) : j \in 1..3} \union {Nil}
  <2>1. a \in S /\ b \in S
    BY DEF a, b
  <2> HIDE DEF S
  <2>2. IsNode(o, S) /\ IsNode(l, S)
    BY <1>10, <1>11 DEF Childless
  <2>3. IsNode(f, S)
    <3>1. {a, b} \subseteq S
      BY <2>1
    <3>2. f.chs \in Seq(S)
      BY <1>13, <3>1, SeqMonotonic DEF IsPair
    <3> QED
      BY <1>13, <3>2 DEF IsNode, IsPair
  <2>4. \A i \in 1..3 : i = 1 \/ i = 2 \/ i = 3
    OBVIOUS
  <2> QED
    BY <1>14, <2>2, <2>3, <2>4 DEF S
<1>18. ASSUME Extends(h, v, 3, nodes, g)
       PROVE  \A i \in 1..3 : Fits(g, nodes[i])
  <2>1. g[a] = o /\ g[b] = l
    BY <1>14, <1>18 DEF Extends, a, b
  <2> HIDE DEF g
  <2>2. Fits(g, f)
    <3>1. AERT!KeyLen("NODE4") = 2
      BY DEF AERT!KeyLen
    <3>2. g[a].ofs = t.ofs + m + 2 /\ g[b].ofs = t.ofs + m + 2 /\ t.ofs + m + 2 <= AertDigits
      BY <1>7, <1>8, <1>11, <2>1
    <3>3. t.ofs % 2 # 1
      BY <1>5
    <3> QED
      BY <1>4, <1>5, <1>12, <1>13, <3>1, <3>2, <3>3, PairFits
  <2>3. \A i \in 1..3 : i = 1 \/ i = 2 \/ i = 3
    OBVIOUS
  <2> QED
    BY <1>10, <1>11, <1>14, <2>2, <2>3 DEF Childless
<1> HIDE DEF v
<1>19. Replaced(h, c, Result(g, d)) /\ Extends(h, v, 3, nodes, g)
  <2>1. 3 \in Nat \ {0}
    OBVIOUS
  <2> QED
    BY <1>3, <1>14, <1>15, <1>17, <1>18, <2>1, NodesReplace DEF v
<1> HIDE DEF g
<1>20. /\ g[d.cur] = f /\ g[d.past] = t /\ g[a] = o /\ a \in OwnNodes(g, v)
  <2>1. g[Fresh(h, v, 3)] = f /\ g[a] = o /\ a \in OwnNodes(g, v)
    BY <1>14, <1>19 DEF Extends, a, OwnNodes
  <2> QED
    BY <1>5, <1>15, <1>19, <2>1 DEF Extends, t
<1>21. AertTask(g, d)
  <2>1. ForkWaits(g, d)
    BY <1>7, <1>9, <1>15, <1>16, <1>20 DEF ForkWaits
  <2> QED
    BY <1>5, <1>15, <2>1 DEF AertTask
<1>22. AertMade(h, c, Result(g, d))
  <2> DEFINE r == Result(g, d)
  <2>1. r.heap = g /\ r.ctx = d /\ Replaced(h, c, r)
    BY <1>19, ResultFields
  <2>2. g[d.cur].ofs = c.ofs + Len(d.emb)
    BY <1>5, <1>13, <1>15, <1>20 DEF IsPair
  <2> HIDE DEF r
  <2>3. AertMade(h, c, r)
    BY <1>5, <1>15, <1>21, <2>1, <2>2 DEF AertMade
  <2> QED
    BY <2>3 DEF r
<1> QED
  BY <1>1, <1>22 DEF g, v

\* The leaf has the key.
LEMMA AertUpdateLeaf ==
  ASSUME structure = "aert", NEW h, NEW c, AertReady(h, c), c.past # Nil,
         AERT!EmbMatches(c.emb, h[c.past].ofs, c.key), AERT!Matches(h[c.past], c.key),
         h[c.past].type = "LEAF"
  PROVE  AertMade(h, c, AERT!UpdateCow(h, c))
<1> DEFINE p == h[c.past]
           t == [p EXCEPT !.val = c.sno]
           d == [c EXCEPT !.cur = Fresh(h, c.sno, 1), !.op = "DONE"]
           g == Alloc(h, c.sno, <<t>>)
<1>1. AERT!UpdateCow(h, c) = Result(g, d)
  BY AertHeap DEF AERT!UpdateCow
<1>2. AertOfPast(h, c, p)
  BY AertPast
<1>3. Childless(t) /\ t.ofs = c.ofs + Len(c.emb)
  <2> HIDE DEF p
  <2>1. p.type = "LEAF" /\ structure # "art"
    BY DEF p
  <2>2. /\ t.type = p.type /\ t.keys = p.keys /\ t.chs = <<>> /\ t.ofs = p.ofs /\ t.emb = <<>>
        /\ t.len = p.len /\ t.pfx = p.pfx /\ DOMAIN t = DOMAIN p
    BY <1>2, <2>1 DEF AertOfPast
  <2>3. t.emb \in Seq(Seq(Nat)) /\ Len(t.emb) = Len(t.chs)
    BY <2>2, EmptyIs
  <2> HIDE DEF t
  <2> QED
    BY <1>2, <2>1, <2>2, <2>3, EmptyIs DEF IsNode, Fits, AertFits, Childless, AertOfPast
<1>4. /\ IsContext(d) /\ d.sno = c.sno /\ d.ran = c.ran /\ d.root = c.root /\ d.past = c.past
      /\ d.cur = Fresh(h, c.sno, 1) /\ d.op = "DONE" /\ d.emb = c.emb
  BY DEF AertReady, IsContext
<1> HIDE DEF t, d
<1>5. Replaced(h, c, Result(g, d)) /\ g[d.cur] = t
  <2>1. /\ structure \notin BTrees /\ Nodes(h, {Nil}) /\ AllFit(h) /\ Numbered(h, c.sno)
        /\ c.sno \in Nat /\ Childless(t)
    BY <1>3 DEF AertReady, BTrees
  <2> QED
    BY <1>4, <2>1, NodeReplaces
<1> HIDE DEF g
<1>6. AertMade(h, c, Result(g, d))
  <2> DEFINE r == Result(g, d)
  <2>1. r.heap = g /\ r.ctx = d /\ Replaced(h, c, r)
    BY <1>5, ResultFields
  <2> HIDE DEF r
  <2>2. AertMade(h, c, r)
    BY <1>2, <1>3, <1>4, <1>5, <2>1 DEF AertMade, AertOfPast
  <2> QED
    BY <2>2 DEF r
<1> QED
  BY <1>1, <1>6

\* The copy n of past, as it is or with one more key.
AertKey(c, t) == AERT!Part(c.key, t.ofs + t.len, AERT!KeyLen(t.type))
AertCopy(h, c, n, op) ==
    LET t == h[c.past] IN
    /\ op \in {"SEARCH", "INSERT"} /\ t.type # "LEAF"
    /\ DOMAIN n = DOMAIN t /\ n.keys \in Seq(Nat) /\ n.chs = <<>> /\ n.emb = <<>> /\ n.type # "LEAF"
    /\ AERT!KeyLen(n.type) = AERT!KeyLen(t.type)
    /\ AERT!KeyLen(n.type) = 2 => \A i \in DOMAIN n.keys : n.keys[i] < AertRadix * AertRadix
    /\ n.ofs = t.ofs /\ n.len = t.len /\ n.pfx = t.pfx
    /\ \E i \in 1..Len(n.keys) : n.keys[i] = AertKey(c, t)
    /\ op = "SEARCH" => Len(n.keys) <= Len(t.keys)
    /\ op = "INSERT" /\ n.type # "NODEH16" => Len(n.keys) <= Len(t.keys) + 1

AertDownContext(h, c, n, op) ==
    [c EXCEPT !.cur = Fresh(h, c.sno, 1), !.op = op, !.ofs = Below(h[c.past]),
              !.idx = AERT!FindIdx(n, AertKey(c, h[c.past]))]

\* It takes the place of past, and the task goes on below.
LEMMA AertDown ==
  ASSUME structure = "aert", NEW h, NEW c, AertReady(h, c), c.past # Nil,
         NEW n, NEW op, AertCopy(h, c, n, op)
  PROVE  AertMade(h, c, Result(Alloc(h, c.sno, <<n>>), AertDownContext(h, c, n, op)))
<1> DEFINE t == h[c.past]
           k == AertKey(c, t)
           idx == AERT!FindIdx(n, k)
           d == AertDownContext(h, c, n, op)
           g == Alloc(h, c.sno, <<n>>)
<1>1. AertOfPast(h, c, t)
  BY AertPast
<1>2. /\ op \in {"SEARCH", "INSERT"} /\ t.type # "LEAF"
      /\ DOMAIN n = DOMAIN t /\ n.keys \in Seq(Nat) /\ n.chs = <<>> /\ n.emb = <<>> /\ n.type # "LEAF"
      /\ AERT!KeyLen(n.type) = AERT!KeyLen(t.type)
      /\ AERT!KeyLen(n.type) = 2 => \A i \in DOMAIN n.keys : n.keys[i] < AertRadix * AertRadix
      /\ n.ofs = t.ofs /\ n.len = t.len /\ n.pfx = t.pfx
      /\ \E i \in 1..Len(n.keys) : n.keys[i] = k
      /\ op = "SEARCH" => Len(n.keys) <= Len(t.keys)
      /\ op = "INSERT" /\ n.type # "NODEH16" => Len(n.keys) <= Len(t.keys) + 1
  BY DEF AertCopy
<1>3. Below(n) = Below(t)
  BY <1>2 DEF Below
<1>4. Childless(n)
  <2>1. n.emb \in Seq(Seq(Nat)) /\ Len(n.emb) = Len(n.chs) /\ DOMAIN n.chs = {} /\ structure # "art"
    BY <1>2, EmptyIs
  <2> HIDE DEF t, Below, k
  <2>2. \A g1 : Fits(g1, n)
    BY <1>1, <1>2, <1>3, <2>1 DEF Fits, AertFits, AertOfPast
  <2>3. \A S : IsNode(n, S)
    BY <1>1, <1>2, EmptyIs DEF IsNode, AertOfPast
  <2> QED
    BY <2>2, <2>3 DEF Childless
<1>5. idx \in 1..Len(n.keys)
  <2> HIDE DEF k
  <2> QED
    BY <1>2, AertFindIdx
<1>6. /\ IsContext(d) /\ d.sno = c.sno /\ d.ran = c.ran /\ d.root = c.root /\ d.past = c.past
      /\ d.cur = Fresh(h, c.sno, 1) /\ d.op = op /\ d.ofs = Below(t) /\ d.idx = idx /\ d.emb = c.emb
  BY DEF AertReady, IsContext, AertDownContext
<1> HIDE DEF d, idx, k
<1>7. Replaced(h, c, Result(g, d)) /\ g[d.cur] = n /\ \A id \in DOMAIN h : g[id] = h[id]
  <2>1. /\ structure \notin BTrees /\ Nodes(h, {Nil}) /\ AllFit(h) /\ Numbered(h, c.sno)
        /\ c.sno \in Nat /\ Childless(n)
    BY <1>4 DEF AertReady, BTrees
  <2> HIDE DEF t
  <2> QED
    BY <1>6, <2>1, NodeReplaces
<1> HIDE DEF g
<1>8. g[d.past] = t
  BY <1>1, <1>6, <1>7 DEF AertOfPast
<1> HIDE DEF t, Below
<1>9. AertTask(g, d)
  <2>1. c.emb \in Seq(Nat)
    BY <1>1 DEF AertOfPast
  <2> QED
    BY <1>2, <1>3, <1>5, <1>6, <1>7, <1>8, <2>1 DEF AertTask
<1>10. AertMade(h, c, Result(g, d))
  <2> DEFINE r == Result(g, d)
  <2>1. r.heap = g /\ r.ctx = d /\ Replaced(h, c, r)
    BY <1>7, ResultFields
  <2>2. g[d.cur].ofs = c.ofs + Len(d.emb) /\ d.emb \in Seq(Nat) /\ Len(d.emb) <= c.ofs % 2
    BY <1>1, <1>2, <1>6, <1>7 DEF AertOfPast
  <2>3. d.op \in {"SEARCH", "INSERT", "FORK", "SPLIT"}
    BY <1>2, <1>6
  <2> HIDE DEF r
  <2>4. AertMade(h, c, r)
    BY <1>9, <2>1, <2>2, <2>3 DEF AertMade
  <2> QED
    BY <2>4 DEF r
<1> QED
  BY <1>10 DEF g, d

\* AppendKey of a node with children.
AertMore(t, k, n) ==
    /\ DOMAIN n = DOMAIN t /\ n.chs = <<>> /\ n.emb = <<>> /\ n.type # "LEAF"
    /\ AERT!KeyLen(n.type) = AERT!KeyLen(t.type)
    /\ n.ofs = t.ofs /\ n.len = t.len /\ n.pfx = t.pfx
    /\ n.keys \in Seq(Nat) /\ \E i \in 1..Len(n.keys) : n.keys[i] = k
    /\ n.type # "NODEH16" => /\ Len(n.keys) <= Len(t.keys) + 1
                             /\ \A i \in DOMAIN n.keys : n.keys[i] \in ToSet(t.keys) \union {k}

LEMMA AertAppendKey ==
  ASSUME NEW t, {"type", "keys", "chs", "ofs", "len", "pfx", "emb"} \subseteq DOMAIN t,
         t.keys \in Seq(Nat), t.type # "LEAF", NEW k \in Nat,
         AERT!KeyLen(t.type) = 1 => k < AertRadix
  PROVE  AertMore(t, k, AERT!AppendKey(t, k))
<1> DEFINE type == CASE ~AERT!IsFull(t) -> t.type
                     [] AERT!IsFull(t) /\ t.type = "NODE4" -> "NODE16"
                     [] OTHER -> "NODEH16"
           S == ToSet(t.keys) \union {k}
           ks == IF type = "NODEH16" THEN AERT!HalfDigits ELSE InOrder(S)
           n == AERT!AppendKey(t, k)
<1>1. n = [t EXCEPT !.type = type, !.chs = <<>>, !.emb = <<>>, !.keys = ks]
  BY AertHeap DEF AERT!AppendKey
<1>2. /\ type # "LEAF" /\ AERT!KeyLen(type) = AERT!KeyLen(t.type)
      /\ type = "NODEH16" => AERT!KeyLen(t.type) = 1
  <2>1. CASE ~AERT!IsFull(t)
    BY <2>1 DEF AERT!KeyLen
  <2>2. CASE AERT!IsFull(t) /\ t.type = "NODE4"
    BY <2>2 DEF AERT!KeyLen
  <2>3. CASE AERT!IsFull(t) /\ t.type # "NODE4"
    <3>1. t.type = "NODEH4"
      BY <2>3 DEF AERT!IsFull
    <3>2. type = "NODEH16"
      BY <2>3, <3>1
    <3> QED
      BY <3>1, <3>2 DEF AERT!KeyLen
  <2> QED
    BY <2>1, <2>2, <2>3
<1> HIDE DEF type
<1>3. /\ ks \in Seq(Nat) /\ \E i \in 1..Len(ks) : ks[i] = k
      /\ type # "NODEH16" => Len(ks) <= Len(t.keys) + 1 /\ \A i \in DOMAIN ks : ks[i] \in S
  <2>1. CASE type = "NODEH16"
    <3>1. k \in 0..(AertRadix - 1)
      BY <1>2, <2>1, DigitsEven
    <3> QED
      BY <2>1, <3>1, HalfDigitsListed
  <2>2. CASE type # "NODEH16"
    <3>1. /\ ToSet(t.keys) \in SUBSET Nat /\ IsFiniteSet(ToSet(t.keys))
          /\ Cardinality(ToSet(t.keys)) <= Len(t.keys) /\ Len(t.keys) \in Nat
      BY SetOfSeq
    <3>2. S \in SUBSET Nat
      BY <3>1
    <3>3. IsFiniteSet(S) /\ Cardinality(S) <= Len(t.keys) + 1
      <4>1. Cardinality(ToSet(t.keys)) \in Nat
        BY <3>1, FS_CardinalityType
      <4>2. IsFiniteSet(S) /\ Cardinality(S) = IF k \in ToSet(t.keys) THEN Cardinality(ToSet(t.keys))
                                              ELSE Cardinality(ToSet(t.keys)) + 1
        BY <3>1, FS_AddElement
      <4> QED
        BY <3>1, <4>1, <4>2
    <3>4. k \in S
      OBVIOUS
    <3> HIDE DEF S
    <3>5. Lists(InOrder(S), S)
      BY <3>2, <3>3, InOrderLists
    <3>6. ks = InOrder(S)
      BY <2>2
    <3> HIDE DEF ks
    <3>7. ks \in Seq(S) /\ Len(ks) = Cardinality(S) /\ \E i \in 1..Len(ks) : ks[i] = k
      BY <3>4, <3>5, <3>6 DEF Lists
    <3>8. ks \in Seq(Nat) /\ \A i \in DOMAIN ks : ks[i] \in S
      BY <3>2, <3>7, SeqMonotonic, LenProperties
    <3> QED
      BY <3>3, <3>7, <3>8
  <2> QED
    BY <2>1, <2>2
<1> HIDE DEF ks
<1>4. /\ DOMAIN n = DOMAIN t /\ n.keys = ks /\ n.chs = <<>> /\ n.emb = <<>> /\ n.type = type
      /\ n.ofs = t.ofs /\ n.len = t.len /\ n.pfx = t.pfx
  BY <1>1
<1> HIDE DEF n
<1> QED
  BY <1>2, <1>3, <1>4 DEF AertMore, n

\* The key that a task looks for in past.
LEMMA AertKeyOf ==
  ASSUME structure = "aert", NEW h, NEW c, AertReady(h, c), c.past # Nil, h[c.past].type # "LEAF"
  PROVE  LET t == h[c.past]  k == AertKey(c, t) IN
         /\ k \in Nat /\ (AERT!KeyLen(t.type) = 1 => k < AertRadix)
         /\ AERT!KeyLen(t.type) = 2 => k < AertRadix * AertRadix
         /\ AERT!Part(c.key, c.ofs + Len(c.emb) + t.len, AERT!KeyLen(t.type)) = k
         /\ c.ofs + Len(c.emb) + t.len + AERT!KeyLen(t.type) = Below(t)
<1> DEFINE t == h[c.past]
           n == AERT!KeyLen(t.type)
           pos == t.ofs + t.len
<1>1. AertOfPast(h, c, t) /\ c.key \in Nat
  BY AertPast DEF AertReady, IsContext
<1> HIDE DEF t
<1>2. /\ pos \in Nat /\ n \in {1, 2} /\ pos + n <= AertDigits /\ Below(t) = pos + n
      /\ c.ofs + Len(c.emb) + t.len = pos
  BY <1>1 DEF AertOfPast, t
<1>3. AertKey(c, t) = AERT!Part(c.key, pos, n)
  BY DEF AertKey
<1> HIDE DEF n, pos
<1>4. /\ AERT!Part(c.key, pos, n) \in Nat
      /\ n = 1 => AERT!Part(c.key, pos, n) < AertRadix
      /\ n = 2 => AERT!Part(c.key, pos, n) < AertRadix * AertRadix
  BY <1>1, <1>2, AertPart
<1> QED
  BY <1>2, <1>3, <1>4 DEF t, n

\* UpdateCow once the keys match down to the node.
AertMatched(h, c, k) ==
    LET t == h[c.past] IN
    /\ c.past # Nil /\ AERT!EmbMatches(c.emb, t.ofs, c.key) /\ AERT!Matches(t, c.key)
    /\ t.type # "LEAF" /\ k = AERT!Part(c.key, c.ofs + Len(c.emb) + t.len, AERT!KeyLen(t.type))
AertWent(h, c, n, op, k) ==
    LET t == h[c.past] IN
    Moved(Result(Alloc(h, c.sno, <<n>>), [c EXCEPT !.cur = Fresh(h, c.sno, 1), !.op = op]),
          c.ofs + Len(c.emb) + t.len + AERT!KeyLen(t.type), AERT!FindIdx(n, k))

LEMMA AertUpdateSearch ==
  ASSUME NEW h, NEW c, NEW k, AertMatched(h, c, k), AERT!FindIdx(h[c.past], k) # 0
  PROVE  AERT!UpdateCow(h, c) = AertWent(h, c, [h[c.past] EXCEPT !.chs = <<>>, !.emb = <<>>], "SEARCH", k)
BY AertHeap DEF AERT!UpdateCow, AertMatched, AertWent, Moved

LEMMA AertUpdateInsert ==
  ASSUME NEW h, NEW c, NEW k, AertMatched(h, c, k), AERT!FindIdx(h[c.past], k) = 0,
         ~(h[c.past].type = "NODE16" /\ Len(h[c.past].keys) = AertRadix)
  PROVE  AERT!UpdateCow(h, c) = AertWent(h, c, AERT!AppendKey(h[c.past], k), "INSERT", k)
BY AertHeap DEF AERT!UpdateCow, AertMatched, AertWent, Moved

\* The node has the key, or gets it.
LEMMA AertGoesDown ==
  ASSUME structure = "aert", NEW h, NEW c, AertReady(h, c), c.past # Nil,
         AERT!EmbMatches(c.emb, h[c.past].ofs, c.key), AERT!Matches(h[c.past], c.key),
         h[c.past].type # "LEAF",
         ~(h[c.past].type = "NODE16" /\ AERT!FindIdx(h[c.past], AertKey(c, h[c.past])) = 0
           /\ Len(h[c.past].keys) = AertRadix)
  PROVE  AertMade(h, c, AERT!UpdateCow(h, c))
<1> DEFINE t == h[c.past]
           k == AertKey(c, t)
           i == AERT!FindIdx(t, k)
           s == [t EXCEPT !.chs = <<>>, !.emb = <<>>]
           n == IF i # 0 THEN s ELSE AERT!AppendKey(t, k)
           op == IF i # 0 THEN "SEARCH" ELSE "INSERT"
           y == [c EXCEPT !.cur = Fresh(h, c.sno, 1), !.op = op]
           d == AertDownContext(h, c, n, op)
           g == Alloc(h, c.sno, <<n>>)
           at == c.ofs + Len(c.emb) + t.len
<1>1. /\ k \in Nat /\ (AERT!KeyLen(t.type) = 1 => k < AertRadix)
      /\ AERT!KeyLen(t.type) = 2 => k < AertRadix * AertRadix
      /\ AERT!Part(c.key, at, AERT!KeyLen(t.type)) = k
      /\ at + AERT!KeyLen(t.type) = Below(t)
  BY AertKeyOf
<1>2. AertOfPast(h, c, t)
  BY AertPast
<1>3. AERT!UpdateCow(h, c) = Result(g, d)
  <2>1. AertMatched(h, c, k)
    <3> HIDE DEF k
    <3> QED
      BY <1>1 DEF AertMatched
  <2>2. AERT!UpdateCow(h, c) = AertWent(h, c, n, op, k)
    <3>1. CASE i # 0
      <4>1. n = s /\ op = "SEARCH"
        BY <3>1
      <4> HIDE DEF k, n, op
      <4> QED
        BY <2>1, <3>1, <4>1, AertUpdateSearch
    <3>2. CASE i = 0
      <4>1. /\ n = AERT!AppendKey(t, k) /\ op = "INSERT"
            /\ ~(t.type = "NODE16" /\ Len(t.keys) = AertRadix)
        BY <3>2
      <4> HIDE DEF k, n, op
      <4> QED
        BY <2>1, <3>2, <4>1, AertUpdateInsert
    <3> QED
      BY <3>1, <3>2
  <2>3. AertWent(h, c, n, op, k) = Moved(Result(g, y), Below(t), AERT!FindIdx(n, k))
    BY <1>1 DEF AertWent
  <2>4. d = Onward(y, Below(t), AERT!FindIdx(n, k))
    BY DEF AertDownContext, Onward
  <2> HIDE DEF g, y, d, n, k, at, t, op
  <2> QED
    BY <2>2, <2>3, <2>4, ResultDown
<1>4. AertCopy(h, c, n, op)
  <2>1. CASE i # 0
    <3>1. n = s /\ op = "SEARCH"
      BY <2>1
    <3>2. i \in 1..Len(t.keys) /\ t.keys[i] = k
      <4>1. t.keys \in Seq(Nat)
        BY <1>2 DEF AertOfPast
      <4> HIDE DEF k
      <4> QED
        BY <2>1, <4>1, AertFindIdx
    <3>3. Len(t.keys) \in Nat
      BY <1>2, LenProperties DEF AertOfPast
    <3>4. /\ DOMAIN s = DOMAIN t /\ s.keys = t.keys /\ s.chs = <<>> /\ s.emb = <<>> /\ s.type = t.type
          /\ s.ofs = t.ofs /\ s.len = t.len /\ s.pfx = t.pfx
      BY <1>2 DEF AertOfPast
    <3> HIDE DEF n, op, i, s, k
    <3>5. \E j \in 1..Len(s.keys) : s.keys[j] = k
      BY <3>2, <3>4
    <3> QED
      BY <1>2, <3>1, <3>3, <3>4, <3>5 DEF AertCopy, AertOfPast, k
  <2>2. CASE i = 0
    <3>1. n = AERT!AppendKey(t, k) /\ op = "INSERT"
      BY <2>2
    <3>2. AertMore(t, k, AERT!AppendKey(t, k))
      <4>1. {"type", "keys", "chs", "ofs", "len", "pfx", "emb"} \subseteq DOMAIN t /\ t.keys \in Seq(Nat)
        BY <1>2 DEF AertOfPast
      <4> HIDE DEF k
      <4> QED
        BY <1>1, <4>1, AertAppendKey
    <3> HIDE DEF n, op, i
    <3>3. AERT!KeyLen(n.type) = 2 => \A j \in DOMAIN n.keys : n.keys[j] < AertRadix * AertRadix
      <4>1. SUFFICES ASSUME AERT!KeyLen(n.type) = 2, NEW j \in DOMAIN n.keys
                     PROVE  n.keys[j] < AertRadix * AertRadix
        OBVIOUS
      <4>2. n.type # "NODEH16" /\ AERT!KeyLen(t.type) = 2
        BY <3>1, <3>2, <4>1 DEF AertMore, AERT!KeyLen
      <4>3. n.keys[j] \in ToSet(t.keys) \union {k}
        BY <3>1, <3>2, <4>2 DEF AertMore
      <4>4. ASSUME NEW x \in ToSet(t.keys) PROVE x < AertRadix * AertRadix
        <5>1. \E z \in DOMAIN t.keys : t.keys[z] = x
          BY DEF ToSet
        <5>2. \A z \in DOMAIN t.keys : t.keys[z] < AertRadix * AertRadix
          BY <1>2, <4>2 DEF AertOfPast
        <5> QED
          BY <5>1, <5>2
      <4> QED
        BY <1>1, <4>2, <4>3, <4>4
    <3> QED
      BY <3>1, <3>2, <3>3 DEF AertCopy, AertMore
  <2> QED
    BY <2>1, <2>2
<1> HIDE DEF n, op
<1> QED
  BY <1>3, <1>4, AertDown

-------------------------------------------------------------------------------
(* The halves of a node that is split *)

\* Two half digits make a digit.
LEMMA HalvesOf ==
  ASSUME NEW x \in Nat, NEW R \in Nat \ {0}, x < R * R
  PROVE  /\ x \div R \in 0..(R - 1) /\ (x % R) \in 0..(R - 1)
         /\ (x \div R) * R + (x % R) = x
<1> DEFINE q == x \div R
           m == x % R
<1>1. q \in Nat /\ m \in 0..(R - 1) /\ q * R + m = x
  OBVIOUS
<1> HIDE DEF q, m
<1>2. q < R
  <2>1. SUFFICES ASSUME q >= R PROVE FALSE
    BY <1>1
  <2>2. q * R >= R * R
    BY <1>1, <2>1
  <2> QED
    BY <1>1, <2>2
<1> QED
  BY <1>1, <1>2 DEF q, m

LEMMA HalfKeysListed ==
  ASSUME NEW S \in SUBSET (0..(AertRadix - 1)), NEW n
  PROVE  LET ks == AERT!HalfKeys(n, S) IN
         /\ ks \in Seq(Nat) /\ Len(ks) \in Nat /\ DOMAIN ks = 1..Len(ks)
         /\ \A f \in S : \E i \in 1..Len(ks) : ks[i] = f
<1> DEFINE ks == AERT!HalfKeys(n, S)
<1>1. ks \in Seq(Nat) /\ \A f \in S : \E i \in 1..Len(ks) : ks[i] = f
  <2>1. CASE n > AertSmall
    <3>1. ks = AERT!HalfDigits
      BY <2>1 DEF AERT!HalfKeys
    <3> QED
      BY <3>1, HalfDigitsListed
  <2>2. CASE ~(n > AertSmall)
    <3>1. ks = InOrder(S)
      BY <2>2, AertHeap DEF AERT!HalfKeys
    <3>2. S \in SUBSET Nat /\ IsFiniteSet(S)
      <4> DEFINE T == 0..(AertRadix - 1)
      <4>1. IsFiniteSet(T)
        <5>1. 0 \in Int /\ AertRadix - 1 \in Int
          BY DigitsEven
        <5> QED
          BY <5>1, FS_Interval
      <4>2. S \in SUBSET T /\ T \in SUBSET Nat
        BY DigitsEven
      <4> HIDE DEF T
      <4> QED
        BY <4>1, <4>2, FS_Subset
    <3>3. Lists(InOrder(S), S)
      BY <3>2, InOrderLists
    <3> HIDE DEF ks
    <3>4. ks \in Seq(S)
      BY <3>1, <3>3 DEF Lists
    <3>5. ks \in Seq(Nat)
      BY <3>2, <3>4, SeqMonotonic
    <3> QED
      BY <3>1, <3>3, <3>5 DEF Lists
  <2> QED
    BY <2>1, <2>2
<1> HIDE DEF ks
<1> QED
  BY <1>1, LenProperties DEF ks

\* A half with the children ch of S, and with bits beside them.
IsHalf(u, n, S, ofs, len, ch, bits) ==
    /\ {"type", "keys", "chs", "ofs", "len", "pfx", "emb"} \subseteq DOMAIN u
    /\ u.type = AERT!HalfType(n) /\ u.keys = AERT!HalfKeys(n, S)
    /\ u.ofs = ofs /\ u.len = len
    /\ u.keys \in Seq(Nat) /\ Len(u.keys) \in Nat
    /\ DOMAIN u.keys = 1..Len(u.keys) /\ DOMAIN u.chs = 1..Len(u.keys) /\ DOMAIN u.emb = 1..Len(u.keys)
    /\ u.chs = [i \in 1..Len(u.keys) |-> IF u.keys[i] \in S THEN ch[u.keys[i]] ELSE Nil]
    /\ u.emb = [i \in 1..Len(u.keys) |-> IF u.keys[i] \in S THEN bits[u.keys[i]] ELSE <<>>]
    /\ \A f \in S : AERT!FindIdx(u, f) \in 1..Len(u.keys) /\ u.keys[AERT!FindIdx(u, f)] = f

LEMMA HalfIs ==
  ASSUME NEW S \in SUBSET (0..(AertRadix - 1)), NEW n, NEW ofs, NEW len, NEW pfx, NEW ch, NEW bits
  PROVE  /\ IsHalf(AERT!Half(n, S, ofs, len, pfx, ch, bits), n, S, ofs, len, ch, bits)
         /\ AERT!Half(n, S, ofs, len, pfx, ch, bits).pfx = pfx
<1> DEFINE u == AERT!Half(n, S, ofs, len, pfx, ch, bits)
           ks == AERT!HalfKeys(n, S)
<1>1. /\ ks \in Seq(Nat) /\ Len(ks) \in Nat /\ DOMAIN ks = 1..Len(ks)
      /\ \A f \in S : \E i \in 1..Len(ks) : ks[i] = f
  BY HalfKeysListed
<1>2. /\ {"type", "keys", "chs", "ofs", "len", "pfx", "emb"} \subseteq DOMAIN u
      /\ u.type = AERT!HalfType(n) /\ u.keys = ks /\ u.ofs = ofs /\ u.len = len /\ u.pfx = pfx
      /\ u.chs = [i \in DOMAIN ks |-> IF ks[i] \in S THEN ch[ks[i]] ELSE Nil]
      /\ u.emb = [i \in DOMAIN ks |-> IF ks[i] \in S THEN bits[ks[i]] ELSE <<>>]
  BY AertHeap DEF AERT!Half, AERT!Node
<1> HIDE DEF u, ks
<1>3. DOMAIN u.chs = 1..Len(ks) /\ DOMAIN u.emb = 1..Len(ks)
  BY <1>1, <1>2
<1>4. ASSUME NEW f \in S
      PROVE  AERT!FindIdx(u, f) \in 1..Len(u.keys) /\ u.keys[AERT!FindIdx(u, f)] = f
  <2>1. u.keys \in Seq(Nat) /\ \E i \in 1..Len(u.keys) : u.keys[i] = f
    BY <1>1, <1>2
  <2> QED
    BY <2>1, AertFindIdx
<1>5. IsHalf(u, n, S, ofs, len, ch, bits)
  BY <1>1, <1>2, <1>3, <1>4 DEF IsHalf, ks
<1> QED
  BY <1>2, <1>5 DEF u

\* It may stand where it does: b is where those below it stand.
HalfStands(u, n, S, ofs, len, ch, bits, b, P, g) ==
    /\ IsHalf(u, n, S, ofs, len, ch, bits) /\ u.pfx \in Nat
    /\ ofs \in Nat /\ len \in Nat /\ len % 2 = 0 /\ (ofs % 2 = 1 => len = 0)
    /\ b = ofs + len + 1 /\ b <= AertDigits
    /\ \A f \in S : /\ ch[f] \in P
                    /\ bits[f] \in Seq(Nat) /\ Len(bits[f]) <= b % 2
                    /\ ch[f] # Nil => g[ch[f]].ofs = b + Len(bits[f])

LEMMA HalfFits ==
  ASSUME structure = "aert", NEW u, NEW S, NEW n, NEW ofs, NEW len, NEW ch, NEW bits, NEW b, NEW P, NEW g,
         HalfStands(u, n, S, ofs, len, ch, bits, b, P, g)
  PROVE  IsNode(u, P \union {Nil}) /\ Fits(g, u) /\ Below(u) = b /\ u.type # "LEAF"
         /\ AERT!KeyLen(u.type) = 1
<1>0. /\ IsHalf(u, n, S, ofs, len, ch, bits) /\ u.pfx \in Nat
      /\ ofs \in Nat /\ len \in Nat /\ len % 2 = 0 /\ (ofs % 2 = 1 => len = 0)
      /\ b = ofs + len + 1 /\ b <= AertDigits
      /\ \A f \in S : /\ ch[f] \in P
                      /\ bits[f] \in Seq(Nat) /\ Len(bits[f]) <= b % 2
                      /\ ch[f] # Nil => g[ch[f]].ofs = b + Len(bits[f])
  BY DEF HalfStands
<1>1. AERT!KeyLen(u.type) = 1 /\ u.type # "LEAF" /\ u.type \notin {"NODE4", "NODE16"}
  BY <1>0 DEF IsHalf, AERT!HalfType, AERT!KeyLen
<1>2. Below(u) = b
  BY <1>0, <1>1 DEF IsHalf, Below
<1> DEFINE m == Len(u.keys)
<1>3. m \in Nat /\ DOMAIN u.chs = 1..m /\ DOMAIN u.emb = 1..m
  BY <1>0 DEF IsHalf
<1>4. \A i \in 1..m : /\ u.chs[i] = IF u.keys[i] \in S THEN ch[u.keys[i]] ELSE Nil
                      /\ u.emb[i] = IF u.keys[i] \in S THEN bits[u.keys[i]] ELSE <<>>
  BY <1>0, <1>3 DEF IsHalf
<1> HIDE DEF m
<1>5. u.chs \in Seq(P \union {Nil}) /\ Len(u.chs) = m
  <2>1. u.chs = [i \in 1..m |-> u.chs[i]]
    BY <1>0, <1>3 DEF IsHalf, m
  <2>2. \A i \in 1..m : u.chs[i] \in P \union {Nil}
    BY <1>0, <1>4
  <2> QED
    BY <1>3, <2>1, <2>2, IsSequence, LenProperties
<1>6. u.emb \in Seq(Seq(Nat)) /\ Len(u.emb) = m
  <2>1. u.emb = [i \in 1..m |-> u.emb[i]]
    BY <1>0, <1>3 DEF IsHalf, m
  <2>2. \A i \in 1..m : u.emb[i] \in Seq(Nat)
    BY <1>0, <1>4, EmptyIs
  <2> QED
    BY <1>3, <2>1, <2>2, IsSequence, LenProperties
<1>7. ASSUME NEW i \in DOMAIN u.chs
      PROVE  Len(u.emb[i]) <= b % 2 /\ (u.chs[i] # Nil => g[u.chs[i]].ofs = b + Len(u.emb[i]))
  <2>1. CASE u.keys[i] \in S
    BY <1>0, <1>3, <1>4, <2>1
  <2>2. CASE u.keys[i] \notin S
    <3>1. u.chs[i] = Nil /\ Len(u.emb[i]) = 0
      BY <1>3, <1>4, <2>2, EmptyIs
    <3>2. b % 2 \in Nat
      BY <1>0
    <3> QED
      BY <3>1, <3>2
  <2> QED
    BY <2>1, <2>2
<1>8. IsNode(u, P \union {Nil})
  BY <1>0, <1>5 DEF IsNode, IsHalf
<1>9. AertFits(g, u)
  <2>1. {"ofs", "len", "pfx", "emb"} \subseteq DOMAIN u /\ u.ofs = ofs /\ u.len = len
    BY <1>0 DEF IsHalf
  <2>2. u.ofs \in Nat /\ u.len \in Nat /\ u.len % 2 = 0 /\ (u.ofs % 2 = 1 => u.len = 0)
    BY <1>0, <2>1
  <2>3. Len(u.emb) = Len(u.chs) /\ u.emb \in Seq(Seq(Nat)) /\ AERT!KeyLen(u.type) # 2
    BY <1>1, <1>5, <1>6
  <2>4. \A i \in DOMAIN u.chs :
          /\ Len(u.emb[i]) <= Below(u) % 2
          /\ u.chs[i] # Nil => g[u.chs[i]].ofs = Below(u) + Len(u.emb[i])
    BY <1>2, <1>7
  <2>5. Below(u) <= AertDigits
    BY <1>0, <1>2
  <2> HIDE DEF Below
  <2> QED
    BY <1>0, <1>1, <2>1, <2>2, <2>3, <2>4, <2>5 DEF AertFits
<1>10. Fits(g, u)
  BY <1>9 DEF Fits
<1> QED
  BY <1>1, <1>2, <1>8, <1>10

\* The two half digits of the keys of a node that is split.
SplitOf(ks) ==
    /\ AERT!Firsts(ks) \in SUBSET (0..(AertRadix - 1))
    /\ AERT!Shared(ks) \in SUBSET AERT!Firsts(ks)
    /\ AERT!Shared(ks) \in SUBSET Nat /\ IsFiniteSet(AERT!Shared(ks))
    /\ \A f \in AERT!Firsts(ks) :
         /\ AERT!Seconds(ks, f) \in SUBSET (0..(AertRadix - 1)) /\ AERT!Seconds(ks, f) # {}
         /\ \A s \in AERT!Seconds(ks, f) : f * AertRadix + s \in ks

LEMMA SplitSets ==
  ASSUME NEW ks \in SUBSET Nat, \A x \in ks : x < AertRadix * AertRadix
  PROVE  SplitOf(ks)
<1> DEFINE R == AertRadix
<1>1. R \in Nat \ {0}
  BY DigitsEven
<1>2. \A x \in ks : /\ x \div R \in 0..(R - 1) /\ (x % R) \in 0..(R - 1)
                    /\ (x \div R) * R + (x % R) = x
  <2> HIDE DEF R
  <2>1. \A x \in ks : x \in Nat /\ x < R * R
    BY DEF R
  <2> QED
    BY <1>1, <2>1, HalvesOf
<1>3. AERT!Firsts(ks) = {x \div R : x \in ks}
  BY DEF AERT!Firsts
<1>4. \A f : AERT!Seconds(ks, f) = {x % R : x \in {z \in ks : z \div R = f}}
  BY DEF AERT!Seconds
<1>5. AERT!Shared(ks) \in SUBSET AERT!Firsts(ks)
  BY DEF AERT!Shared
<1> HIDE DEF R
<1>6. AERT!Firsts(ks) \in SUBSET (0..(R - 1))
  BY <1>2, <1>3
<1>7. ASSUME NEW f \in AERT!Firsts(ks)
      PROVE  /\ AERT!Seconds(ks, f) \in SUBSET (0..(R - 1)) /\ AERT!Seconds(ks, f) # {}
             /\ \A s \in AERT!Seconds(ks, f) : f * R + s \in ks
  <2>1. AERT!Seconds(ks, f) \in SUBSET (0..(R - 1))
    BY <1>2, <1>4
  <2>2. AERT!Seconds(ks, f) # {}
    <3>1. PICK x \in ks : x \div R = f
      BY <1>3
    <3>2. x % R \in AERT!Seconds(ks, f)
      BY <1>4, <3>1
    <3> QED
      BY <3>2
  <2>3. ASSUME NEW s \in AERT!Seconds(ks, f) PROVE f * R + s \in ks
    <3>1. PICK x \in ks : x \div R = f /\ s = x % R
      BY <1>4
    <3> QED
      BY <1>2, <3>1
  <2> QED
    BY <2>1, <2>2, <2>3
<1>8. IsFiniteSet(AERT!Shared(ks)) /\ AERT!Shared(ks) \in SUBSET Nat
  <2> DEFINE T == 0..(R - 1)
  <2>1. IsFiniteSet(T) /\ T \in SUBSET Nat
    <3>1. 0 \in Int /\ R - 1 \in Int
      BY <1>1
    <3> QED
      BY <3>1, FS_Interval
  <2>2. AERT!Shared(ks) \in SUBSET T
    BY <1>5, <1>6
  <2> HIDE DEF T
  <2> QED
    BY <2>1, <2>2, FS_Subset
<1> QED
  BY <1>5, <1>6, <1>7, <1>8 DEF SplitOf, R

\* A sequence with one more element, and its elements.
LEMMA OneMore ==
  ASSUME NEW S, NEW n \in Nat, NEW f \in [1..n -> S], NEW e \in S
  PROVE  LET s == f \o <<e>> IN
         /\ DOMAIN s = 1..(n + 1) /\ \A i \in 1..n : s[i] = f[i]
         /\ s[n + 1] = e
<1> DEFINE s == f \o <<e>>
           t == <<e>>
<1>1. f \in Seq(S) /\ DOMAIN f = 1..n
  BY IsSequence
<1>2. Len(f) = n
  BY <1>1, LenProperties
<1>3. t \in Seq(S) /\ Len(t) = 1 /\ t[1] = e
  OBVIOUS
<1>4. s = f \o t
  OBVIOUS
<1> HIDE DEF s, t
<1>5. /\ s \in Seq(S) /\ Len(s) = n + 1
      /\ \A i \in 1..(n + 1) : s[i] = IF i <= n THEN f[i] ELSE t[i - n]
  <2>1. /\ f \o t \in Seq(S) /\ Len(f \o t) = Len(f) + Len(t)
        /\ \A i \in 1..(Len(f) + Len(t)) : (f \o t)[i] = IF i <= Len(f) THEN f[i] ELSE t[i - Len(f)]
    BY <1>1, <1>3, ConcatProperties, Zenon
  <2> QED
    BY <1>2, <1>3, <1>4, <2>1
<1>6. DOMAIN s = 1..(n + 1)
  BY <1>5, LenProperties
<1>7. (n + 1) - n = 1 /\ n + 1 \in 1..(n + 1) /\ ~(n + 1 <= n)
  OBVIOUS
<1>8. s[n + 1] = e
  BY <1>3, <1>5, <1>7
<1>9. \A i \in 1..n : s[i] = f[i]
  BY <1>5
<1> QED
  BY <1>6, <1>8, <1>9 DEF s

\* The halves of t as records of the keys ks.
Only(ks, f) == CHOOSE s \in AERT!Seconds(ks, f) : TRUE
UpperChs(ks, S, lower, child) ==
    [f \in S |-> IF f \in AERT!Shared(ks) THEN lower[f] ELSE child[f * AertRadix + Only(ks, f)]]
UpperEmb(ks, S) == [f \in S |-> IF f \in AERT!Shared(ks) THEN <<>> ELSE <<Only(ks, f)>>]
LowerChs(f, S, child) == [s \in S |-> child[f * AertRadix + s]]
LowerEmb(S) == [s \in S |-> <<>>]

LEMMA UpperIs ==
  ASSUME NEW t, NEW ks, NEW S \in SUBSET (0..(AertRadix - 1)), NEW lower, NEW child
  PROVE  LET u == AERT!UpperHalf(t, ks, S, lower, child) IN
         /\ IsHalf(u, Cardinality(AERT!Firsts(ks)), S, t.ofs, t.len, UpperChs(ks, S, lower, child), UpperEmb(ks, S))
         /\ u.pfx = t.pfx
<1> DEFINE n == Cardinality(AERT!Firsts(ks))
           chs == UpperChs(ks, S, lower, child)
           emb == UpperEmb(ks, S)
<1>1. AERT!UpperHalf(t, ks, S, lower, child) = AERT!Half(n, S, t.ofs, t.len, t.pfx, chs, emb)
  BY AertHeap DEF AERT!UpperHalf, UpperChs, UpperEmb, Only
<1> HIDE DEF n, chs, emb
<1> QED
  BY <1>1, HalfIs DEF n, chs, emb

LEMMA LowerIs ==
  ASSUME NEW t, NEW ks, NEW f, NEW S \in SUBSET (0..(AertRadix - 1)), NEW child
  PROVE  LET u == AERT!LowerHalf(t, ks, f, S, child) IN
         /\ IsHalf(u, Cardinality(AERT!Seconds(ks, f)), S, t.ofs + t.len + 1, 0, LowerChs(f, S, child), LowerEmb(S))
         /\ u.pfx = 0
<1> DEFINE n == Cardinality(AERT!Seconds(ks, f))
           chs == LowerChs(f, S, child)
           emb == LowerEmb(S)
           ofs == t.ofs + t.len + 1
<1>1. AERT!LowerHalf(t, ks, f, S, child) = AERT!Half(n, S, ofs, 0, 0, chs, emb)
  BY AertHeap DEF AERT!LowerHalf, LowerChs, LowerEmb
<1> HIDE DEF n, chs, emb, ofs
<1> QED
  BY <1>1, HalfIs DEF n, chs, emb, ofs

\* What UpdateCow makes of a full NODE16.
NodesOfSplit(h, c, t, ks) ==
    LET shared == InOrder(AERT!Shared(ks)) IN
    [i \in DOMAIN shared |-> AERT!LowerHalf(t, ks, shared[i], {}, <<>>)]
    \o <<AERT!UpperHalf(t, ks, ToSet(shared), [f \in ToSet(shared) |-> Fresh(h, c.sno, AERT!FirstIn(shared, f))], <<>>)>>

SplitResult(h, c, nodes) ==
    [Result(Alloc(h, c.sno, nodes), [c EXCEPT !.cur = Fresh(h, c.sno, Len(nodes)), !.op = "SPLIT"])
       EXCEPT !.ctx.ofs = c.ofs + Len(c.emb) + h[c.past].len + 2]

LEMMA AertUpdateSplit ==
  ASSUME NEW h, NEW c, NEW k, AertMatched(h, c, k), AERT!FindIdx(h[c.past], k) = 0,
         h[c.past].type = "NODE16", Len(h[c.past].keys) = AertRadix
  PROVE  AERT!UpdateCow(h, c) = SplitResult(h, c, NodesOfSplit(h, c, h[c.past], ToSet(h[c.past].keys) \union {k}))
<1> DEFINE t == h[c.past]
           q == AERT!Part(c.key, c.ofs + Len(c.emb) + t.len, 2)
           A(x) == LET ks == AERT!ToSet(t.keys) \union {x}
                       shared == AERT!InOrder(AERT!Shared(ks))
                   IN  [i \in DOMAIN shared |-> AERT!LowerHalf(t, ks, shared[i], {}, <<>>)]
                       \o <<AERT!UpperHalf(t, ks, AERT!ToSet(shared),
                              [f \in AERT!ToSet(shared) |-> AERT!Fresh(h, c.sno, AERT!FirstIn(shared, f))], <<>>)>>
           F(nodes) == [AERT!Result(AERT!Alloc(h, c.sno, nodes),
                                    [c EXCEPT !.cur = AERT!Fresh(h, c.sno, Len(nodes)), !.op = "SPLIT"])
                          EXCEPT !.ctx.ofs = c.ofs + Len(c.emb) + t.len + 2]
<1>1. AERT!KeyLen(t.type) = 2
  BY DEF AERT!KeyLen
<1>2. k = q /\ c.past # AERT!Nil /\ AERT!EmbMatches(c.emb, t.ofs, c.key) /\ AERT!Matches(t, c.key)
  BY <1>1, AertHeap DEF AertMatched
<1>3. AERT!FindIdx(t, q) = 0 /\ t.type = "NODE16" /\ Len(t.keys) = AertRadix
  BY <1>2
<1>4. AERT!UpdateCow(h, c) = F(A(q))
  BY <1>1, <1>2, <1>3, ZenonT(90) DEF AERT!UpdateCow
<1>5. A(k) = NodesOfSplit(h, c, t, ToSet(t.keys) \union {k})
  BY AertHeap DEF NodesOfSplit
<1> HIDE DEF A
<1>6. A(q) = A(k)
  BY <1>2
<1> QED
  BY <1>4, <1>5, <1>6, AertHeap DEF SplitResult

\* The nodes of a split, and what they are.
IsSplit(h, c, t, ks, nodes, n, sh) ==
    /\ n \in Nat /\ DOMAIN nodes = 1..(n + 1) /\ Len(nodes) = n + 1
    /\ \A i \in 1..n : /\ sh[i] \in AERT!Shared(ks)
                       /\ nodes[i] = AERT!LowerHalf(t, ks, sh[i], {}, <<>>)
    /\ nodes[n + 1] = AERT!UpperHalf(t, ks, AERT!Shared(ks),
                         [f \in AERT!Shared(ks) |-> Fresh(h, c.sno, AERT!FirstIn(sh, f))], <<>>)
    /\ \A f \in AERT!Shared(ks) : AERT!FirstIn(sh, f) \in 1..n /\ sh[AERT!FirstIn(sh, f)] = f

LEMMA SplitNodesAre ==
  ASSUME NEW h, NEW c, NEW t, NEW ks, SplitOf(ks)
  PROVE  LET sh == InOrder(AERT!Shared(ks)) IN IsSplit(h, c, t, ks, NodesOfSplit(h, c, t, ks), Len(sh), sh)
<1> DEFINE S == AERT!Shared(ks)
           sh == InOrder(S)
           n == Len(sh)
           low == [i \in 1..n |-> AERT!LowerHalf(t, ks, sh[i], {}, <<>>)]
           up == AERT!UpperHalf(t, ks, S, [f \in S |-> Fresh(h, c.sno, AERT!FirstIn(sh, f))], <<>>)
           nodes == NodesOfSplit(h, c, t, ks)
<1>1. Lists(sh, S)
  <2>1. S \in SUBSET Nat /\ IsFiniteSet(S)
    BY DEF SplitOf
  <2> HIDE DEF S
  <2> QED
    BY <2>1, InOrderLists
<1>2. nodes = [i \in DOMAIN sh |-> AERT!LowerHalf(t, ks, sh[i], {}, <<>>)]
              \o <<AERT!UpperHalf(t, ks, ToSet(sh), [f \in ToSet(sh) |-> Fresh(h, c.sno, AERT!FirstIn(sh, f))], <<>>)>>
  BY DEF NodesOfSplit
<1> HIDE DEF sh, nodes
<1>3. sh \in Seq(S) /\ n \in Nat /\ DOMAIN sh = 1..n /\ \A i \in 1..n : sh[i] \in S
  BY <1>1, LenProperties DEF Lists
<1>4. ToSet(sh) = S
  <2>1. \A x : x \in ToSet(sh) <=> \E i \in 1..n : sh[i] = x
    BY <1>3, SetOfSeq
  <2>2. \A x \in S : \E i \in 1..n : sh[i] = x
    BY <1>1 DEF Lists
  <2> QED
    BY <1>3, <2>1, <2>2
<1>5. nodes = low \o <<up>>
  BY <1>2, <1>3, <1>4
<1>6. ASSUME NEW f \in S
      PROVE  AERT!FirstIn(sh, f) \in 1..n /\ sh[AERT!FirstIn(sh, f)] = f
  <2>1. \E i \in 1..n : sh[i] = f
    BY <1>1 DEF Lists
  <2> QED
    BY <1>3, <2>1, AertFirstIn
<1> DEFINE Q == {low[i] : i \in 1..n} \union {up}
<1>7. low \in [1..n -> Q] /\ up \in Q
  OBVIOUS
<1>8. \A i \in 1..n : low[i] = AERT!LowerHalf(t, ks, sh[i], {}, <<>>)
  OBVIOUS
<1> HIDE DEF low, n, Q
<1>9. DOMAIN nodes = 1..(n + 1) /\ (\A i \in 1..n : nodes[i] = low[i]) /\ nodes[n + 1] = up
  <2> HIDE DEF up
  <2>1. n \in Nat /\ low \in [1..n -> Q] /\ up \in Q
    BY <1>3, <1>7
  <2> QED
    BY <1>5, <2>1, OneMore
<1>10. Len(nodes) = n + 1
  <2>1. low \in Seq(Q) /\ <<up>> \in Seq(Q) /\ Len(<<up>>) = 1
    BY <1>3, <1>7, IsSequence
  <2>2. Len(low) = n
    BY <1>3, <1>7, <2>1, LenProperties
  <2> HIDE DEF up
  <2> QED
    BY <1>5, <2>1, <2>2, ConcatProperties
<1> QED
  BY <1>3, <1>6, <1>8, <1>9, <1>10 DEF IsSplit, n, nodes, sh

\* What a full node is when it has to be split, and ks with the new key.
LEMMA AertSplitKeys ==
  ASSUME structure = "aert", NEW h, NEW c, AertReady(h, c), c.past # Nil, h[c.past].type = "NODE16"
  PROVE  LET t == h[c.past]  k == AertKey(c, t) IN
         /\ SplitOf(ToSet(t.keys) \union {k})
         /\ AertMatched(h, c, k) <=> AERT!EmbMatches(c.emb, t.ofs, c.key) /\ AERT!Matches(t, c.key)
         /\ Below(t) = t.ofs + t.len + 2 /\ Below(t) <= AertDigits /\ t.ofs % 2 = 0
         /\ Below(t) = c.ofs + Len(c.emb) + t.len + 2
         /\ k = AERT!Part(c.key, Below(t) - 2, 2)
<1> DEFINE t == h[c.past]
           k == AertKey(c, t)
<1>1. AERT!KeyLen(t.type) = 2 /\ t.type # "LEAF"
  BY DEF AERT!KeyLen
<1>2. AertOfPast(h, c, t)
  BY AertPast
<1>3. /\ k \in Nat /\ k < AertRadix * AertRadix
      /\ AERT!Part(c.key, c.ofs + Len(c.emb) + t.len, 2) = k
      /\ c.ofs + Len(c.emb) + t.len + 2 = Below(t)
  BY <1>1, AertKeyOf
<1>4. k = AERT!Part(c.key, t.ofs + t.len, 2)
  BY <1>1 DEF AertKey
<1>5. AertMatched(h, c, k) <=> AERT!EmbMatches(c.emb, t.ofs, c.key) /\ AERT!Matches(t, c.key)
  <2> HIDE DEF k
  <2> QED
    BY <1>1, <1>3 DEF AertMatched
<1> HIDE DEF t, k
<1>6. /\ Below(t) = t.ofs + t.len + 2 /\ Below(t) <= AertDigits /\ t.ofs \in Nat /\ t.len \in Nat
      /\ t.ofs % 2 # 1 /\ t.keys \in Seq(Nat) /\ \A i \in DOMAIN t.keys : t.keys[i] < AertRadix * AertRadix
  BY <1>1, <1>2 DEF AertOfPast
<1>7. t.ofs % 2 = 0 /\ Below(t) - 2 = t.ofs + t.len
  BY <1>6
<1>8. SplitOf(ToSet(t.keys) \union {k})
  <2> DEFINE ks == ToSet(t.keys) \union {k}
  <2>1. ToSet(t.keys) \in SUBSET Nat /\ \A x : x \in ToSet(t.keys) <=> \E i \in 1..Len(t.keys) : t.keys[i] = x
    BY <1>6, SetOfSeq
  <2>2. DOMAIN t.keys = 1..Len(t.keys)
    BY <1>6, LenProperties
  <2>3. \A x \in ToSet(t.keys) : x < AertRadix * AertRadix
    BY <1>6, <2>1, <2>2
  <2>4. ks \in SUBSET Nat /\ \A x \in ks : x < AertRadix * AertRadix
    BY <1>3, <2>1, <2>3
  <2> HIDE DEF ks
  <2>5. SplitOf(ks)
    BY <2>4, SplitSets
  <2> QED
    BY <2>5 DEF ks
<1> QED
  BY <1>3, <1>4, <1>5, <1>6, <1>7, <1>8 DEF t, k

\* The digit is not there and the node is full.
LEMMA AertSplits ==
  ASSUME structure = "aert", NEW h, NEW c, AertReady(h, c), c.past # Nil,
         AERT!EmbMatches(c.emb, h[c.past].ofs, c.key), AERT!Matches(h[c.past], c.key),
         h[c.past].type = "NODE16", AERT!FindIdx(h[c.past], AertKey(c, h[c.past])) = 0,
         Len(h[c.past].keys) = AertRadix
  PROVE  AertMade(h, c, AERT!UpdateCow(h, c))
<1> DEFINE v == c.sno
           t == h[c.past]
           k == AertKey(c, t)
           ks == ToSet(t.keys) \union {k}
           S == AERT!Shared(ks)
           sh == InOrder(S)
           n == Len(sh)
           nodes == NodesOfSplit(h, c, t, ks)
           low(f) == Fresh(h, v, AERT!FirstIn(sh, f))
           lows == [f \in S |-> low(f)]
           up == AERT!UpperHalf(t, ks, S, lows, <<>>)
           y == [c EXCEPT !.cur = Fresh(h, v, n + 1), !.op = "SPLIT"]
           d == [y EXCEPT !.ofs = Below(t)]
           g == Alloc(h, v, nodes)
           chs == UpperChs(ks, S, lows, <<>>)
           emb == UpperEmb(ks, S)
<1>1. /\ SplitOf(ks) /\ AertMatched(h, c, k)
      /\ Below(t) = t.ofs + t.len + 2 /\ Below(t) <= AertDigits /\ t.ofs % 2 = 0
      /\ Below(t) = c.ofs + Len(c.emb) + t.len + 2 /\ k = AERT!Part(c.key, Below(t) - 2, 2)
  BY AertSplitKeys
<1>2. AertOfPast(h, c, t)
  BY AertPast
<1>3. IsSplit(h, c, t, ks, nodes, n, sh)
  <2> HIDE DEF ks, t
  <2> QED
    BY <1>1, SplitNodesAre
<1>4. /\ n \in Nat /\ DOMAIN nodes = 1..(n + 1) /\ Len(nodes) = n + 1
      /\ \A i \in 1..n : sh[i] \in S /\ nodes[i] = AERT!LowerHalf(t, ks, sh[i], {}, <<>>)
      /\ nodes[n + 1] = up
      /\ \A f \in S : AERT!FirstIn(sh, f) \in 1..n /\ sh[AERT!FirstIn(sh, f)] = f
  BY <1>3 DEF IsSplit
<1>5. AERT!UpdateCow(h, c) = Result(g, d)
  <2>1. AERT!UpdateCow(h, c) = SplitResult(h, c, nodes)
    <3>1. AERT!FindIdx(t, k) = 0
      OBVIOUS
    <3> HIDE DEF k
    <3> QED
      BY <1>1, <3>1, AertUpdateSplit
  <2>2. AERT!UpdateCow(h, c) = [Result(g, y) EXCEPT !.ctx.ofs = Below(t)]
    <3> HIDE DEF nodes, n
    <3> QED
      BY <1>1, <1>4, <2>1 DEF SplitResult
  <2> DEFINE o == Below(t)
  <2>3. d = [y EXCEPT !.ofs = o]
    OBVIOUS
  <2>4. AERT!UpdateCow(h, c) = [Result(g, y) EXCEPT !.ctx.ofs = o]
    BY <2>2
  <2> HIDE DEF g, y, o, d
  <2> QED
    BY <2>3, <2>4, ResultGoesOn
<1>6. /\ Nodes(h, {Nil}) /\ AllFit(h) /\ Numbered(h, v) /\ v \in Nat \ {0} /\ IsContext(c)
      /\ structure \notin BTrees /\ structure # "art" /\ c.key \in Nat
  BY DEF AertReady, BTrees, IsContext
<1>7. /\ IsContext(d) /\ d.sno = v /\ d.ran = c.ran /\ d.root = c.root /\ d.past = c.past
      /\ d.cur = Fresh(h, v, n + 1) /\ d.op = "SPLIT" /\ d.emb = c.emb /\ d.ofs = Below(t) /\ d.key = c.key
  BY <1>6 DEF IsContext
<1>8. /\ t.ofs \in Nat /\ t.len \in Nat /\ t.len % 2 = 0 /\ t.pfx \in Nat /\ t.type = "NODE16"
      /\ t.ofs = c.ofs + Len(c.emb) /\ c.past \in DOMAIN h
      /\ c.emb \in Seq(Nat) /\ Len(c.emb) <= c.ofs % 2
  BY <1>2 DEF AertOfPast
<1> HIDE DEF k, t, d, nodes, sh, up
<1>9. S \in SUBSET (0..(AertRadix - 1)) /\ S \in SUBSET AERT!Firsts(ks)
  BY <1>1 DEF SplitOf
<1> HIDE DEF ks
<1>10. /\ IsHalf(up, Cardinality(AERT!Firsts(ks)), S, t.ofs, t.len, chs, emb) /\ up.pfx = t.pfx
       /\ \A f \in S : chs[f] = low(f) /\ emb[f] = <<>>
  <2>1. \A f \in S : chs[f] = low(f) /\ emb[f] = <<>>
    <3> HIDE DEF low
    <3> QED
      BY DEF UpperChs, UpperEmb
  <2> HIDE DEF S, lows, chs, emb
  <2>2. /\ IsHalf(up, Cardinality(AERT!Firsts(ks)), S, t.ofs, t.len, chs, emb) /\ up.pfx = t.pfx
    <3>1. S \in SUBSET (0..(AertRadix - 1)) /\ up = AERT!UpperHalf(t, ks, S, lows, <<>>)
      BY <1>9 DEF up
    <3>2. chs = UpperChs(ks, S, lows, <<>>) /\ emb = UpperEmb(ks, S)
      BY DEF chs, emb
    <3> QED
      BY <3>1, <3>2, UpperIs
  <2> QED
    BY <2>1, <2>2 DEF low
<1> HIDE DEF lows, chs, emb
<1>11. \A i \in 1..n : /\ IsHalf(nodes[i], Cardinality(AERT!Seconds(ks, sh[i])), {}, t.ofs + t.len + 1, 0,
                                LowerChs(sh[i], {}, <<>>), LowerEmb({}))
                       /\ nodes[i].pfx = 0
  BY <1>4, LowerIs
<1> DEFINE N == n + 1
           W == Upto(h, v) \union {Fresh(h, v, j) : j \in 1..N}
<1> HIDE DEF S, n
<1>12. /\ t.ofs + t.len + 1 \in Nat /\ t.ofs + t.len + 1 + 0 + 1 = Below(t) /\ Below(t) <= AertDigits
       /\ t.ofs + t.len + 1 <= AertDigits
  <2> HIDE DEF Below
  <2> QED
    BY <1>1, <1>8, DigitsEven
<1>13. \A g1 : \A i \in 1..n : IsNode(nodes[i], W \union {Nil}) /\ Fits(g1, nodes[i])
  <2>1. SUFFICES ASSUME NEW i \in 1..n, NEW g1 PROVE IsNode(nodes[i], W \union {Nil}) /\ Fits(g1, nodes[i])
    OBVIOUS
  <2> DEFINE o == t.ofs + t.len + 1  l == 0  u == nodes[i]  m == Cardinality(AERT!Seconds(ks, sh[i]))
             x == LowerChs(sh[i], {}, <<>>)  z == LowerEmb({})  b == Below(t)  T == {}
  <2>2. IsHalf(u, m, T, o, l, x, z) /\ u.pfx \in Nat
    BY <1>11, <2>1
  <2>3. o \in Nat /\ l \in Nat /\ l % 2 = 0 /\ (o % 2 = 1 => l = 0) /\ b = o + l + 1 /\ b <= AertDigits
    BY <1>12
  <2>4. T = {}
    OBVIOUS
  <2> HIDE DEF o, l, u, m, x, z, b, T, W
  <2>6. HalfStands(u, m, T, o, l, x, z, b, W, g1)
    BY <2>2, <2>3, <2>4 DEF HalfStands
  <2>7. IsNode(u, W \union {Nil}) /\ Fits(g1, u)
    BY <2>6, HalfFits
  <2> QED
    BY <2>7 DEF u
<1>14. ASSUME NEW g1, \A f \in S : g1[low(f)].ofs = t.ofs + t.len + 1
       PROVE  IsNode(up, W \union {Nil}) /\ Fits(g1, up)
  <2> DEFINE b == t.ofs + t.len + 1  o == t.ofs  l == t.len  m == Cardinality(AERT!Firsts(ks))
  <2>1. IsHalf(up, m, S, o, l, chs, emb) /\ up.pfx \in Nat
    BY <1>8, <1>10
  <2>2. o \in Nat /\ l \in Nat /\ l % 2 = 0 /\ (o % 2 = 1 => l = 0) /\ b = o + l + 1 /\ b <= AertDigits
    BY <1>1, <1>8, <1>12
  <2>3. b % 2 \in Nat /\ Len(<<>>) = 0 /\ <<>> \in Seq(Nat)
    BY <1>12, EmptyIs
  <2>4. \A f \in S : chs[f] \in W
    <3> SUFFICES ASSUME NEW f \in S PROVE low(f) \in W
      BY <1>10
    <3>1. AERT!FirstIn(sh, f) \in 1..N
      BY <1>4
    <3> QED
      BY <3>1
  <2>5. \A f \in S : emb[f] \in Seq(Nat) /\ Len(emb[f]) <= b % 2
    <3> SUFFICES ASSUME NEW f \in S PROVE <<>> \in Seq(Nat) /\ Len(<<>>) <= b % 2
      BY <1>10
    <3> HIDE DEF b
    <3> QED
      BY <2>3
  <2>6. \A f \in S : chs[f] # Nil => g1[chs[f]].ofs = b + Len(emb[f])
    <3>1. b = b + 0
      BY <1>12
    <3> HIDE DEF b
    <3> QED
      BY <1>10, <1>14, <2>3, <3>1 DEF b
  <2> HIDE DEF o, l, m, b, W, low
  <2>7. HalfStands(up, m, S, o, l, chs, emb, b, W, g1)
    BY <2>1, <2>2, <2>4, <2>5, <2>6 DEF HalfStands
  <2> QED
    BY <2>7, HalfFits
<1>15. \A i \in 1..N : i \in 1..n \/ i = N
  BY <1>4
<1>16. ASSUME Extends(h, v, N, nodes, g)
       PROVE  /\ \A f \in S : g[low(f)] = nodes[AERT!FirstIn(sh, f)] /\ low(f) \in OwnNodes(g, v)
              /\ \A f \in S : g[low(f)].ofs = t.ofs + t.len + 1
  <2> SUFFICES ASSUME NEW f \in S
               PROVE  /\ g[low(f)] = nodes[AERT!FirstIn(sh, f)] /\ low(f) \in OwnNodes(g, v)
                      /\ g[low(f)].ofs = t.ofs + t.len + 1
    OBVIOUS
  <2> DEFINE i == AERT!FirstIn(sh, f)
  <2>1. i \in 1..n /\ i \in 1..N
    BY <1>4
  <2> HIDE DEF i, g
  <2>2. g[Fresh(h, v, i)] = nodes[i] /\ Fresh(h, v, i) \in OwnNodes(g, v)
    BY <1>16, <2>1 DEF Extends, OwnNodes
  <2>3. nodes[i].ofs = t.ofs + t.len + 1
    BY <1>11, <2>1 DEF IsHalf
  <2> QED
    BY <2>2, <2>3 DEF i
<1> HIDE DEF low
<1>17. \A i \in 1..N : IsNode(nodes[i], W \union {Nil})
  <2>1. \E g1 : \A f \in S : g1[low(f)].ofs = t.ofs + t.len + 1
    <3> DEFINE g1 == [x \in {low(f) : f \in S} |-> [ofs |-> t.ofs + t.len + 1]]
    <3>1. \A f \in S : g1[low(f)].ofs = t.ofs + t.len + 1
      OBVIOUS
    <3> HIDE DEF g1
    <3> QED
      BY <3>1
  <2> QED
    BY <1>4, <1>13, <1>14, <1>15, <2>1
<1>18. Extends(h, v, N, nodes, g) => \A i \in 1..N : Fits(g, nodes[i])
  <2> SUFFICES ASSUME Extends(h, v, N, nodes, g) PROVE \A i \in 1..N : Fits(g, nodes[i])
    OBVIOUS
  <2>1. \A f \in S : g[low(f)].ofs = t.ofs + t.len + 1
    BY <1>16
  <2> HIDE DEF g
  <2>2. Fits(g, up)
    BY <1>14, <2>1
  <2> QED
    BY <1>4, <1>13, <1>15, <2>2
<1>19. Replaced(h, c, Result(g, d)) /\ Extends(h, v, N, nodes, g)
  <2>1. N \in Nat \ {0} /\ DOMAIN nodes = 1..N /\ d.cur = Fresh(h, v, N)
    BY <1>4, <1>7
  <2> HIDE DEF N
  <2>2. \A i \in 1..N : IsNode(nodes[i], Upto(h, v) \union {Fresh(h, v, j) : j \in 1..N} \union {Nil})
    BY <1>17
  <2> QED
    BY <1>6, <1>7, <1>18, <2>1, <2>2, NodesReplace
<1>20. /\ \A f \in S : g[low(f)] = nodes[AERT!FirstIn(sh, f)] /\ low(f) \in OwnNodes(g, v)
  BY <1>16, <1>19
<1> HIDE DEF g, Below
<1>21. g[d.cur] = up /\ g[d.past] = t
  <2>1. N \in 1..N /\ nodes[N] = up /\ d.cur = Fresh(h, v, N)
    BY <1>4, <1>7
  <2> HIDE DEF N
  <2> QED
    BY <1>7, <1>8, <1>19, <2>1 DEF Extends, t
<1>22. SplitKeySet(g, d) = ks
  BY <1>1, <1>7, <1>21 DEF SplitKeySet, ks
<1>23. /\ HalfWaits(up, Cardinality(AERT!Firsts(ks)), S, t.ofs, t.len)
       /\ \A f \in S : /\ up.chs[AERT!FindIdx(up, f)] = low(f)
                       /\ HalfWaits(g[low(f)], Cardinality(AERT!Seconds(ks, f)), {}, t.ofs + t.len + 1, 0)
  <2>1. HalfWaits(up, Cardinality(AERT!Firsts(ks)), S, t.ofs, t.len)
    BY <1>10 DEF HalfWaits, IsHalf
  <2>2. ASSUME NEW f \in S
        PROVE  /\ up.chs[AERT!FindIdx(up, f)] = low(f)
               /\ HalfWaits(g[low(f)], Cardinality(AERT!Seconds(ks, f)), {}, t.ofs + t.len + 1, 0)
    <3>1. up.chs[AERT!FindIdx(up, f)] = low(f)
      <4>1. AERT!FindIdx(up, f) \in 1..Len(up.keys) /\ up.keys[AERT!FindIdx(up, f)] = f
        BY <1>10 DEF IsHalf
      <4>2. \A j \in 1..Len(up.keys) : up.keys[j] \in S => up.chs[j] = chs[up.keys[j]]
        BY <1>10 DEF IsHalf
      <4> QED
        BY <1>10, <4>1, <4>2
    <3> DEFINE i == AERT!FirstIn(sh, f)
    <3>2. i \in 1..n /\ sh[i] = f /\ g[low(f)] = nodes[i]
      BY <1>4, <1>20
    <3> HIDE DEF i
    <3>3. HalfWaits(nodes[i], Cardinality(AERT!Seconds(ks, sh[i])), {}, t.ofs + t.len + 1, 0)
      BY <1>11, <3>2 DEF HalfWaits, IsHalf
    <3> QED
      BY <3>1, <3>2, <3>3
  <2> QED
    BY <2>1, <2>2
<1>24. AertTask(g, d)
  <2>1. SplitWaits(g, d)
    BY <1>7, <1>8, <1>20, <1>21, <1>22, <1>23 DEF SplitWaits, S
  <2> QED
    BY <1>7, <1>8, <2>1 DEF AertTask
<1>25. g[d.cur].ofs = c.ofs + Len(d.emb)
  <2>1. up.ofs = t.ofs
    BY <1>10 DEF IsHalf
  <2> QED
    BY <1>7, <1>8, <1>21, <2>1
<1>26. AertMade(h, c, Result(g, d))
  <2> DEFINE r == Result(g, d)
  <2>1. r.heap = g /\ r.ctx = d /\ Replaced(h, c, r)
    BY <1>19, ResultFields
  <2> HIDE DEF r
  <2>2. AertMade(h, c, r)
    BY <1>7, <1>8, <1>24, <1>25, <2>1 DEF AertMade
  <2> QED
    BY <2>2 DEF r
<1> QED
  BY <1>5, <1>26 DEF g

\* Whatever UpdateCow makes takes the place of past.
LEMMA AertUpdateCow ==
  ASSUME structure = "aert", NEW h, NEW c, AertReady(h, c)
  PROVE  AertMade(h, c, AERT!UpdateCow(h, c))
<1>1. CASE c.past = Nil
  BY <1>1, AertNewLeaf
<1>2. CASE c.past # Nil /\ ~AERT!EmbMatches(c.emb, h[c.past].ofs, c.key)
  BY <1>2, AertForksHalf
<1>3. CASE /\ c.past # Nil /\ AERT!EmbMatches(c.emb, h[c.past].ofs, c.key)
           /\ ~AERT!Matches(h[c.past], c.key)
  BY <1>3, AertForks
<1>4. CASE /\ c.past # Nil /\ AERT!EmbMatches(c.emb, h[c.past].ofs, c.key)
           /\ AERT!Matches(h[c.past], c.key) /\ h[c.past].type = "LEAF"
  BY <1>4, AertUpdateLeaf
<1>5. CASE /\ c.past # Nil /\ AERT!EmbMatches(c.emb, h[c.past].ofs, c.key)
           /\ AERT!Matches(h[c.past], c.key) /\ h[c.past].type # "LEAF"
  <2> DEFINE full == /\ h[c.past].type = "NODE16" /\ AERT!FindIdx(h[c.past], AertKey(c, h[c.past])) = 0
                     /\ Len(h[c.past].keys) = AertRadix
  <2>1. CASE full
    BY <1>5, <2>1, AertSplits
  <2>2. CASE ~full
    BY <1>5, <2>2, AertGoesDown
  <2> QED
    BY <2>1, <2>2
<1> QED
  BY <1>1, <1>2, <1>3, <1>4, <1>5

-------------------------------------------------------------------------------
(* The handlers of the elastic radix tree *)

\* What a task of aert finds between two handlers.
AertBetween(h, c) ==
    /\ Nodes(h, {Nil}) /\ AllFit(h) /\ Numbered(h, c.sno) /\ c.sno \in Nat \ {0} /\ IsContext(c)
    /\ c.cur \in OwnNodes(h, c.sno) /\ c.cur \in DOMAIN h
    /\ c.past \in Upto(h, c.sno - 1) /\ c.past \in DOMAIN h
    /\ TaskHolds(h, c) /\ AertTask(h, c)
    /\ IsNode(h[c.cur], Upto(h, c.sno) \union {Nil}) /\ AertFits(h, h[c.cur])
    /\ h[c.past].keys \in Seq(Nat) /\ h[c.past].chs \in Seq(Upto(h, c.sno - 1) \union {Nil})
    /\ AertFits(h, h[c.past])
    /\ Upto(h, c.sno - 1) \subseteq Upto(h, c.sno)

LEMMA AertWaits ==
  ASSUME structure = "aert", NEW h, NEW c, Starts(h, c), c.op \in Handlers
  PROVE  AertBetween(h, c)
<1>1. c.op # "INIT" /\ c.op # "DONE" /\ NoNode = {Nil}
  BY DEF Handlers, NoNode, BTrees
<1>2. /\ Nodes(h, {Nil}) /\ AllFit(h) /\ Numbered(h, c.sno) /\ c.sno \in Nat \ {0} /\ IsContext(c)
      /\ TaskHolds(h, c)
  BY <1>1 DEF Starts
<1>3. c.cur \in OwnNodes(h, c.sno) /\ c.past \in Upto(h, c.sno - 1) /\ AertTask(h, c)
  BY <1>1, <1>2 DEF TaskHolds
<1>4. /\ c.past \in DOMAIN h /\ Upto(h, c.sno - 1) \subseteq Upto(h, c.sno)
      /\ IsNode(h[c.past], Upto(h, c.sno - 1) \union {Nil})
  BY <1>2, <1>3, PastChildren
<1>5. c.cur \in DOMAIN h /\ IsNode(h[c.cur], Upto(h, c.sno) \union {Nil})
  BY <1>2, <1>3 DEF OwnNodes, Nodes
<1>6. AertFits(h, h[c.cur]) /\ AertFits(h, h[c.past])
  BY <1>2, <1>4, <1>5 DEF AllFit, Fits
<1> QED
  BY <1>2, <1>3, <1>4, <1>5, <1>6 DEF AertBetween, IsNode

\* A node with other children, and the bits beside them.
Children(t, chs, emb) == [[t EXCEPT !.chs = chs] EXCEPT !.emb = emb]

LEMMA ChildrenOf ==
  ASSUME NEW t, {"type", "keys", "chs", "ofs", "len", "pfx", "emb"} \subseteq DOMAIN t, NEW chs, NEW emb
  PROVE  LET u == Children(t, chs, emb) IN
         /\ DOMAIN u = DOMAIN t /\ u.chs = chs /\ u.emb = emb /\ u.keys = t.keys /\ u.type = t.type
         /\ u.ofs = t.ofs /\ u.len = t.len /\ u.pfx = t.pfx
BY DEF Children

\* The memory with such a node.
Written(h, id, chs, emb) == [h EXCEPT ![id].chs = chs, ![id].emb = emb]

LEMMA ChildrenWritten ==
  ASSUME NEW h, NEW id \in DOMAIN h, NEW chs, NEW emb
  PROVE  Written(h, id, chs, emb) = [h EXCEPT ![id] = Children(h[id], chs, emb)]
BY DEF Children, Written

\* It stands where it did if those children do.
LEMMA ChildrenFit ==
  ASSUME structure = "aert", NEW h, NEW t, NEW P, IsNode(t, P), AertFits(h, t), t.type # "LEAF",
         NEW chs, NEW emb, chs \in Seq(P), emb \in Seq(Seq(Nat)), Len(emb) = Len(chs),
         NEW g, \A i \in DOMAIN chs :
                  /\ Len(emb[i]) <= Below(t) % 2
                  /\ chs[i] # Nil => g[chs[i]].ofs = Below(t) + Len(emb[i])
  PROVE  IsNode(Children(t, chs, emb), P) /\ Fits(g, Children(t, chs, emb))
<1> DEFINE u == Children(t, chs, emb)
<1>1. {"type", "keys", "chs", "ofs", "len", "pfx", "emb"} \subseteq DOMAIN t
  BY DEF IsNode, AertFits
<1>2. /\ DOMAIN u = DOMAIN t /\ u.chs = chs /\ u.emb = emb /\ u.keys = t.keys /\ u.type = t.type
      /\ u.ofs = t.ofs /\ u.len = t.len /\ u.pfx = t.pfx
  BY <1>1, ChildrenOf
<1> HIDE DEF u
<1>3. Below(u) = Below(t)
  BY <1>2 DEF Below
<1>4. IsNode(u, P)
  BY <1>2 DEF IsNode
<1>5. AertFits(g, u)
  BY <1>1, <1>2, <1>3 DEF AertFits
<1> QED
  BY <1>4, <1>5 DEF u, Fits

\* The node in hand gets the children of past, which stand where past's do.
LEMMA AertCopies ==
  ASSUME structure = "aert", NEW h, NEW c, AertBetween(h, c), c.op = "SEARCH"
  PROVE  Keeps(h, Written(h, c.cur, h[c.past].chs, h[c.past].emb), c.sno)
<1> DEFINE v == c.sno
           cur == h[c.cur]
           past == h[c.past]
           t == Children(cur, past.chs, past.emb)
           P == Upto(h, v) \union {Nil}
<1>1. /\ Nodes(h, {Nil}) /\ AllFit(h) /\ Numbered(h, v) /\ c.cur \in OwnNodes(h, v)
      /\ structure \notin BTrees /\ c.cur \in DOMAIN h
  BY DEF AertBetween, BTrees
<1>2. /\ cur.type # "LEAF" /\ past.type # "LEAF"
      /\ cur.ofs = past.ofs /\ cur.len = past.len /\ AERT!KeyLen(cur.type) = AERT!KeyLen(past.type)
      /\ IsNode(cur, P) /\ AertFits(h, cur) /\ AertFits(h, past)
      /\ past.chs \in Seq(Upto(h, v - 1) \union {Nil})
      /\ Upto(h, v - 1) \union {Nil} \subseteq P
  BY DEF AertBetween, AertTask
<1> HIDE DEF past, cur
<1>3. past.chs \in Seq(P)
  BY <1>2, SeqMonotonic
<1>4. Below(cur) = Below(past)
  BY <1>2 DEF Below
<1>5. /\ past.emb \in Seq(Seq(Nat)) /\ Len(past.emb) = Len(past.chs)
      /\ \A i \in DOMAIN past.chs :
           /\ Len(past.emb[i]) <= Below(cur) % 2
           /\ past.chs[i] # Nil => h[past.chs[i]].ofs = Below(cur) + Len(past.emb[i])
  BY <1>2, <1>4 DEF AertFits
<1>6. IsNode(t, P) /\ Fits(h, t)
  <2> HIDE DEF P
  <2> QED
    BY <1>2, <1>3, <1>5, ChildrenFit
<1>7. {"type", "keys", "chs", "ofs", "len", "pfx", "emb"} \subseteq DOMAIN cur
  BY <1>2 DEF IsNode, AertFits
<1>8. t.keys = cur.keys /\ t.type = cur.type /\ t.ofs = cur.ofs /\ t.len = cur.len
  BY <1>7, ChildrenOf
<1> HIDE DEF t
<1>9. Len(t.keys) >= Len(h[c.cur].keys)
  <2>1. Len(t.keys) \in Nat
    BY <1>6, LenProperties DEF IsNode
  <2> QED
    BY <1>8, <2>1 DEF cur
<1>10. Keeps(h, [h EXCEPT ![c.cur] = t], v)
  BY <1>1, <1>6, <1>8, <1>9, RadixWrite DEF cur
<1>11. Written(h, c.cur, past.chs, past.emb) = [h EXCEPT ![c.cur] = t]
  BY <1>1, ChildrenWritten DEF t, cur
<1> QED
  BY <1>10, <1>11 DEF past

\* What the next handler stage of the copy finds.
LEMMA AertNextReady ==
  ASSUME structure = "aert", NEW h, NEW c, AertBetween(h, c), c.op = "SEARCH", AERT!Copied(h[c.past]),
         NEW g, Keeps(h, g, c.sno),
         NEW d, d = [c EXCEPT !.past = h[c.past].chs[c.idx], !.emb = h[c.past].emb[c.idx]]
  PROVE  /\ AertReady(g, d) /\ d.sno = c.sno /\ d.ran = c.ran /\ d.root = c.root /\ d.ofs = c.ofs
         /\ d.past \in Upto(g, c.sno - 1) \union {Nil}
         /\ c.ofs = Below(h[c.cur])
<1> DEFINE v == c.sno
           cur == h[c.cur]
           past == h[c.past]
           p == past.chs[c.idx]
           e == past.emb[c.idx]
<1>1. /\ cur.type # "LEAF" /\ past.type # "LEAF"
      /\ cur.ofs = past.ofs /\ cur.len = past.len /\ AERT!KeyLen(cur.type) = AERT!KeyLen(past.type)
      /\ c.ofs = Below(cur)
      /\ c.idx \in 1..Len(cur.keys) /\ Len(cur.keys) <= Len(past.keys)
      /\ cur.keys \in Seq(Nat) /\ past.keys \in Seq(Nat)
      /\ AertFits(h, cur) /\ AertFits(h, past)
      /\ past.chs \in Seq(Upto(h, v - 1) \union {Nil})
  BY DEF AertBetween, AertTask, IsNode
<1>2. Len(past.chs) = Len(past.keys)
  BY DEF AERT!Copied
<1>3. /\ DOMAIN d = DOMAIN c /\ d.past = p /\ d.sno = v /\ d.ran = c.ran /\ d.root = c.root
      /\ d.ofs = c.ofs /\ d.emb = e /\ IsContext(d)
  BY DEF AertBetween, IsContext
<1> HIDE DEF past, cur
<1>4. c.idx \in DOMAIN past.chs /\ p \in Upto(h, v - 1) \union {Nil}
  <2>1. Len(cur.keys) \in Nat /\ Len(cur.keys) <= Len(past.chs)
    BY <1>1, <1>2, LenProperties
  <2> QED
    BY <1>1, <2>1, EarlierPosition
<1>5. c.ofs = Below(past)
  BY <1>1 DEF Below
<1>6. /\ e \in Seq(Nat) /\ Len(e) <= c.ofs % 2
      /\ p # Nil => h[p].ofs = c.ofs + Len(e)
  <2>1. /\ past.emb \in Seq(Seq(Nat)) /\ Len(past.emb) = Len(past.chs)
        /\ Len(past.emb[c.idx]) <= Below(past) % 2
        /\ past.chs[c.idx] # Nil => h[past.chs[c.idx]].ofs = Below(past) + Len(past.emb[c.idx])
    BY <1>1, <1>4 DEF AertFits
  <2>2. c.idx \in 1..Len(past.emb)
    BY <1>1, <1>4, <2>1, LenProperties
  <2>3. e \in Seq(Nat)
    BY <2>1, <2>2, LenProperties
  <2> HIDE DEF Below
  <2> QED
    BY <1>5, <2>1, <2>3
<1>7. Nodes(g, {Nil}) /\ AllFit(g) /\ Numbered(g, v) /\ Grows(h, g, v) /\ Steady(h, g)
  BY DEF Keeps, Grows
<1>8. p \in Upto(g, v - 1) \union {Nil}
  BY <1>4, <1>7, GrowsKeeps
<1>9. p # Nil => g[p].ofs = c.ofs + Len(e)
  <2>1. SUFFICES ASSUME p # Nil PROVE g[p].ofs = c.ofs + Len(e)
    OBVIOUS
  <2>2. p \in DOMAIN h
    BY <1>4, <2>1 DEF Upto
  <2> HIDE DEF p, e
  <2> QED
    BY <1>6, <1>7, <2>1, <2>2 DEF Steady, BTrees
<1>10. c.ofs \in 0..AertDigits
  <2>1. Below(cur) <= AertDigits /\ cur.ofs \in Nat /\ cur.len \in Nat
    BY <1>1 DEF AertFits
  <2>2. AERT!KeyLen(cur.type) \in Nat
    BY DEF AERT!KeyLen
  <2>3. Below(cur) \in Nat
    BY <2>1, <2>2 DEF Below
  <2> QED
    BY <1>1, <2>1, <2>3, DigitsEven
<1> HIDE DEF p, e
<1>11. AertReady(g, d)
  BY <1>3, <1>6, <1>7, <1>8, <1>9, <1>10 DEF AertReady, AertBetween
<1> QED
  BY <1>1, <1>3, <1>8, <1>11 DEF cur

\* A node made, and the bits beside it, take the place of a child.
TakesPlace(r, id, i, q) ==
    /\ q.heap = [r.heap EXCEPT ![id] = Children(r.heap[id], [r.heap[id].chs EXCEPT ![i] = r.ctx.cur],
                                                [r.heap[id].emb EXCEPT ![i] = r.ctx.emb])]
    /\ q.ctx = r.ctx /\ {"heap", "ctx"} \subseteq DOMAIN q

LEMMA LinkedEmbedded ==
  ASSUME NEW r, {"heap", "ctx"} \subseteq DOMAIN r, NEW id \in DOMAIN r.heap, NEW i,
         {"chs", "emb"} \subseteq DOMAIN r.heap[id]
  PROVE  TakesPlace(r, id, i, AERT!Embedded(AERT!Linked(r, id, i), id, i))
<1> DEFINE p == AERT!Linked(r, id, i)
           q == AERT!Embedded(p, id, i)
           g == r.heap
           u == g[id]
           s == [u.chs EXCEPT ![i] = r.ctx.cur]
           y == [u EXCEPT !.chs = s]
           e == [u.emb EXCEPT ![i] = r.ctx.emb]
<1>1. p.heap = [g EXCEPT ![id] = y] /\ p.ctx = r.ctx /\ {"heap", "ctx"} \subseteq DOMAIN p
  BY DEF AERT!Linked
<1>2. /\ q.heap = [p.heap EXCEPT ![id] = [p.heap[id] EXCEPT !.emb = [p.heap[id].emb EXCEPT ![i] = p.ctx.emb]]]
      /\ q.ctx = p.ctx /\ {"heap", "ctx"} \subseteq DOMAIN q
  <2> HIDE DEF p
  <2> QED
    BY <1>1 DEF AERT!Embedded
<1> HIDE DEF p, q
<1>3. id \in DOMAIN g /\ {"chs", "emb"} \subseteq DOMAIN u
  OBVIOUS
<1> HIDE DEF g, s
<1>4. p.heap[id] = y /\ y.emb = u.emb
  BY <1>1, <1>3
<1>5. q.heap = [p.heap EXCEPT ![id] = [y EXCEPT !.emb = e]]
  BY <1>1, <1>2, <1>4
<1> DEFINE z == [y EXCEPT !.emb = e]
<1>6. q.heap = [p.heap EXCEPT ![id] = z] /\ z = Children(u, s, e)
  BY <1>5 DEF Children
<1> HIDE DEF y, z, e, u
<1>7. q.heap = [g EXCEPT ![id] = z]
  BY <1>1, <1>3, <1>6
<1> QED
  BY <1>1, <1>2, <1>6, <1>7 DEF p, q, g, u, s, e, TakesPlace

LEMMA AertSearches ==
  ASSUME structure = "aert", NEW h, NEW c, Starts(h, c), c.op = "SEARCH", c.op \in Handlers,
         AERT!Copied(h[c.past])
  PROVE  Leaves(h, c, AERT!HandleSearch(h, c))
<1> DEFINE v == c.sno
           chs == h[c.past].chs
           emb == h[c.past].emb
           g == Written(h, c.cur, chs, emb)
           d == [c EXCEPT !.past = chs[c.idx], !.emb = emb[c.idx]]
           r == AERT!UpdateCow(g, d)
           u == r.heap[c.cur]
           s == [u.chs EXCEPT ![c.idx] = r.ctx.cur]
           e == [u.emb EXCEPT ![c.idx] = r.ctx.emb]
           t == Children(u, s, e)
           q == AERT!HandleSearch(h, c)
<1>1. q = AERT!Embedded(AERT!Linked(r, c.cur, c.idx), c.cur, c.idx)
  BY DEF AERT!HandleSearch, Written
<1>2. AertBetween(h, c)
  BY AertWaits
<1>3. Keeps(h, g, v)
  BY <1>2, AertCopies
<1> HIDE DEF g
<1>4. /\ AertReady(g, d) /\ d.sno = v /\ d.ran = c.ran /\ d.root = c.root /\ d.ofs = c.ofs
      /\ d.past \in Upto(g, v - 1) \union {Nil}
      /\ c.ofs = Below(h[c.cur])
  BY <1>2, <1>3, AertNextReady
<1> HIDE DEF d
<1>5. AertMade(g, d, r)
  BY <1>4, AertUpdateCow
<1> HIDE DEF r
<1>6. /\ Replaced(g, d, r)
      /\ r.ctx.emb \in Seq(Nat) /\ Len(r.ctx.emb) <= c.ofs % 2
      /\ r.heap[r.ctx.cur].ofs = c.ofs + Len(r.ctx.emb)
      /\ r.ctx.op # "DONE" => /\ r.ctx.op \in {"SEARCH", "INSERT", "FORK", "SPLIT"} /\ d.past # Nil
                              /\ AertTask(r.heap, r.ctx)
  BY <1>4, <1>5 DEF AertMade
<1>7. /\ {"heap", "ctx"} \subseteq DOMAIN r /\ Keeps(g, r.heap, v)
      /\ r.ctx.cur \in OwnNodes(r.heap, v)
  BY <1>4, <1>6 DEF Replaced
<1>8. /\ c.cur \in DOMAIN r.heap /\ Version(c.cur) = v
      /\ u.type = h[c.cur].type /\ u.ofs = h[c.cur].ofs /\ u.len = h[c.cur].len
  BY <1>2, <1>3, <1>7 DEF AertBetween, Keeps, Steady, OwnNodes, BTrees
<1>9. /\ IsNode(u, Upto(r.heap, v) \union {Nil}) /\ AertFits(r.heap, u) /\ u.type # "LEAF"
  BY <1>2, <1>7, <1>8 DEF Keeps, Nodes, AllFit, Fits, AertBetween, AertTask
<1>10. r.ctx.cur \in Upto(r.heap, v)
  BY <1>2, <1>7 DEF OwnNodes, Upto, AertBetween
<1>11. Below(u) = c.ofs
  BY <1>4, <1>8 DEF Below
<1> HIDE DEF u
<1>12. q.heap = [r.heap EXCEPT ![c.cur] = t] /\ q.ctx = r.ctx /\ {"heap", "ctx"} \subseteq DOMAIN q
  <2>1. {"heap", "ctx"} \subseteq DOMAIN r /\ c.cur \in DOMAIN r.heap /\ {"chs", "emb"} \subseteq DOMAIN r.heap[c.cur]
    BY <1>7, <1>8, <1>9 DEF u, IsNode, AertFits
  <2> HIDE DEF q, t
  <2>2. TakesPlace(r, c.cur, c.idx, AERT!Embedded(AERT!Linked(r, c.cur, c.idx), c.cur, c.idx))
    <3> HIDE DEF r
    <3> QED
      BY <2>1, LinkedEmbedded
  <2> QED
    BY <1>1, <2>2 DEF t, u, TakesPlace
<1>13. /\ s \in Seq(Upto(r.heap, v) \union {Nil}) /\ DOMAIN s = DOMAIN u.chs /\ Len(s) = Len(u.chs)
       /\ \A j \in DOMAIN u.chs : s[j] = IF j = c.idx THEN r.ctx.cur ELSE u.chs[j]
  <2> DEFINE S == Upto(r.heap, v) \union {Nil}
  <2> DEFINE w == u.chs  y == r.ctx.cur
  <2>1. w \in Seq(S) /\ y \in S
    BY <1>9, <1>10 DEF IsNode
  <2>2. s = [w EXCEPT ![c.idx] = y]
    OBVIOUS
  <2> DEFINE i == c.idx
             z == [w EXCEPT ![i] = y]
  <2> HIDE DEF S, w, y, s, i
  <2>3. /\ z \in Seq(S) /\ DOMAIN z = DOMAIN w /\ Len(z) = Len(w)
        /\ \A j \in DOMAIN w : z[j] = IF j = i THEN y ELSE w[j]
    BY <2>1, ReplaceInSeq
  <2> HIDE DEF z
  <2> QED
    BY <2>2, <2>3 DEF S, w, y, i, z
<1>14. /\ e \in Seq(Seq(Nat)) /\ DOMAIN e = DOMAIN u.emb /\ Len(e) = Len(u.emb)
       /\ \A j \in DOMAIN u.emb : e[j] = IF j = c.idx THEN r.ctx.emb ELSE u.emb[j]
  <2> DEFINE S == Seq(Nat)
  <2> DEFINE w == u.emb  y == r.ctx.emb
  <2>1. w \in Seq(S) /\ y \in S
    BY <1>6, <1>9 DEF AertFits
  <2>2. e = [w EXCEPT ![c.idx] = y]
    OBVIOUS
  <2> DEFINE i == c.idx
             z == [w EXCEPT ![i] = y]
  <2> HIDE DEF S, w, y, e, i
  <2>3. /\ z \in Seq(S) /\ DOMAIN z = DOMAIN w /\ Len(z) = Len(w)
        /\ \A j \in DOMAIN w : z[j] = IF j = i THEN y ELSE w[j]
    BY <2>1, ReplaceInSeq
  <2> HIDE DEF z
  <2> QED
    BY <2>2, <2>3 DEF S, w, y, i, z
<1> HIDE DEF s, e
<1>15. /\ {"type", "keys", "chs", "ofs", "len", "pfx", "emb"} \subseteq DOMAIN u
       /\ Len(u.emb) = Len(u.chs) /\ u.chs \in Seq(Upto(r.heap, v) \union {Nil}) /\ u.emb \in Seq(Seq(Nat))
       /\ \A i \in DOMAIN u.chs :
            /\ Len(u.emb[i]) <= Below(u) % 2
            /\ u.chs[i] # Nil => r.heap[u.chs[i]].ofs = Below(u) + Len(u.emb[i])
  BY <1>9 DEF IsNode, AertFits
<1>16. t.keys = u.keys /\ t.type = u.type /\ t.ofs = u.ofs /\ t.len = u.len
  BY <1>15, ChildrenOf
<1>17. \A i \in DOMAIN s :
         /\ Len(e[i]) <= Below(u) % 2
         /\ s[i] # Nil => r.heap[s[i]].ofs = Below(u) + Len(e[i])
  <2>1. DOMAIN u.emb = DOMAIN u.chs
    BY <1>15, LenProperties
  <2> SUFFICES ASSUME NEW i \in DOMAIN u.chs
               PROVE  /\ Len(e[i]) <= Below(u) % 2
                      /\ s[i] # Nil => r.heap[s[i]].ofs = Below(u) + Len(e[i])
    BY <1>13
  <2>2. CASE i = c.idx
    <3>1. s[i] = r.ctx.cur /\ e[i] = r.ctx.emb
      BY <1>13, <1>14, <2>1, <2>2
    <3> HIDE DEF Below
    <3> QED
      BY <1>6, <1>11, <3>1
  <2>3. CASE i # c.idx
    <3>1. s[i] = u.chs[i] /\ e[i] = u.emb[i]
      BY <1>13, <1>14, <2>1, <2>3
    <3> QED
      BY <1>15, <3>1
  <2> QED
    BY <2>2, <2>3
<1>18. IsNode(t, Upto(r.heap, v) \union {Nil}) /\ Fits(r.heap, t)
  <2> DEFINE S == Upto(r.heap, v) \union {Nil}
  <2>1. Len(e) = Len(s) /\ s \in Seq(S) /\ IsNode(u, S)
    BY <1>9, <1>13, <1>14, <1>15
  <2> HIDE DEF S
  <2> QED
    BY <1>9, <1>14, <1>17, <2>1, ChildrenFit DEF S
<1> HIDE DEF t
<1>19. r.ctx.op # "DONE" => d.past # Nil /\ RadixTask(r.heap, r.ctx)
  BY <1>6 DEF RadixTask, Handlers
<1>20. TaskHolds(h, c) /\ c.cur \in OwnNodes(h, v)
  BY <1>2 DEF AertBetween
<1> HIDE DEF q
<1> QED
  BY <1>3, <1>4, <1>6, <1>12, <1>16, <1>18, <1>19, <1>20, RadixLinks DEF u, q

\* Two sequences along the keys of old, spread alike over those of new: what
\* stands beside what is in Q.
Along(old, xs, ys, Q) ==
    /\ old.keys \in Seq(Nat) /\ Len(xs) = Len(old.keys) /\ Len(ys) = Len(old.keys)
    /\ \A j \in 1..Len(old.keys) : <<xs[j], ys[j]>> \in Q

LEMMA SpreadPairs ==
  ASSUME NEW S, NEW T, NEW Q, NEW xs \in Seq(S), NEW ys \in Seq(T), NEW old, Along(old, xs, ys, Q),
         NEW new, new.keys \in Seq(Nat), NEW k, \E i \in 1..Len(new.keys) : new.keys[i] = k,
         new.type # "NODEH16" => Len(new.keys) <= Len(old.keys) + 1,
         NEW x \in S, NEW y \in T, <<x, y>> \in Q, NEW x0 \in S, NEW y0 \in T, <<x0, y0>> \in Q
  PROVE  LET u == AERT!Spread(new, old, k, xs, x, x0)
             w == AERT!Spread(new, old, k, ys, y, y0)
         IN  u \in Seq(S) /\ w \in Seq(T) /\ Len(u) = Len(w) /\ \A j \in DOMAIN u : <<u[j], w[j]>> \in Q
<1> DEFINE u == AERT!Spread(new, old, k, xs, x, x0)
           w == AERT!Spread(new, old, k, ys, y, y0)
           i == AERT!FindIdx(new, k)
           m == Len(old.keys)
           n == Len(new.keys)
           f(s, e, e0) == [j \in DOMAIN new.keys |->
                             IF j = i THEN e
                             ELSE LET o == AERT!FindIdx(old, new.keys[j]) IN IF o = 0 THEN e0 ELSE s[o]]
<1>1. i \in 1..n
  BY AertFindIdx
<1>2. /\ u = IF new.type # "NODEH16" THEN InsertAt(xs, i, x) ELSE f(xs, x, x0)
      /\ w = IF new.type # "NODEH16" THEN InsertAt(ys, i, y) ELSE f(ys, y, y0)
  BY AertHeap DEF AERT!Spread, AERT!InsertAt, InsertAt
<1> HIDE DEF u, w
<1>3. n \in Nat /\ DOMAIN new.keys = 1..n /\ m \in Nat /\ Len(xs) = m /\ Len(ys) = m
      /\ \A j \in 1..m : <<xs[j], ys[j]>> \in Q /\ xs[j] \in S /\ ys[j] \in T
  BY LenProperties DEF Along
<1>4. CASE new.type # "NODEH16"
  <2>1. i \in 1..(m + 1)
    <3> HIDE DEF i, n, m
    <3>1. n <= m + 1
      BY <1>4 DEF n, m
    <3> QED
      BY <1>1, <1>3, <3>1
  <2> HIDE DEF i, m, f
  <2>2. IsInsertion(S, xs, i, x, u) /\ IsInsertion(T, ys, i, y, w)
    <3>1. i \in 1..(Len(xs) + 1) /\ i \in 1..(Len(ys) + 1)
      BY <1>3, <2>1
    <3> QED
      BY <1>2, <1>4, <3>1, InsertAtSeq
  <2>3. /\ u \in Seq(S) /\ w \in Seq(T) /\ Len(u) = m + 1 /\ Len(w) = m + 1
        /\ \A j \in 1..(m + 1) : /\ u[j] = IF j < i THEN xs[j] ELSE IF j = i THEN x ELSE xs[j - 1]
                                 /\ w[j] = IF j < i THEN ys[j] ELSE IF j = i THEN y ELSE ys[j - 1]
    BY <1>3, <2>2 DEF IsInsertion
  <2>4. DOMAIN u = 1..(m + 1)
    BY <2>3, LenProperties
  <2>5. ASSUME NEW j \in 1..(m + 1) PROVE <<u[j], w[j]>> \in Q
    <3>1. CASE j < i
      <4>1. j \in 1..m
        BY <1>3, <2>1, <3>1
      <4> QED
        BY <1>3, <2>3, <3>1, <4>1
    <3>2. CASE j = i
      <4>1. u[j] = x /\ w[j] = y
        BY <1>3, <2>1, <2>3, <3>2
      <4> QED
        BY <4>1
    <3>3. CASE j > i
      <4>1. j - 1 \in 1..m /\ ~(j < i) /\ j # i
        BY <1>3, <2>1, <3>3
      <4>2. u[j] = xs[j - 1] /\ w[j] = ys[j - 1]
        BY <2>3, <4>1
      <4> QED
        BY <1>3, <4>1, <4>2
    <3> QED
      BY <1>3, <2>1, <3>1, <3>2, <3>3
  <2> QED
    BY <2>3, <2>4, <2>5 DEF u, w
<1>5. CASE new.type = "NODEH16"
  <2>1. u = f(xs, x, x0) /\ w = f(ys, y, y0)
    BY <1>2, <1>5
  <2>2. ASSUME NEW j \in 1..n PROVE <<u[j], w[j]>> \in Q /\ u[j] \in S /\ w[j] \in T
    <3> DEFINE o == AERT!FindIdx(old, new.keys[j])
    <3>1. o # 0 => o \in 1..m
      BY AertFindIdx DEF Along
    <3>2. /\ u[j] = IF j = i THEN x ELSE IF o = 0 THEN x0 ELSE xs[o]
          /\ w[j] = IF j = i THEN y ELSE IF o = 0 THEN y0 ELSE ys[o]
      BY <1>3, <2>1
    <3> HIDE DEF o, i, m, f
    <3> QED
      BY <1>3, <3>1, <3>2
  <2>3. DOMAIN u = 1..n /\ DOMAIN w = 1..n /\ u = [j \in DOMAIN u |-> u[j]] /\ w = [j \in DOMAIN w |-> w[j]]
    BY <1>3, <2>1
  <2> HIDE DEF f, n, i, m
  <2>4. u \in [1..n -> S] /\ w \in [1..n -> T]
    BY <2>2, <2>3
  <2>5. u \in Seq(S) /\ w \in Seq(T)
    BY <1>3, <2>4, IsSequence
  <2>6. Len(u) = n /\ Len(w) = n
    BY <1>3, <2>3, <2>5, LenProperties
  <2> QED
    BY <2>2, <2>3, <2>5, <2>6 DEF u, w
<1> QED
  BY <1>4, <1>5

\* A pointer of P and the half digits beside it, under a node that ends at b.
StandsBeside(p, e, g, b) == Len(e) <= b % 2 /\ (p # Nil => g[p].ofs = b + Len(e))
Beside(P, g, b) == {pair \in P \X Seq(Nat) : StandsBeside(pair[1], pair[2], g, b)}

LEMMA IsBeside ==
  ASSUME NEW P, NEW g, NEW b, NEW p, NEW e
  PROVE  <<p, e>> \in Beside(P, g, b) <=> /\ p \in P /\ e \in Seq(Nat) /\ Len(e) <= b % 2
                                          /\ p # Nil => g[p].ofs = b + Len(e)
<1>1. <<p, e>> \in Beside(P, g, b) <=> p \in P /\ e \in Seq(Nat) /\ StandsBeside(p, e, g, b)
  BY DEF Beside
<1> QED
  BY <1>1 DEF StandsBeside

\* The children of past stand in a memory that has the nodes of h.
LEMMA AertAlong ==
  ASSUME NEW h, NEW past, past.keys \in Seq(Nat), AERT!Copied(past), NEW S, past.chs \in Seq(S \union {Nil}),
         AertFits(h, past), past.type # "LEAF", S \subseteq DOMAIN h,
         NEW g, \A id \in S : g[id] = h[id], NEW P, S \union {Nil} \subseteq P
  PROVE  Along(past, past.chs, past.emb, Beside(P, g, Below(past)))
<1> DEFINE m == Len(past.keys)
           b == Below(past)
<1>1. /\ Len(past.chs) = m /\ past.emb \in Seq(Seq(Nat)) /\ Len(past.emb) = m
      /\ \A i \in DOMAIN past.chs :
           /\ Len(past.emb[i]) <= b % 2
           /\ past.chs[i] # Nil => h[past.chs[i]].ofs = b + Len(past.emb[i])
  BY DEF AERT!Copied, AertFits
<1> HIDE DEF b
<1>2. /\ DOMAIN past.chs = 1..m
      /\ \A j \in 1..m : past.chs[j] \in S \union {Nil} /\ past.emb[j] \in Seq(Nat)
  BY <1>1, LenProperties
<1>3. ASSUME NEW j \in 1..m PROVE <<past.chs[j], past.emb[j]>> \in Beside(P, g, b)
  <2> DEFINE p == past.chs[j]  e == past.emb[j]
  <2>1. /\ p \in P /\ e \in Seq(Nat) /\ Len(e) <= b % 2
        /\ p # Nil => h[p].ofs = b + Len(e) /\ p \in S
    BY <1>1, <1>2
  <2> HIDE DEF p, e
  <2>2. p # Nil => g[p].ofs = b + Len(e)
    BY <2>1
  <2>3. <<p, e>> \in Beside(P, g, b)
    BY <2>1, <2>2, IsBeside
  <2> QED
    BY <2>3 DEF p, e
<1> QED
  BY <1>1, <1>3 DEF Along, b

\* A pointer where there is none, and the leaf of the task.
LEMMA BesideLeaf ==
  ASSUME NEW P, NEW g, NEW b \in 0..AertDigits, NEW key \in Nat, Nil \in P,
         NEW a \in P, g[a].ofs = b + (b % 2)
  PROVE  <<a, AERT!LeafEmb(b, key)>> \in Beside(P, g, b) /\ <<Nil, <<>>>> \in Beside(P, g, b)
<1> DEFINE e == AERT!LeafEmb(b, key)
           z == <<>>
<1>1. e \in Seq(Nat) /\ Len(e) = b % 2
  BY AertLeafEmb
<1>2. b % 2 \in Nat
  OBVIOUS
<1>3. z \in Seq(Nat) /\ Len(z) = 0
  OBVIOUS
<1> HIDE DEF e, z
<1>4. <<a, e>> \in Beside(P, g, b)
  BY <1>1, <1>2, IsBeside
<1>5. <<Nil, z>> \in Beside(P, g, b)
  <2>1. 0 <= b % 2
    BY <1>2
  <2> QED
    BY <1>3, <2>1, IsBeside
<1> QED
  BY <1>4, <1>5 DEF e, z

\* What the node in hand gets when a child is inserted.
LEMMA AertInsertChild ==
  ASSUME NEW cur, NEW past, NEW k, NEW a, NEW e
  PROVE  LET Q(s, x, x0) == AERT!Spread(cur, past, k, s, x, x0)
         IN  AERT!InsertChild(cur, past, k, a, e) =
               Children(cur, Q(past.chs, a, Nil), Q(past.emb, e, <<>>))
BY AertHeap DEF AERT!InsertChild, Children

LEMMA AertInserts ==
  ASSUME structure = "aert", NEW h, NEW c, Starts(h, c), c.op = "INSERT", c.op \in Handlers,
         AERT!Copied(h[c.past])
  PROVE  Leaves(h, c, AERT!HandleInsert(h, c))
<1> DEFINE v == c.sno
           cur == h[c.cur]
           past == h[c.past]
           a == Fresh(h, v, 1)
           l == AERT!Leaf(c.ofs, c.key, v)
           leaf == AERT!LeafEmb(c.ofs, c.key)
           g == Alloc(h, v, <<l>>)
           d == [c EXCEPT !.cur = a]
           e == [c EXCEPT !.op = "DONE"]
           k == cur.keys[c.idx]
           t == AERT!InsertChild(cur, past, k, a, leaf)
           chs == AERT!Spread(cur, past, k, past.chs, a, Nil)
           emb == AERT!Spread(cur, past, k, past.emb, leaf, <<>>)
           S == Upto(h, v - 1)
           P == Upto(g, v) \union {Nil}
           q == AERT!HandleInsert(h, c)
<1>1. q = Result([g EXCEPT ![c.cur] = t], e)
  BY AertHeap DEF AERT!HandleInsert
<1>2. AertBetween(h, c)
  BY AertWaits
<1>3. /\ Nodes(h, {Nil}) /\ AllFit(h) /\ Numbered(h, v) /\ v \in Nat \ {0} /\ IsContext(c)
      /\ c.key \in Nat /\ TaskHolds(h, c) /\ structure \notin BTrees
      /\ c.cur \in OwnNodes(h, v) /\ c.cur \in DOMAIN h /\ c.past \in DOMAIN h
      /\ AertFits(h, cur) /\ AertFits(h, past) /\ cur.type # "LEAF" /\ past.type # "LEAF"
      /\ cur.keys \in Seq(Nat) /\ past.keys \in Seq(Nat)
      /\ {"type", "keys", "chs"} \subseteq DOMAIN cur
      /\ past.chs \in Seq(S \union {Nil})
      /\ S \subseteq Upto(h, v) /\ S \subseteq DOMAIN h
      /\ cur.ofs = past.ofs /\ cur.len = past.len /\ c.ofs = Below(cur)
      /\ AERT!KeyLen(cur.type) = AERT!KeyLen(past.type)
      /\ c.idx \in 1..Len(cur.keys)
      /\ cur.type # "NODEH16" => Len(cur.keys) <= Len(past.keys) + 1
      /\ AERT!Copied(past)
  BY <1>2 DEF AertBetween, AertTask, BTrees, IsContext, IsNode, Upto
<1> HIDE DEF cur, past
<1>4. c.ofs = Below(past)
  BY <1>3 DEF Below
<1>5. c.ofs \in 0..AertDigits
  <2>1. Below(cur) <= AertDigits /\ cur.ofs \in Nat /\ cur.len \in Nat
    BY <1>3 DEF AertFits
  <2>2. AERT!KeyLen(cur.type) \in Nat
    BY DEF AERT!KeyLen
  <2>3. Below(cur) \in Nat
    BY <2>1, <2>2 DEF Below
  <2> QED
    BY <1>3, <2>1, <2>3, DigitsEven
<1>6. Childless(l) /\ l.ofs = c.ofs + (c.ofs % 2)
  BY <1>3, <1>5, AertLeafNode
<1>7. /\ IsContext(d) /\ d.sno = v /\ d.ran = c.ran /\ d.root = c.root /\ d.past = c.past
      /\ d.cur = a
  BY <1>3 DEF IsContext
<1>8. /\ IsContext(e) /\ e.sno = v /\ e.ran = c.ran /\ e.root = c.root /\ e.op = "DONE"
  BY <1>3 DEF IsContext
<1> HIDE DEF l, d, e
<1>9. /\ Replaced(h, c, Result(g, d)) /\ g[d.cur] = l
      /\ \A id \in DOMAIN h : g[id] = h[id]
  <2>1. /\ Nodes(h, {Nil}) /\ AllFit(h) /\ Numbered(h, v) /\ v \in Nat /\ structure \notin BTrees
        /\ Childless(l)
    BY <1>3, <1>6
  <2> QED
    BY <1>7, <2>1, NodeReplaces
<1> HIDE DEF g
<1>10. Keeps(h, g, v) /\ a \in OwnNodes(g, v) /\ g[a] = l /\ g[c.cur] = cur
  BY <1>3, <1>7, <1>9 DEF Replaced, Result, cur
<1> HIDE DEF a
<1>11. a \in P /\ Nil \in P /\ S \union {Nil} \subseteq P /\ \A id \in S : g[id] = h[id]
  <2>1. Upto(h, v) \subseteq Upto(g, v)
    BY <1>10, GrowsKeeps DEF Keeps
  <2>2. a \in Upto(g, v)
    BY <1>3, <1>10 DEF OwnNodes, Upto
  <2> HIDE DEF S
  <2> QED
    BY <1>3, <1>9, <2>1, <2>2
<1>12. t = Children(cur, chs, emb)
  BY AertInsertChild
<1> HIDE DEF S, t
<1> DEFINE z == <<>>
           Q == Beside(P, g, c.ofs)
<1>13. Along(past, past.chs, past.emb, Q)
  <2> HIDE DEF P
  <2> QED
    BY <1>3, <1>4, <1>11, AertAlong
<1>14. <<a, leaf>> \in Q /\ <<Nil, z>> \in Q
  <2>1. c.ofs \in 0..AertDigits /\ c.key \in Nat /\ Nil \in P /\ a \in P /\ g[a].ofs = c.ofs + (c.ofs % 2)
    BY <1>3, <1>5, <1>6, <1>10, <1>11
  <2> HIDE DEF P
  <2> QED
    BY <2>1, BesideLeaf
<1>15. leaf \in Seq(Nat) /\ z \in Seq(Nat)
  <2>1. z \in Seq(Nat)
    OBVIOUS
  <2> HIDE DEF z
  <2> QED
    BY <1>3, <1>5, <2>1, AertLeafEmb
<1>16. past.chs \in Seq(P) /\ past.emb \in Seq(Seq(Nat))
  <2> HIDE DEF P
  <2>1. S \union {Nil} \subseteq P
    BY <1>11
  <2> QED
    BY <1>3, <2>1, SeqMonotonic DEF AertFits
<1>17. \E i \in 1..Len(cur.keys) : cur.keys[i] = k
  BY <1>3
<1>18. emb = AERT!Spread(cur, past, k, past.emb, leaf, z)
  OBVIOUS
<1> HIDE DEF k, leaf, emb, z
<1>19. chs \in Seq(P) /\ emb \in Seq(Seq(Nat)) /\ Len(chs) = Len(emb) /\ \A j \in DOMAIN chs : <<chs[j], emb[j]>> \in Q
  <2> DEFINE T == Seq(Nat)
  <2>1. /\ past.chs \in Seq(P) /\ past.emb \in Seq(T) /\ leaf \in T /\ z \in T
    BY <1>15, <1>16
  <2> DEFINE xs == past.chs  ys == past.emb
  <2>2. /\ xs \in Seq(P) /\ ys \in Seq(T) /\ Along(past, xs, ys, Q) /\ cur.keys \in Seq(Nat)
        /\ \E i \in 1..Len(cur.keys) : cur.keys[i] = k
        /\ cur.type # "NODEH16" => Len(cur.keys) <= Len(past.keys) + 1
        /\ a \in P /\ leaf \in T /\ <<a, leaf>> \in Q /\ Nil \in P /\ z \in T /\ <<Nil, z>> \in Q
    BY <1>3, <1>11, <1>13, <1>14, <1>17, <2>1
  <2>3. chs = AERT!Spread(cur, past, k, xs, a, Nil) /\ emb = AERT!Spread(cur, past, k, ys, leaf, z)
    BY <1>18
  <2> HIDE DEF P, Q, T, xs, ys, chs
  <2>4. LET u == AERT!Spread(cur, past, k, xs, a, Nil)
            w == AERT!Spread(cur, past, k, ys, leaf, z)
        IN  u \in Seq(P) /\ w \in Seq(T) /\ Len(u) = Len(w) /\ \A j \in DOMAIN u : <<u[j], w[j]>> \in Q
    BY <2>2, SpreadPairs
  <2> QED
    BY <2>3, <2>4 DEF T
<1> HIDE DEF chs
<1>20. \A j \in DOMAIN chs : /\ Len(emb[j]) <= Below(cur) % 2
                             /\ chs[j] # Nil => g[chs[j]].ofs = Below(cur) + Len(emb[j])
  <2> SUFFICES ASSUME NEW j \in DOMAIN chs
               PROVE  /\ Len(emb[j]) <= Below(cur) % 2
                      /\ chs[j] # Nil => g[chs[j]].ofs = Below(cur) + Len(emb[j])
    OBVIOUS
  <2> DEFINE p == chs[j]  f == emb[j]  b == Below(cur)
  <2>1. <<p, f>> \in Beside(P, g, b)
    BY <1>3, <1>19
  <2> HIDE DEF P, p, f, b
  <2>2. Len(f) <= b % 2 /\ (p # Nil => g[p].ofs = b + Len(f))
    BY <2>1, IsBeside
  <2> QED
    BY <2>2 DEF p, f, b
<1>21. IsNode(cur, P) /\ AertFits(g, cur)
  <2>1. c.cur \in DOMAIN g /\ Version(c.cur) = v
    BY <1>3, <1>10, GrowsKeeps DEF Keeps, Grows, OwnNodes
  <2>2. Nodes(g, {Nil}) /\ AllFit(g)
    BY <1>10 DEF Keeps
  <2> QED
    BY <1>10, <2>1, <2>2 DEF Nodes, AllFit, Fits
<1>22. IsNode(t, P) /\ Fits(g, t)
  <2> HIDE DEF P
  <2> QED
    BY <1>3, <1>12, <1>19, <1>20, <1>21, ChildrenFit
<1>23. t.keys = cur.keys /\ t.type = cur.type /\ t.ofs = cur.ofs /\ t.len = cur.len
  <2>1. {"type", "keys", "chs", "ofs", "len", "pfx", "emb"} \subseteq DOMAIN cur
    BY <1>21 DEF IsNode, AertFits
  <2> QED
    BY <1>12, <2>1, ChildrenOf
<1> DEFINE x == [g EXCEPT ![c.cur] = t]
<1>24. q.heap = x /\ q.ctx = e /\ {"heap", "ctx"} \subseteq DOMAIN q
  BY <1>1 DEF Result
<1>25. Keeps(g, x, v)
  <2>1. Nodes(g, {Nil}) /\ AllFit(g) /\ Numbered(g, v) /\ c.cur \in OwnNodes(g, v)
    BY <1>3, <1>10, GrowsKeeps DEF Keeps, Grows
  <2>2. Len(t.keys) >= Len(g[c.cur].keys)
    <3>1. Len(t.keys) \in Nat
      BY <1>3, <1>23, LenProperties
    <3> QED
      BY <1>10, <1>23, <3>1
  <2> QED
    BY <1>3, <1>10, <1>22, <1>23, <2>1, <2>2, RadixWrite
<1> HIDE DEF x
<1>26. Keeps(h, x, v)
  BY <1>3, <1>10, <1>25, KeepsKeeps
<1> HIDE DEF q
<1> QED
  BY <1>3, <1>8, <1>24, <1>26, RadixDone DEF q

\* The old node gets the children it had.
LEMMA AertForkDone ==
  ASSUME structure = "aert", NEW h, NEW c, Starts(h, c), c.op = "FORK", c.op \in Handlers
  PROVE  Leaves(h, c, AERT!HandleFork(h, c))
<1> DEFINE v == c.sno
           old == h[c.cur].chs[c.idx]
           past == h[c.past]
           p == h[old]
           t == Children(p, past.chs, past.emb)
           x == [h EXCEPT ![old] = t]
           d == [c EXCEPT !.cur = old, !.op = "DONE"]
           q == AERT!HandleFork(h, c)
           P == Upto(h, v) \union {Nil}
<1>1. CASE ~AERT!Copied(past)
  <2>1. q = Wild(h, c)
    BY <1>1, AertHeap DEF AERT!HandleFork
  <2> QED
    BY <2>1, RadixWild
<1>2. CASE AERT!Copied(past)
  <2>1. q = Result(Written(h, old, past.chs, past.emb), d)
    BY <1>2, AertHeap DEF AERT!HandleFork, Written
  <2>2. AertBetween(h, c)
    BY AertWaits
  <2>3. /\ Nodes(h, {Nil}) /\ AllFit(h) /\ Numbered(h, v) /\ v \in Nat \ {0} /\ IsContext(c)
        /\ TaskHolds(h, c) /\ structure \notin BTrees
        /\ old \in OwnNodes(h, v) /\ p.type = past.type /\ p.ofs + p.len = past.ofs + past.len
        /\ past.chs \in Seq(Upto(h, v - 1) \union {Nil}) /\ AertFits(h, past)
        /\ Upto(h, v - 1) \union {Nil} \subseteq P
    BY <2>2 DEF AertBetween, AertTask, ForkWaits, BTrees
  <2> HIDE DEF old, past
  <2>4. IsNode(p, P) /\ AertFits(h, p) /\ old \in DOMAIN h
    BY <2>3 DEF OwnNodes, Nodes, AllFit, Fits
  <2>5. past.chs \in Seq(P)
    <3> HIDE DEF P
    <3> QED
      BY <2>3, SeqMonotonic
  <2> HIDE DEF p
  <2>6. {"type", "keys", "chs", "ofs", "len", "pfx", "emb"} \subseteq DOMAIN p
    BY <2>4 DEF IsNode, AertFits
  <2>7. /\ DOMAIN t = DOMAIN p /\ t.chs = past.chs /\ t.emb = past.emb /\ t.keys = p.keys
        /\ t.type = p.type /\ t.ofs = p.ofs /\ t.len = p.len /\ t.pfx = p.pfx
    BY <2>6, ChildrenOf
  <2>8. IsNode(t, P) /\ Fits(h, t)
    <3>1. CASE p.type # "LEAF"
      <4>1. Below(p) = Below(past)
        BY <2>3, <2>4 DEF Below, AertFits
      <4>2. /\ past.emb \in Seq(Seq(Nat)) /\ Len(past.emb) = Len(past.chs)
            /\ \A i \in DOMAIN past.chs :
                 /\ Len(past.emb[i]) <= Below(p) % 2
                 /\ past.chs[i] # Nil => h[past.chs[i]].ofs = Below(p) + Len(past.emb[i])
        BY <2>3, <3>1, <4>1 DEF AertFits
      <4> HIDE DEF P
      <4> QED
        BY <2>4, <2>5, <3>1, <4>2, ChildrenFit
    <3>2. CASE p.type = "LEAF"
      <4>1. past.chs = <<>> /\ past.emb \in Seq(Seq(Nat)) /\ Len(past.emb) = Len(past.chs)
        BY <2>3, <3>2 DEF AertFits
      <4> HIDE DEF t, P
      <4>2. IsNode(t, P)
        BY <2>4, <2>5, <2>7 DEF IsNode
      <4>3. AertFits(h, t)
        BY <2>4, <2>7, <3>2, <4>1 DEF AertFits
      <4> QED
        BY <4>2, <4>3 DEF Fits
    <3> QED
      BY <3>1, <3>2
  <2>9. q.heap = x /\ q.ctx = d /\ {"heap", "ctx"} \subseteq DOMAIN q
    <3>1. Written(h, old, past.chs, past.emb) = x
      BY <2>4, ChildrenWritten DEF p
    <3> QED
      BY <2>1, <3>1 DEF Result
  <2> HIDE DEF t
  <2>10. Keeps(h, x, v)
    <3>1. Len(t.keys) >= Len(h[old].keys)
      <4>1. Len(t.keys) \in Nat
        BY <2>8, LenProperties DEF IsNode
      <4> QED
        BY <2>7, <4>1 DEF p
    <3> QED
      BY <2>3, <2>7, <2>8, <3>1, RadixWrite DEF p
  <2>11. IsContext(d) /\ d.sno = v /\ d.ran = c.ran /\ d.root = c.root /\ d.op = "DONE"
    BY <2>3 DEF IsContext
  <2> HIDE DEF x, d, q
  <2> QED
    BY <2>3, <2>9, <2>10, <2>11, RadixDone DEF q
<1> QED
  BY <1>1, <1>2

LEMMA AertInits ==
  ASSUME structure = "aert", NEW h, NEW c, Starts(h, c), c.op = "INIT"
  PROVE  Leaves(h, c, AERT!HandleInit(h, c))
<1> DEFINE r == AERT!UpdateCow(h, c)
<1>1. NoNode = {Nil} /\ c.op \notin Handlers
  BY DEF NoNode, BTrees, Handlers
<1>2. /\ Nodes(h, {Nil}) /\ AllFit(h) /\ Numbered(h, c.sno) /\ c.sno \in Nat \ {0} /\ IsContext(c)
      /\ c.past \in Upto(h, c.sno - 1) \union {Nil} /\ RootFits(h, c.past) /\ c.ofs = 0 /\ c.emb = <<>>
  BY <1>1 DEF Starts
<1>3. AertReady(h, c)
  <2>1. c.past # Nil => h[c.past].ofs = 0
    BY <1>2 DEF RootFits, BTrees
  <2>2. 0 \in 0..AertDigits /\ 0 % 2 = 0
    BY DigitsEven
  <2>3. c.emb \in Seq(Nat) /\ Len(c.emb) = 0
    BY <1>2
  <2> QED
    BY <1>2, <2>1, <2>2, <2>3 DEF AertReady
<1>4. AertMade(h, c, r)
  BY <1>3, AertUpdateCow
<1>5. AERT!HandleInit(h, c) = Rooted(r)
  BY DEF AERT!HandleInit, AERT!Rooted, Rooted
<1> HIDE DEF r
<1>6. /\ Replaced(h, c, r) /\ r.heap[r.ctx.cur].ofs = 0
      /\ r.ctx.op # "DONE" => c.past # Nil /\ RadixTask(r.heap, r.ctx)
  BY <1>2, <1>4 DEF AertMade, RadixTask, Handlers
<1> QED
  BY <1>2, <1>5, <1>6, RadixRooted

\* A task writes nodes of its own, which stay where they stand.
Rewrites(h, v, id, t) ==
    /\ id \in OwnNodes(h, v) /\ IsNode(t, Upto(h, v) \union {Nil}) /\ Fits(h, t)
    /\ Len(t.keys) >= Len(h[id].keys)
    /\ t.type = h[id].type /\ t.ofs = h[id].ofs /\ t.len = h[id].len
    /\ structure = "aert" /\ t.type = "NODE16" => t.keys = h[id].keys

LEMMA RadixWrites ==
  ASSUME structure \notin BTrees, NEW h, Nodes(h, {Nil}), AllFit(h), NEW v, Numbered(h, v),
         NEW r, DOMAIN r = DOMAIN h, \A id \in DOMAIN h : r[id] = h[id] \/ Rewrites(h, v, id, r[id])
  PROVE  Keeps(h, r, v)
<1>1. \A w : Upto(r, w) = Upto(h, w) /\ OwnNodes(r, w) = OwnNodes(h, w)
  BY DEF Upto, OwnNodes
<1>2. \A id \in DOMAIN h : r[id] = h[id] \/ (Version(id) = v /\ Rewrites(h, v, id, r[id]))
  BY DEF Rewrites, OwnNodes
<1>3. Nodes(r, {Nil})
  <2> SUFFICES ASSUME NEW id \in DOMAIN h
               PROVE  Version(id) \in Nat /\ IsNode(r[id], Upto(h, Version(id)) \union {Nil})
    BY <1>1 DEF Nodes
  <2>1. Version(id) \in Nat /\ IsNode(h[id], Upto(h, Version(id)) \union {Nil})
    BY DEF Nodes
  <2> QED
    BY <1>2, <2>1 DEF Rewrites
<1>4. Steady(h, r)
  BY <1>2 DEF Steady, Rewrites
<1>5. Grows(h, r, v)
  <2>1. \A id \in DOMAIN h : Len(h[id].keys) \in Nat
    BY LenProperties DEF Nodes, IsNode
  <2>2. \A id \in DOMAIN h : Len(r[id].keys) >= Len(h[id].keys)
    BY <1>2, <2>1 DEF Rewrites
  <2>3. Numbered(r, v)
    BY <1>1 DEF Numbered
  <2> QED
    BY <1>2, <2>2, <2>3 DEF Grows
<1>6. Lasts(h, r, v)
  BY <1>4, <1>5 DEF Grows, Lasts
<1>7. NoNode = {Nil}
  BY DEF NoNode
<1>8. ASSUME NEW id \in DOMAIN h PROVE Fits(r, r[id])
  <2>1. CASE r[id] = h[id]
    <3>1. IsNode(h[id], Upto(h, Version(id)) \union NoNode) /\ Fits(h, h[id])
      BY <1>7 DEF Nodes, AllFit
    <3> QED
      BY <1>6, <2>1, <3>1, FitsLast
  <2>2. CASE r[id] # h[id]
    <3>1. IsNode(r[id], Upto(h, v) \union NoNode) /\ Fits(h, r[id])
      BY <1>2, <1>7, <2>2 DEF Rewrites
    <3> QED
      BY <1>6, <3>1, FitsLast
  <2> QED
    BY <2>1, <2>2
<1> QED
  BY <1>3, <1>4, <1>5, <1>8 DEF Keeps, AllFit

\* A half with more children has no fewer keys.
LEMMA HalfGrows ==
  ASSUME NEW T \in SUBSET (0..(AertRadix - 1)), NEW S \in SUBSET T, NEW n
  PROVE  Len(AERT!HalfKeys(n, T)) >= Len(AERT!HalfKeys(n, S))
<1>1. CASE n > AertSmall
  <2>1. AERT!HalfKeys(n, T) = AERT!HalfDigits /\ AERT!HalfKeys(n, S) = AERT!HalfDigits
    BY <1>1 DEF AERT!HalfKeys
  <2>2. Len(AERT!HalfDigits) \in Nat
    BY HalfDigitsListed, LenProperties
  <2> QED
    BY <2>1, <2>2
<1>2. CASE ~(n > AertSmall)
  <2>1. AERT!HalfKeys(n, T) = InOrder(T) /\ AERT!HalfKeys(n, S) = InOrder(S)
    BY <1>2, AertHeap DEF AERT!HalfKeys
  <2>2. T \in SUBSET Nat /\ IsFiniteSet(T)
    <3> DEFINE W == 0..(AertRadix - 1)
    <3>1. 0 \in Int /\ AertRadix - 1 \in Int
      BY DigitsEven
    <3>2. IsFiniteSet(W) /\ W \in SUBSET Nat /\ T \in SUBSET W
      BY <3>1, FS_Interval
    <3> HIDE DEF W
    <3> QED
      BY <3>2, FS_Subset
  <2>3. S \in SUBSET Nat /\ IsFiniteSet(S) /\ Cardinality(S) <= Cardinality(T)
    BY <2>2, FS_Subset
  <2>4. Cardinality(S) \in Nat /\ Cardinality(T) \in Nat
    BY <2>2, <2>3, FS_CardinalityType
  <2>5. Len(InOrder(S)) = Cardinality(S) /\ Len(InOrder(T)) = Cardinality(T)
    BY <2>2, <2>3, InOrderLists DEF Lists
  <2> QED
    BY <2>1, <2>3, <2>4, <2>5
<1> QED
  BY <1>1, <1>2

\* What HandleSplit of the task c writes: child is the child of two half
\* digits, lower the halves that are there.
SplitChild(h, c) ==
    [x \in SplitKeySet(h, c) |->
        IF x = AERT!Part(c.key, c.ofs - 2, 2) THEN Fresh(h, c.sno, 1)
        ELSE h[c.past].chs[AERT!FindIdx(h[c.past], x)]]
SplitLower(h, c) == [f \in AERT!Shared(SplitKeySet(h, c)) |-> h[c.cur].chs[AERT!FindIdx(h[c.cur], f)]]
UpperOf(h, c) ==
    LET ks == SplitKeySet(h, c)
    IN  AERT!UpperHalf(h[c.past], ks, AERT!Firsts(ks), SplitLower(h, c), SplitChild(h, c))
LowerOf(h, c, f) ==
    LET ks == SplitKeySet(h, c)
    IN  AERT!LowerHalf(h[c.past], ks, f, AERT!Seconds(ks, f), SplitChild(h, c))
WithLeaf(h, c) == Alloc(h, c.sno, <<AERT!Leaf(c.ofs, c.key, c.sno)>>)

LEMMA AertSplitWrites ==
  ASSUME NEW h, NEW c, c.emb = <<>>, AERT!Copied(h[c.past]),
         \A f \in AERT!Shared(SplitKeySet(h, c)) : SplitLower(h, c)[f] # c.cur
  PROVE  LET q == AERT!HandleSplit(h, c)  g == WithLeaf(h, c)  S == AERT!Shared(SplitKeySet(h, c)) IN
         /\ {"heap", "ctx"} \subseteq DOMAIN q /\ q.ctx = [c EXCEPT !.op = "DONE"]
         /\ DOMAIN q.heap = DOMAIN g
         /\ \A id \in DOMAIN g :
              \/ q.heap[id] = g[id]
              \/ id = c.cur /\ q.heap[id] = UpperOf(h, c)
              \/ \E f \in S : SplitLower(h, c)[f] = id /\ q.heap[id] = LowerOf(h, c, f)
<1> DEFINE q == AERT!HandleSplit(h, c)
           g == WithLeaf(h, c)
           ks == SplitKeySet(h, c)
           S == AERT!Shared(ks)
           low == SplitLower(h, c)
           filled == {low[f] : f \in S}
           up == UpperOf(h, c)
           x == [id \in DOMAIN g |->
                    CASE id = c.cur -> up
                      [] id \in filled -> LowerOf(h, c, CHOOSE f \in S : low[f] = id)
                      [] OTHER -> g[id]]
           d == [c EXCEPT !.op = "DONE"]
<1>1. q = Result(x, d)
  <2> DEFINE t == h[c.past]
             k == AERT!Part(c.key, c.ofs - 2, 2)
             ks2 == AERT!ToSet(t.keys) \union {k}
             child == [y \in ks2 |-> IF y = k THEN AERT!Fresh(h, c.sno, 1) ELSE t.chs[AERT!FindIdx(t, y)]]
             low2 == [f \in AERT!Shared(ks2) |-> h[c.cur].chs[AERT!FindIdx(h[c.cur], f)]]
             g2 == AERT!Alloc(h, c.sno, <<AERT!Leaf(c.ofs, c.key, c.sno)>>)
             filled2 == {low2[f] : f \in AERT!Shared(ks2)}
             x2 == [id \in DOMAIN g2 |->
                      CASE id = c.cur -> AERT!UpperHalf(t, ks2, AERT!Firsts(ks2), low2, child)
                        [] id \in filled2 ->
                             LET f == CHOOSE y \in AERT!Shared(ks2) : low2[y] = id
                             IN  AERT!LowerHalf(t, ks2, f, AERT!Seconds(ks2, f), child)
                        [] OTHER -> g2[id]]
  <2>1. AERT!HandleSplit(h, c) = IF c.emb # <<>> \/ ~AERT!Copied(t) THEN AERT!Wild(h, c) ELSE AERT!Result(x2, d)
    BY DEF AERT!HandleSplit
  <2>2. ks2 = ks
    BY AertHeap DEF SplitKeySet
  <2>3. g2 = g
    BY AertHeap DEF WithLeaf
  <2>4. low2 = low
    BY <2>2 DEF SplitLower
  <2>5. child = SplitChild(h, c)
    BY <2>2, AertHeap DEF SplitChild
  <2> HIDE DEF ks, ks2, g2, g, low2, low, child
  <2>6. /\ up = AERT!UpperHalf(t, ks, AERT!Firsts(ks), low, child)
        /\ \A f : LowerOf(h, c, f) = AERT!LowerHalf(t, ks, f, AERT!Seconds(ks, f), child)
    BY <2>5 DEF UpperOf, LowerOf, low, ks
  <2> HIDE DEF up
  <2>7. x2 = x
    BY <2>2, <2>3, <2>4, <2>6
  <2> HIDE DEF x, x2
  <2> QED
    BY <2>1, <2>7, AertHeap
<1> HIDE DEF q, g, S, low, up, d
<1>2. \A id \in DOMAIN g :
        \/ x[id] = g[id]
        \/ id = c.cur /\ x[id] = up
        \/ \E f \in S : low[f] = id /\ x[id] = LowerOf(h, c, f)
  <2> SUFFICES ASSUME NEW id \in DOMAIN g
               PROVE  \/ x[id] = g[id]
                      \/ id = c.cur /\ x[id] = up
                      \/ \E f \in S : low[f] = id /\ x[id] = LowerOf(h, c, f)
    OBVIOUS
  <2>0. c.cur \notin filled
    BY DEF S, low
  <2>1. CASE id = c.cur
    BY <2>0, <2>1
  <2>2. CASE id # c.cur /\ id \in filled
    <3> DEFINE f0 == CHOOSE f \in S : low[f] = id
    <3>1. f0 \in S /\ low[f0] = id
      BY <2>2
    <3>2. x[id] = LowerOf(h, c, f0)
      BY <2>2
    <3> QED
      BY <3>1, <3>2
  <2>3. CASE id # c.cur /\ id \notin filled
    BY <2>3
  <2> QED
    BY <2>1, <2>2, <2>3
<1>3. DOMAIN x = DOMAIN g
  OBVIOUS
<1> HIDE DEF x
<1>4. q.heap = x /\ q.ctx = d /\ {"heap", "ctx"} \subseteq DOMAIN q
  BY <1>1 DEF Result
<1> QED
  BY <1>2, <1>3, <1>4 DEF q, g, S, low, up, d

\* The node that is split, the keys of its halves, and the memory g with the
\* new leaf.
SplitFound(h, c, g) ==
    LET t == h[c.past]  ks == SplitKeySet(h, c)  v == c.sno  b == c.ofs
        P == Upto(g, v) \union {Nil}
    IN  /\ SplitOf(ks) /\ v \in Nat \ {0} /\ t.pfx \in Nat
        /\ t.ofs \in Nat /\ t.len \in Nat /\ t.ofs % 2 = 0 /\ t.len % 2 = 0
        /\ b = t.ofs + t.len + 2 /\ b \in 0..AertDigits
        /\ \A x \in ks : /\ SplitChild(h, c)[x] \in P
                         /\ SplitChild(h, c)[x] # Nil => g[SplitChild(h, c)[x]].ofs = b
        /\ c.cur \in OwnNodes(g, v) /\ g[c.cur] = h[c.cur]
        /\ \A f \in AERT!Shared(ks) : /\ SplitLower(h, c)[f] \in OwnNodes(g, v)
                                      /\ SplitLower(h, c)[f] \in P /\ SplitLower(h, c)[f] # Nil
                                      /\ g[SplitLower(h, c)[f]] = h[SplitLower(h, c)[f]]

\* Children of t, in S, that stand at b in h and in g.
Whole(t, S, P, g, h, b) ==
    /\ t.keys \in Seq(Nat) /\ AERT!Copied(t) /\ t.chs \in Seq(S \union {Nil})
    /\ t.emb \in Seq(Seq(Nat)) /\ Len(t.emb) = Len(t.chs) /\ b \in Nat /\ b % 2 = 0
    /\ \A i \in DOMAIN t.chs :
         /\ Len(t.emb[i]) <= b % 2
         /\ t.chs[i] # Nil => h[t.chs[i]].ofs = b + Len(t.emb[i])
    /\ \A id \in S : g[id] = h[id]
    /\ S \union {Nil} \subseteq P

LEMMA SplitChildStands ==
  ASSUME NEW t, NEW S, NEW P, NEW g, NEW h, NEW b, Whole(t, S, P, g, h, b), NEW x \in ToSet(t.keys)
  PROVE  LET p == t.chs[AERT!FindIdx(t, x)] IN p \in P /\ (p # Nil => g[p].ofs = b)
<1> DEFINE i == AERT!FindIdx(t, x)
           p == t.chs[i]
           e == t.emb[i]
<1>0. /\ t.keys \in Seq(Nat) /\ AERT!Copied(t) /\ t.chs \in Seq(S \union {Nil})
      /\ t.emb \in Seq(Seq(Nat)) /\ Len(t.emb) = Len(t.chs) /\ b \in Nat /\ b % 2 = 0
      /\ \A j \in DOMAIN t.chs :
           /\ Len(t.emb[j]) <= b % 2
           /\ t.chs[j] # Nil => h[t.chs[j]].ofs = b + Len(t.emb[j])
      /\ \A id \in S : g[id] = h[id]
      /\ S \union {Nil} \subseteq P
  BY DEF Whole
<1>1. i \in 1..Len(t.keys)
  <2>1. \E j \in 1..Len(t.keys) : t.keys[j] = x
    BY <1>0, SetOfSeq
  <2> QED
    BY <1>0, <2>1, AertFindIdx
<1>2. Len(t.chs) = Len(t.keys) /\ Len(t.emb) = Len(t.keys)
  BY <1>0 DEF AERT!Copied
<1> HIDE DEF i
<1>3. i \in DOMAIN t.chs /\ p \in S \union {Nil} /\ e \in Seq(Nat) /\ i \in 1..Len(t.emb)
  <2>1. i \in DOMAIN t.chs /\ p \in S \union {Nil}
    <3>1. Len(t.keys) \in Nat /\ Len(t.keys) <= Len(t.chs)
      BY <1>0, <1>2, LenProperties
    <3> QED
      BY <1>0, <1>1, <3>1, EarlierPosition
  <2>2. i \in 1..Len(t.emb)
    BY <1>1, <1>2
  <2>3. e \in Seq(Nat)
    BY <1>0, <2>2, LenProperties
  <2> QED
    BY <2>1, <2>2, <2>3
<1>4. Len(e) <= 0 /\ (p # Nil => h[p].ofs = b + Len(e))
  BY <1>0, <1>3
<1> HIDE DEF e, p
<1>5. Len(e) = 0
  <2>1. Len(e) \in Nat
    BY <1>3, LenProperties
  <2> QED
    BY <1>4, <2>1
<1>6. p # Nil => h[p].ofs = b /\ p \in S
  BY <1>0, <1>3, <1>4, <1>5
<1> QED
  BY <1>0, <1>3, <1>6 DEF p, i

LEMMA AertSplitFound ==
  ASSUME structure = "aert", NEW h, NEW c, AertBetween(h, c), c.op = "SPLIT", AERT!Copied(h[c.past])
  PROVE  /\ SplitFound(h, c, WithLeaf(h, c))
         /\ Keeps(h, WithLeaf(h, c), c.sno)
<1> DEFINE v == c.sno
           b == c.ofs
           t == h[c.past]
           cur == h[c.cur]
           k == AERT!Part(c.key, b - 2, 2)
           ks == SplitKeySet(h, c)
           a == Fresh(h, v, 1)
           l == AERT!Leaf(b, c.key, v)
           d == [c EXCEPT !.cur = a]
           S == Upto(h, v - 1)
           g == Alloc(h, v, <<l>>)
           P == Upto(g, v) \union {Nil}
           low == SplitLower(h, c)
<1>1. /\ Nodes(h, {Nil}) /\ AllFit(h) /\ Numbered(h, v) /\ v \in Nat \ {0} /\ IsContext(c)
      /\ c.key \in Nat /\ structure \notin BTrees
      /\ c.cur \in OwnNodes(h, v) /\ c.cur \in DOMAIN h
      /\ AertFits(h, t) /\ t.keys \in Seq(Nat) /\ t.chs \in Seq(S \union {Nil})
      /\ S \subseteq Upto(h, v) /\ S \subseteq DOMAIN h
  BY DEF AertBetween, BTrees, IsContext, Upto
<1>2. /\ t.type = "NODE16" /\ b = Below(t)
      /\ \A f \in AERT!Shared(ks) : low[f] \in OwnNodes(h, v)
  BY DEF AertBetween, AertTask, SplitWaits, SplitLower
<1> HIDE DEF low
<1>3. AERT!KeyLen(t.type) = 2 /\ t.type # "LEAF"
  BY <1>2 DEF AERT!KeyLen
<1>4. /\ t.ofs \in Nat /\ t.len \in Nat /\ t.len % 2 = 0 /\ t.pfx \in Nat /\ t.ofs % 2 = 0
      /\ b = t.ofs + t.len + 2 /\ b \in 0..AertDigits /\ b % 2 = 0 /\ b \in Nat
  <2>1. /\ t.ofs \in Nat /\ t.len \in Nat /\ t.len % 2 = 0 /\ t.pfx \in Nat
        /\ t.ofs % 2 # 1 /\ Below(t) <= AertDigits
    BY <1>1, <1>3 DEF AertFits
  <2>2. b = t.ofs + t.len + 2
    BY <1>2, <1>3 DEF Below
  <2> DEFINE o == t.ofs  n == t.len
  <2>3. o \in Nat /\ n \in Nat /\ n % 2 = 0 /\ o % 2 # 1 /\ b = o + n + 2 /\ b <= AertDigits
    BY <1>2, <2>1, <2>2
  <2> HIDE DEF o, n, b
  <2>4. o % 2 = 0 /\ b \in 0..AertDigits /\ b % 2 = 0 /\ b \in Nat
    BY <2>3, DigitsEven
  <2> QED
    BY <2>1, <2>2, <2>4 DEF o
<1>5. /\ t.emb \in Seq(Seq(Nat)) /\ Len(t.emb) = Len(t.chs)
      /\ \A i \in DOMAIN t.chs :
           /\ Len(t.emb[i]) <= b % 2
           /\ t.chs[i] # Nil => h[t.chs[i]].ofs = b + Len(t.emb[i])
      /\ \A i \in DOMAIN t.keys : t.keys[i] < AertRadix * AertRadix
  <2> HIDE DEF b, t
  <2> QED
    BY <1>1, <1>2, <1>3 DEF AertFits
<1> HIDE DEF t, cur
<1>6. SplitOf(ks) /\ ks = ToSet(t.keys) \union {k}
  <2>1. ks = ToSet(t.keys) \union {k}
    BY DEF SplitKeySet, t
  <2>2. k \in Nat /\ k < AertRadix * AertRadix
    <3> DEFINE pos == b - 2
    <3>1. pos \in Nat /\ pos + 2 <= AertDigits
      <4> HIDE DEF b
      <4> QED
        BY <1>4, DigitsEven
    <3> HIDE DEF pos
    <3> QED
      BY <1>1, <3>1, AertPart DEF pos
  <2> HIDE DEF k, ks
  <2>3. ToSet(t.keys) \in SUBSET Nat /\ \A x : x \in ToSet(t.keys) <=> \E i \in 1..Len(t.keys) : t.keys[i] = x
    BY <1>1, SetOfSeq
  <2>4. DOMAIN t.keys = 1..Len(t.keys)
    BY <1>1, LenProperties
  <2>5. \A x \in ToSet(t.keys) : x < AertRadix * AertRadix
    BY <1>5, <2>3, <2>4
  <2>6. ks \in SUBSET Nat /\ \A x \in ks : x < AertRadix * AertRadix
    BY <2>1, <2>2, <2>3, <2>5
  <2>7. SplitOf(ks)
    BY <2>6, SplitSets
  <2> QED
    BY <2>1, <2>7
<1>7. Childless(l) /\ l.ofs = b
  <2>1. Childless(l) /\ l.ofs = b + (b % 2)
    <3> HIDE DEF b
    <3>1. b \in 0..AertDigits /\ c.key \in Nat
      BY <1>1, <1>4
    <3> QED
      BY <3>1, AertLeafNode
  <2> HIDE DEF l, b
  <2>2. b + (b % 2) = b
    BY <1>4, EvenStays
  <2> QED
    BY <2>1, <2>2
<1>8. /\ IsContext(d) /\ d.sno = v /\ d.ran = c.ran /\ d.root = c.root /\ d.past = c.past
      /\ d.cur = a
  BY <1>1 DEF IsContext
<1> HIDE DEF l, d
<1>9. /\ Replaced(h, c, Result(g, d)) /\ g[d.cur] = l
      /\ \A id \in DOMAIN h : g[id] = h[id]
  <2>1. /\ Nodes(h, {Nil}) /\ AllFit(h) /\ Numbered(h, v) /\ v \in Nat /\ structure \notin BTrees
        /\ Childless(l)
    BY <1>1, <1>7
  <2> QED
    BY <1>8, <2>1, NodeReplaces
<1>10. g = WithLeaf(h, c)
  BY DEF WithLeaf, l
<1> HIDE DEF g
<1>11. Keeps(h, g, v) /\ a \in OwnNodes(g, v) /\ g[a] = l /\ g[c.cur] = cur
  BY <1>1, <1>8, <1>9 DEF Replaced, Result, cur
<1> HIDE DEF a
<1>12. /\ a \in P /\ Nil \in P /\ S \union {Nil} \subseteq P /\ \A id \in S : g[id] = h[id]
       /\ OwnNodes(h, v) \subseteq OwnNodes(g, v) /\ OwnNodes(g, v) \subseteq P
  <2>1. Upto(h, v) \subseteq Upto(g, v) /\ OwnNodes(h, v) \subseteq OwnNodes(g, v)
    BY <1>11, GrowsKeeps DEF Keeps
  <2>2. OwnNodes(g, v) \subseteq Upto(g, v)
    BY <1>1 DEF OwnNodes, Upto
  <2> HIDE DEF S
  <2> QED
    BY <1>1, <1>9, <1>11, <2>1, <2>2
<1>13. \A x \in ks : SplitChild(h, c)[x] = IF x = k THEN a ELSE t.chs[AERT!FindIdx(t, x)]
  BY DEF SplitChild, a, t
<1> HIDE DEF P, k, ks
<1>14. ASSUME NEW x \in ks
       PROVE  SplitChild(h, c)[x] \in P /\ (SplitChild(h, c)[x] # Nil => g[SplitChild(h, c)[x]].ofs = b)
  <2>1. CASE x = k
    BY <1>7, <1>11, <1>12, <1>13, <2>1
  <2>2. CASE x # k
    <3>1. x \in ToSet(t.keys) /\ AERT!Copied(t)
      BY <1>6, <2>2 DEF t
    <3> DEFINE p == t.chs[AERT!FindIdx(t, x)]
    <3>2. p \in P /\ (p # Nil => g[p].ofs = b)
      <4>1. Whole(t, S, P, g, h, b) /\ x \in ToSet(t.keys)
        BY <1>1, <1>4, <1>5, <1>12, <3>1 DEF Whole
      <4> HIDE DEF S, b, p
      <4>2. LET y == t.chs[AERT!FindIdx(t, x)] IN y \in P /\ (y # Nil => g[y].ofs = b)
        BY <4>1, SplitChildStands
      <4> QED
        BY <4>2 DEF p
    <3>3. SplitChild(h, c)[x] = p
      BY <1>13, <2>2
    <3> HIDE DEF p
    <3> QED
      BY <3>2, <3>3
  <2> QED
    BY <2>1, <2>2
<1>15. ASSUME NEW f \in AERT!Shared(ks)
       PROVE  low[f] \in OwnNodes(g, v) /\ low[f] \in P /\ low[f] # Nil /\ g[low[f]] = h[low[f]]
  <2>1. low[f] \in OwnNodes(h, v) /\ low[f] \in DOMAIN h
    BY <1>2 DEF OwnNodes, ks
  <2>2. \E j : low[f] = <<v, j>>
    BY <1>1, <2>1 DEF Numbered
  <2>3. low[f] # Nil
    BY <2>2 DEF Nil
  <2> HIDE DEF S
  <2> QED
    BY <1>9, <1>12, <2>1, <2>3
<1>16. c.cur \in OwnNodes(g, v) /\ g[c.cur] = h[c.cur]
  BY <1>1, <1>11, <1>12 DEF cur
<1>17. SplitFound(h, c, g)
  BY <1>1, <1>4, <1>6, <1>14, <1>15, <1>16 DEF SplitFound, ks, P, t, low
<1> QED
  BY <1>10, <1>11, <1>17

\* The upper half gets its other children,
LEMMA AertUpperWhole ==
  ASSUME structure = "aert", NEW h, NEW c, AertTask(h, c), c.op = "SPLIT", NEW g, SplitFound(h, c, g)
  PROVE  Rewrites(g, c.sno, c.cur, UpperOf(h, c))
<1> DEFINE v == c.sno
           t == h[c.past]
           ks == SplitKeySet(h, c)
           F == AERT!Firsts(ks)
           S == AERT!Shared(ks)
           P == Upto(g, v) \union {Nil}
           low == SplitLower(h, c)
           child == SplitChild(h, c)
           u == UpperOf(h, c)
           m == Cardinality(F)
           o == t.ofs
           l == t.len
           b == t.ofs + t.len + 1
           chs == UpperChs(ks, F, low, child)
           emb == UpperEmb(ks, F)
<1>1. /\ SplitOf(ks) /\ o \in Nat /\ l \in Nat /\ o % 2 = 0 /\ l % 2 = 0 /\ t.pfx \in Nat
      /\ c.ofs = o + l + 2 /\ c.ofs \in 0..AertDigits
      /\ c.cur \in OwnNodes(g, v) /\ g[c.cur] = h[c.cur]
      /\ \A x \in ks : child[x] \in P /\ (child[x] # Nil => g[child[x]].ofs = c.ofs)
      /\ \A f \in S : low[f] \in P /\ g[low[f]] = h[low[f]]
  BY DEF SplitFound
<1>2. /\ HalfWaits(h[c.cur], m, S, o, l)
      /\ \A f \in S : h[low[f]].ofs = b
  BY DEF AertTask, SplitWaits, HalfWaits, SplitLower
<1>3. /\ F \in SUBSET (0..(AertRadix - 1)) /\ S \in SUBSET F
      /\ \A f \in F : Only(ks, f) \in 0..(AertRadix - 1) /\ f * AertRadix + Only(ks, f) \in ks
  <2>1. \A f \in F : Only(ks, f) \in AERT!Seconds(ks, f)
    BY <1>1 DEF SplitOf, Only
  <2> HIDE DEF ks
  <2> QED
    BY <1>1, <2>1 DEF SplitOf
<1>4. u = AERT!UpperHalf(t, ks, F, low, child)
  BY DEF UpperOf
<1> HIDE DEF u, ks, low, child, t
<1>5. IsHalf(u, m, F, o, l, chs, emb) /\ u.pfx = t.pfx
  <2> HIDE DEF F
  <2>1. F \in SUBSET (0..(AertRadix - 1)) /\ u = AERT!UpperHalf(t, ks, F, low, child)
    BY <1>3, <1>4
  <2>2. m = Cardinality(AERT!Firsts(ks))
    BY DEF F
  <2> QED
    BY <2>1, <2>2, UpperIs
<1> HIDE DEF m
<1>6. /\ b \in Nat /\ b % 2 = 1 /\ b + 1 = c.ofs /\ b + 0 = b /\ b <= AertDigits
  <2> HIDE DEF o, l
  <2>1. o + l + 1 \in Nat /\ (o + l + 1) % 2 = 1 /\ o + l + 1 + 1 = c.ofs /\ o + l + 1 <= AertDigits
    BY <1>1, DigitsEven
  <2> QED
    BY <2>1 DEF o, l
<1>7. ASSUME NEW f \in F
      PROVE  /\ chs[f] \in P /\ emb[f] \in Seq(Nat) /\ Len(emb[f]) <= b % 2
             /\ chs[f] # Nil => g[chs[f]].ofs = b + Len(emb[f])
  <2> DEFINE w == Only(ks, f)
             one == <<w>>
             z == <<>>
  <2>1. /\ chs[f] = IF f \in S THEN low[f] ELSE child[f * AertRadix + w]
        /\ emb[f] = IF f \in S THEN z ELSE one
    BY DEF UpperChs, UpperEmb
  <2> HIDE DEF chs, emb
  <2>2. w \in Nat
    BY <1>3, DigitsEven
  <2>3. one \in Seq(Nat) /\ Len(one) = 1 /\ z \in Seq(Nat) /\ Len(z) = 0
    <3> HIDE DEF w
    <3> QED
      BY <2>2
  <2>4. CASE f \in S
    <3>1. chs[f] = low[f] /\ emb[f] = z /\ g[low[f]].ofs = b /\ low[f] \in P
      BY <1>1, <1>2, <2>1, <2>4
    <3> HIDE DEF b, P, z
    <3> QED
      BY <1>6, <2>3, <3>1
  <2>5. CASE f \notin S
    <3> DEFINE x == child[f * AertRadix + w]
    <3>1. chs[f] = x /\ emb[f] = one
      BY <2>1, <2>5
    <3>2. x \in P /\ (x # Nil => g[x].ofs = c.ofs)
      BY <1>1, <1>3
    <3> HIDE DEF b, P, x, one
    <3>3. Len(emb[f]) = 1 /\ emb[f] \in Seq(Nat) /\ chs[f] \in P
      BY <2>3, <3>1, <3>2
    <3>4. Len(emb[f]) <= b % 2
      BY <1>6, <3>3
    <3>5. chs[f] # Nil => g[chs[f]].ofs = b + Len(emb[f])
      BY <1>6, <3>1, <3>2, <3>3
    <3> QED
      BY <3>3, <3>4, <3>5
  <2> QED
    BY <2>4, <2>5
<1> HIDE DEF chs, emb, S
<1>8. HalfStands(u, m, F, o, l, chs, emb, b, P, g)
  <2>1. o % 2 # 1
    BY <1>1
  <2>2. b = o + l + 1
    OBVIOUS
  <2> HIDE DEF F, b, P, o, l
  <2> QED
    BY <1>1, <1>5, <1>6, <1>7, <2>1, <2>2 DEF HalfStands
<1>9. IsNode(u, P \union {Nil}) /\ Fits(g, u)
  <2> HIDE DEF F, b, P, o, l
  <2> QED
    BY <1>8, HalfFits
<1>10. IsNode(u, Upto(g, v) \union {Nil})
  <2>1. P \union {Nil} = Upto(g, v) \union {Nil}
    OBVIOUS
  <2> QED
    BY <1>9, <2>1
<1>11. /\ u.type = AERT!HalfType(m) /\ u.keys = AERT!HalfKeys(m, F) /\ u.ofs = o /\ u.len = l
       /\ g[c.cur].type = AERT!HalfType(m) /\ g[c.cur].keys = AERT!HalfKeys(m, S)
       /\ g[c.cur].ofs = o /\ g[c.cur].len = l
  BY <1>1, <1>2, <1>5 DEF HalfWaits, IsHalf
<1>12. AERT!HalfType(m) # "NODE16"
  BY DEF AERT!HalfType
<1>13. Len(u.keys) >= Len(g[c.cur].keys)
  <2> HIDE DEF F
  <2> QED
    BY <1>3, <1>11, HalfGrows
<1> QED
  BY <1>1, <1>9, <1>10, <1>11, <1>12, <1>13 DEF Rewrites, u

\* and so do the lower ones.
LEMMA AertLowerWhole ==
  ASSUME structure = "aert", NEW h, NEW c, AertTask(h, c), c.op = "SPLIT", NEW g, SplitFound(h, c, g),
         NEW f \in AERT!Shared(SplitKeySet(h, c))
  PROVE  /\ Rewrites(g, c.sno, SplitLower(h, c)[f], LowerOf(h, c, f))
         /\ SplitLower(h, c)[f] # c.cur
<1> DEFINE v == c.sno
           t == h[c.past]
           ks == SplitKeySet(h, c)
           S == AERT!Seconds(ks, f)
           P == Upto(g, v) \union {Nil}
           low == SplitLower(h, c)[f]
           child == SplitChild(h, c)
           u == LowerOf(h, c, f)
           m == Cardinality(S)
           o == t.ofs + t.len + 1
           b == c.ofs
           chs == LowerChs(f, S, child)
           emb == LowerEmb(S)
           z == <<>>
           l == 0
<1>1. /\ SplitOf(ks) /\ t.ofs \in Nat /\ t.len \in Nat /\ t.ofs % 2 = 0 /\ t.len % 2 = 0
      /\ b = t.ofs + t.len + 2 /\ b \in 0..AertDigits
      /\ \A x \in ks : child[x] \in P /\ (child[x] # Nil => g[child[x]].ofs = b)
      /\ low \in OwnNodes(g, v) /\ g[low] = h[low]
  BY DEF SplitFound
<1>2. HalfWaits(h[low], m, {}, o, 0) /\ h[c.cur].ofs = t.ofs
  BY DEF AertTask, SplitWaits, HalfWaits, SplitLower
<1>3. S \in SUBSET (0..(AertRadix - 1)) /\ \A s \in S : f * AertRadix + s \in ks
  <2> HIDE DEF ks
  <2>1. f \in AERT!Firsts(ks)
    BY <1>1 DEF SplitOf, ks
  <2> QED
    BY <1>1, <2>1 DEF SplitOf
<1>4. u = AERT!LowerHalf(t, ks, f, S, child)
  BY DEF LowerOf
<1> HIDE DEF u, ks, low, child, t
<1>5. IsHalf(u, m, S, o, l, chs, emb) /\ u.pfx = 0
  <2> HIDE DEF S
  <2>1. S \in SUBSET (0..(AertRadix - 1)) /\ u = AERT!LowerHalf(t, ks, f, S, child)
    BY <1>3, <1>4
  <2>2. m = Cardinality(AERT!Seconds(ks, f))
    BY DEF S
  <2> QED
    BY <2>1, <2>2, LowerIs
<1> HIDE DEF m
<1>6. /\ o \in Nat /\ b = o + l + 1 /\ b \in Nat /\ b <= AertDigits /\ b % 2 \in Nat /\ b + 0 = b
      /\ l \in Nat /\ l % 2 = 0 /\ o # t.ofs
  <2> DEFINE p == t.ofs  q == t.len
  <2>1. p \in Nat /\ q \in Nat /\ o = p + q + 1 /\ b = p + q + 2 /\ b \in 0..AertDigits
    BY <1>1
  <2> HIDE DEF b, o, p, q
  <2> QED
    BY <2>1, DigitsEven DEF p
<1>7. ASSUME NEW s \in S
      PROVE  /\ chs[s] \in P /\ emb[s] \in Seq(Nat) /\ Len(emb[s]) <= b % 2
             /\ chs[s] # Nil => g[chs[s]].ofs = b + Len(emb[s])
  <2> DEFINE x == child[f * AertRadix + s]
  <2>1. chs[s] = x /\ emb[s] = z
    BY DEF LowerChs, LowerEmb
  <2> HIDE DEF chs, emb
  <2>2. x \in P /\ (x # Nil => g[x].ofs = b)
    BY <1>1, <1>3
  <2>3. z \in Seq(Nat) /\ Len(z) = 0
    OBVIOUS
  <2> HIDE DEF z, x, P, b
  <2> QED
    BY <1>6, <2>1, <2>2, <2>3
<1> HIDE DEF chs, emb
<1>8. HalfStands(u, m, S, o, l, chs, emb, b, P, g)
  <2>1. l = 0 /\ u.pfx \in Nat
    BY <1>5
  <2> HIDE DEF S, b, P, o, l
  <2> QED
    BY <1>5, <1>6, <1>7, <2>1 DEF HalfStands
<1>9. IsNode(u, P \union {Nil}) /\ Fits(g, u)
  <2> HIDE DEF S, b, P, o, l
  <2> QED
    BY <1>8, HalfFits
<1>10. IsNode(u, Upto(g, v) \union {Nil})
  <2>1. P \union {Nil} = Upto(g, v) \union {Nil}
    OBVIOUS
  <2> QED
    BY <1>9, <2>1
<1>11. /\ u.type = AERT!HalfType(m) /\ u.keys = AERT!HalfKeys(m, S) /\ u.ofs = o /\ u.len = 0
       /\ g[low].type = AERT!HalfType(m) /\ g[low].keys = AERT!HalfKeys(m, {})
       /\ g[low].ofs = o /\ g[low].len = 0
  <2> HIDE DEF o
  <2> QED
    BY <1>1, <1>2, <1>5 DEF HalfWaits, IsHalf
<1>12. AERT!HalfType(m) # "NODE16"
  BY DEF AERT!HalfType
<1>13. Len(u.keys) >= Len(g[low].keys)
  <2> HIDE DEF S
  <2> QED
    BY <1>3, <1>11, HalfGrows
<1>14. low # c.cur
  <2>1. h[low].ofs = o /\ h[c.cur].ofs = t.ofs
    BY <1>2 DEF HalfWaits
  <2> QED
    BY <1>6, <2>1
<1> QED
  BY <1>1, <1>9, <1>10, <1>11, <1>12, <1>13, <1>14 DEF Rewrites, u, low

LEMMA AertSplitDone ==
  ASSUME structure = "aert", NEW h, NEW c, Starts(h, c), c.op = "SPLIT", c.op \in Handlers
  PROVE  Leaves(h, c, AERT!HandleSplit(h, c))
<1> DEFINE q == AERT!HandleSplit(h, c)
           g == WithLeaf(h, c)
           v == c.sno
           d == [c EXCEPT !.op = "DONE"]
<1>1. AertBetween(h, c)
  BY AertWaits
<1>2. CASE c.emb # <<>> \/ ~AERT!Copied(h[c.past])
  <2>1. q = Wild(h, c)
    BY <1>2, AertHeap DEF AERT!HandleSplit
  <2> QED
    BY <2>1, RadixWild
<1>3. CASE c.emb = <<>> /\ AERT!Copied(h[c.past])
  <2>1. SplitFound(h, c, g) /\ Keeps(h, g, v) /\ AertTask(h, c)
    BY <1>1, <1>3, AertSplitFound DEF AertBetween
  <2>2. Rewrites(g, v, c.cur, UpperOf(h, c))
    BY <2>1, AertUpperWhole
  <2>3. \A f \in AERT!Shared(SplitKeySet(h, c)) :
          Rewrites(g, v, SplitLower(h, c)[f], LowerOf(h, c, f)) /\ SplitLower(h, c)[f] # c.cur
    BY <2>1, AertLowerWhole
  <2>4. /\ {"heap", "ctx"} \subseteq DOMAIN q /\ q.ctx = d
        /\ DOMAIN q.heap = DOMAIN g
        /\ \A id \in DOMAIN g :
             \/ q.heap[id] = g[id]
             \/ id = c.cur /\ q.heap[id] = UpperOf(h, c)
             \/ \E f \in AERT!Shared(SplitKeySet(h, c)) :
                  SplitLower(h, c)[f] = id /\ q.heap[id] = LowerOf(h, c, f)
    <3>1. /\ c.emb = <<>> /\ AERT!Copied(h[c.past])
          /\ \A f \in AERT!Shared(SplitKeySet(h, c)) : SplitLower(h, c)[f] # c.cur
      BY <1>3, <2>3
    <3> QED
      BY <3>1, AertSplitWrites
  <2> HIDE DEF q, g, d
  <2>5. \A id \in DOMAIN g : q.heap[id] = g[id] \/ Rewrites(g, v, id, q.heap[id])
    BY <2>2, <2>3, <2>4
  <2>6. /\ Nodes(h, {Nil}) /\ structure \notin BTrees /\ TaskHolds(h, c) /\ IsContext(c)
    BY <1>1 DEF AertBetween, BTrees
  <2>7. Keeps(g, q.heap, v)
    <3>1. Nodes(g, {Nil}) /\ AllFit(g) /\ Numbered(g, v)
      BY <2>1 DEF Keeps, Grows
    <3> DEFINE r == q.heap
    <3>2. DOMAIN r = DOMAIN g /\ \A id \in DOMAIN g : r[id] = g[id] \/ Rewrites(g, v, id, r[id])
      BY <2>4, <2>5
    <3> HIDE DEF r
    <3>3. Keeps(g, r, v)
      BY <2>6, <3>1, <3>2, RadixWrites
    <3> QED
      BY <3>3 DEF r
  <2>8. Keeps(h, q.heap, v)
    BY <2>1, <2>6, <2>7, KeepsKeeps
  <2>9. IsContext(d) /\ d.sno = v /\ d.ran = c.ran /\ d.root = c.root /\ d.op = "DONE"
    BY <2>6 DEF IsContext, d
  <2> QED
    BY <2>4, <2>6, <2>8, <2>9, RadixDone DEF q
<1> QED
  BY <1>2, <1>3

LEMMA AertLeaves ==
  ASSUME structure = "aert", NEW h, NEW c, Starts(h, c)
  PROVE  Leaves(h, c, Handle(h, c))
<1>1. Handle(h, c) = AERT!Handle(h, c) /\ Handlers = {"SEARCH", "INSERT", "FORK", "SPLIT"}
  BY DEF Handle, Handlers
<1>2. c.op \in {"INIT", "SEARCH", "INSERT", "FORK", "SPLIT"}
  BY <1>1 DEF Starts
<1>3. AERT!Wild(h, c) = Wild(h, c)
  BY AertHeap
<1>4. CASE c.op = "INIT"
  <2>1. AERT!Handle(h, c) = AERT!HandleInit(h, c)
    BY <1>4 DEF AERT!Handle
  <2> QED
    BY <1>1, <1>4, <2>1, AertInits
<1>5. CASE c.op = "SEARCH"
  <2>1. AERT!Handle(h, c) = AERT!HandleSearch(h, c)
    BY <1>5 DEF AERT!Handle
  <2>2. CASE AERT!Copied(h[c.past])
    BY <1>1, <1>5, <2>1, <2>2, AertSearches
  <2>3. CASE ~AERT!Copied(h[c.past])
    BY <1>1, <1>3, <2>1, <2>3, RadixWild DEF AERT!HandleSearch
  <2> QED
    BY <2>2, <2>3
<1>6. CASE c.op = "INSERT"
  <2>1. AERT!Handle(h, c) = AERT!HandleInsert(h, c)
    BY <1>6 DEF AERT!Handle
  <2>2. CASE AERT!Copied(h[c.past])
    BY <1>1, <1>6, <2>1, <2>2, AertInserts
  <2>3. CASE ~AERT!Copied(h[c.past])
    BY <1>1, <1>3, <2>1, <2>3, RadixWild DEF AERT!HandleInsert
  <2> QED
    BY <2>2, <2>3
<1>7. CASE c.op = "FORK"
  <2>1. AERT!Handle(h, c) = AERT!HandleFork(h, c)
    BY <1>7 DEF AERT!Handle
  <2> QED
    BY <1>1, <1>7, <2>1, AertForkDone
<1>8. CASE c.op = "SPLIT"
  <2>1. AERT!Handle(h, c) = AERT!HandleSplit(h, c)
    BY <1>8 DEF AERT!Handle
  <2> QED
    BY <1>1, <1>8, <2>1, AertSplitDone
<1> QED
  BY <1>2, <1>4, <1>5, <1>6, <1>7, <1>8

-------------------------------------------------------------------------------
(* The steps of the tasks *)

LEMMA HandlerLeaves ==
  ASSUME structure \in Structures, NEW h, NEW c, Starts(h, c)
  PROVE  Leaves(h, c, Handle(h, c))
<1>1. CASE structure \in BTrees
  BY <1>1, BTreesLeave
<1>2. CASE structure = "art"
  BY <1>2, ArtLeaves
<1>3. CASE structure = "aert"
  BY <1>3, AertLeaves
<1> QED
  BY <1>1, <1>2, <1>3, StructuresAssumption DEF BTrees

LEMMA HandlerSteps ==
  ASSUME CowInv, structure' = structure, NEW u \in 1..(Len(ctx) + 1), NEW c, c.sno = u,
         Starts(heap, c), u \in Ids => ctx[u] = c /\ c.op # "DONE",
         NEW inPipe, Handler(u, c, inPipe)
  PROVE  CowInv' /\ WritesOwnNodes
<1> DEFINE r == Handle(heap, c)
           wild == r.ctx.op # "DONE" /\ HalfMade(u, r.ctx.past)
           d == [r.ctx EXCEPT !.op = IF wild THEN "WILD" ELSE @, !.ran = @ + 1,
                              !.stage = IF inPipe THEN @ ELSE @ + 1]
<1>0. Len(ctx) \in Nat /\ Ids = 1..Len(ctx) /\ u \in Nat \ {0}
  BY Counted DEF CowInv, TasksHold
<1>1. Leaves(heap, c, r)
  BY HandlerLeaves DEF CowInv
<1>2. heap' = r.heap /\ ctx' = [i \in Ids \union {u} |-> IF i = u THEN d ELSE ctx[i]]
  BY DEF Handler, After
<1> HIDE DEF r, wild
<1>3. IsContext(r.ctx) /\ r.ctx.sno = u /\ r.ctx.ran = c.ran /\ c.ran \in Nat
  <2>1. IsContext(c)
    BY DEF Starts
  <2> QED
    BY <1>1, <2>1 DEF Leaves, IsContext
<1>4. /\ IsContext(d) /\ d.sno = u /\ d.ran = c.ran + 1
      /\ d.op = IF wild THEN "WILD" ELSE r.ctx.op
      /\ d.root = r.ctx.root /\ d.past = r.ctx.past /\ d.cur = r.ctx.cur /\ d.idx = r.ctx.idx
      /\ d.key = r.ctx.key /\ d.ofs = r.ctx.ofs /\ d.emb = r.ctx.emb
  BY <1>3 DEF IsContext
<1>5. d.op # "WILD" => TaskHolds(r.heap, d)
  <2>1. SUFFICES ASSUME d.op # "WILD" PROVE TaskHolds(r.heap, d)
    OBVIOUS
  <2>2. d.op = r.ctx.op /\ TaskHolds(r.heap, r.ctx)
    BY <1>1, <1>4, <2>1 DEF Leaves
  <2> HIDE DEF d
  <2>3. d.sno = r.ctx.sno
    BY <1>3, <1>4
  <2>4. /\ CopiesBTree(r.heap, r.ctx) => CopiesBTree(r.heap, d)
        /\ ArtTask(r.heap, r.ctx) => ArtTask(r.heap, d)
        /\ AertTask(r.heap, r.ctx) => AertTask(r.heap, d)
    BY <1>4, <2>2, <2>3 DEF CopiesBTree, ArtTask, AertTask, ForkWaits, SplitWaits, SplitKeySet
  <2> QED
    BY <1>4, <2>2, <2>3, <2>4 DEF TaskHolds
<1> HIDE DEF d
<1>6. Moves(u, d)
  BY <1>0, <1>2, MovesAfter
<1>7. Lasts(heap, heap', u) /\ Nodes(heap', NoNode) /\ AllFit(heap') /\ Numbered(heap', u)
  BY <1>1, <1>2 DEF Leaves, Grows, Lasts
<1>8. CowInv'
  <2>1. \A i \in DOMAIN heap' \ DOMAIN heap : Version(i) = u
    BY <1>7 DEF Lasts
  <2>2. d.op # "WILD" => TaskHolds(heap', d)
    BY <1>2, <1>5
  <2> QED
    BY <1>4, <1>6, <1>7, <2>1, <2>2, InvStep
<1>9. WritesOwnNodes
  <2>1. SUFFICES ASSUME NEW i \in DOMAIN heap
                 PROVE  /\ i \in DOMAIN heap'
                        /\ heap'[i] # heap[i] =>
                             Version(i) \in Ids /\ ~Finished(Version(i)) /\ ctx'[Version(i)] # ctx[Version(i)]
    BY DEF WritesOwnNodes
  <2>2. i \in DOMAIN heap' /\ (heap'[i] # heap[i] => Version(i) = u)
    BY <1>7 DEF Lasts
  <2>3. CASE Version(i) # u
    BY <2>2, <2>3
  <2>4. CASE Version(i) = u
    <3>1. u \in Ids
      BY <1>0, <2>4 DEF CowInv, NodesMade
    <3>2. ctx[u] = c /\ c.op # "DONE" /\ ctx'[u] = d
      BY <1>6, <3>1 DEF Moves
    <3>3. d # c
      BY <1>3, <1>4
    <3> QED
      BY <2>2, <2>4, <3>1, <3>2, <3>3 DEF Finished
  <2> QED
    BY <2>3, <2>4
<1> QED
  BY <1>8, <1>9

\* The tree a new task starts from.
LEMMA RootBefore ==
  ASSUME CowInv, Defined, NEW u \in 1..(Len(ctx) + 1)
  PROVE  RootOf(u - 1) \in Upto(heap, u - 1) \union NoNode /\ RootFits(heap, RootOf(u - 1))
<1>0. Len(ctx) \in Nat /\ Ids = 1..Len(ctx) /\ u \in Nat
  BY Counted DEF CowInv, TasksHold
<1>1. CASE u = 1
  <2>1. RootOf(u - 1) = BuiltRoot /\ u - 1 = 0
    BY <1>1 DEF RootOf
  <2>2. BuiltRoot \in Upto(heap, 0) \union NoNode
    <3>1. Version(<<0, 0>>) = 0
      BY DEF Version
    <3> QED
      BY <3>1 DEF BuiltRoot, Upto, CowInv, NodesMade, NoNode
  <2> QED
    BY <2>1, <2>2 DEF CowInv, NodesFit
<1>2. CASE u # 1
  <2>1. u - 1 \in Ids /\ u - 1 # 0
    BY <1>0, <1>2
  <2>2. RootOf(u - 1) = ctx[u - 1].root /\ TaskHolds(heap, ctx[u - 1]) /\ ctx[u - 1].sno = u - 1
    BY <2>1 DEF RootOf, Defined, CowInv, TasksHold
  <2> QED
    BY <2>2 DEF TaskHolds
<1> QED
  BY <1>1, <1>2

LEMMA HeapNodes ==
  ASSUME CowInv
  PROVE  /\ Nodes(heap, NoNode) /\ AllFit(heap) /\ Len(ctx) \in Nat /\ Ids = 1..Len(ctx)
         /\ \A u \in 1..(Len(ctx) + 1) : Numbered(heap, u)
<1>1. Len(ctx) \in Nat /\ Ids = 1..Len(ctx)
  BY Counted DEF CowInv, TasksHold
<1>2. Nodes(heap, NoNode) /\ AllFit(heap)
  BY <1>1 DEF CowInv, Nodes, AllFit, NodesMade, NodesFit, PointersBack
<1>3. Numbered(heap, Len(ctx) + 1)
  <2>1. OwnNodes(heap, Len(ctx) + 1) = {}
    BY <1>1 DEF OwnNodes, CowInv, NodesMade
  <2>2. IsFiniteSet({}) /\ Cardinality({}) = 0 /\ 1..0 = {}
    BY FS_EmptySet
  <2> QED
    BY <2>1, <2>2 DEF Numbered
<1> QED
  BY <1>1, <1>2, <1>3 DEF CowInv, NodesMade

LEMMA EntryStarts ==
  ASSUME CowInv, NEW u, NEW key \in KeySet, Entry(u, key)
  PROVE  /\ u \in 1..(Len(ctx) + 1) /\ u \notin Ids /\ structure' = structure
         /\ \E c : c.sno = u /\ Starts(heap, c) /\ Handler(u, c, TRUE)
<1> DEFINE c == NewContext(u, key, RootOf(u - 1))
<1>1. Defined /\ u = Len(ctx) + 1 /\ structure' = structure /\ Handler(u, c, TRUE)
  BY DEF Entry, Submitted
<1>2. u \in 1..(Len(ctx) + 1) /\ u \notin Ids /\ u \in Nat \ {0}
  BY <1>1, HeapNodes
<1>3. /\ IsContext(c) /\ c.sno = u /\ c.op = "INIT" /\ c.past = RootOf(u - 1)
      /\ c.ofs = 0 /\ c.emb = <<>>
  BY KeysAssumption DEF NewContext, IsContext
<1> HIDE DEF c
<1>4. Starts(heap, c)
  BY <1>1, <1>2, <1>3, HeapNodes, RootBefore DEF Starts
<1> QED
  BY <1>1, <1>2, <1>3, <1>4

LEMMA EntrySteps ==
  ASSUME CowInv, NEW u, NEW key \in KeySet, Entry(u, key)
  PROVE  CowInv' /\ WritesOwnNodes
BY EntryStarts, HandlerSteps

LEMMA TaskStarts ==
  ASSUME CowInv, Defined, NEW u \in Ids, ctx[u].op # "DONE"
  PROVE  Starts(heap, ctx[u]) /\ u \in 1..(Len(ctx) + 1) /\ ctx[u].sno = u
<1>1. u \in 1..(Len(ctx) + 1) /\ u \in Nat \ {0}
  BY HeapNodes
<1>2. ctx[u].sno = u /\ IsContext(ctx[u]) /\ TaskHolds(heap, ctx[u])
  BY DEF CowInv, TasksHold, Defined
<1> QED
  BY <1>1, <1>2, HeapNodes DEF Starts, TaskHolds

LEMMA TaskSteps ==
  ASSUME CowInv, NEW u \in Ids, InnerPipe(u) \/ Worker(u)
  PROVE  CowInv' /\ WritesOwnNodes
<1>1. /\ Defined /\ ctx[u].op # "DONE" /\ structure' = structure
      /\ \E inPipe \in BOOLEAN : Handler(u, ctx[u], inPipe)
  BY DEF InnerPipe, Worker
<1> QED
  BY <1>1, TaskStarts, HandlerSteps

LEMMA SkipSteps ==
  ASSUME CowInv, NEW u, CheckpointSkip(u)
  PROVE  CowInv' /\ WritesOwnNodes
<1> DEFINE c == Passed(u, RootOf(u - 1))
<1>1. /\ Defined /\ u = Len(ctx) + 1 /\ ctx' = Append(ctx, c)
      /\ structure' = structure /\ heap' = heap
  BY DEF CheckpointSkip, Submitted
<1>2. u \in 1..(Len(ctx) + 1) /\ u \in Nat
  BY <1>1, HeapNodes
<1>3. IsContext(c) /\ c.sno = u /\ c.op = "DONE" /\ c.root = RootOf(u - 1)
  BY DEF Passed, NewContext, IsContext
<1> HIDE DEF c
<1>4. Moves(u, c)
  BY <1>1, MovesAppend DEF CowInv, TasksHold
<1>5. Lasts(heap, heap', u)
  BY <1>1, HeapNodes, LenProperties DEF Lasts, Steady, Nodes, IsNode
<1>6. TaskHolds(heap', c)
  <2>1. RootOf(u - 1) \in Upto(heap, u - 1) \union NoNode /\ RootFits(heap, RootOf(u - 1))
    BY <1>1, <1>2, RootBefore
  <2>2. Upto(heap, u - 1) \subseteq Upto(heap, u)
    <3>1. \A i \in DOMAIN heap : Version(i) \in Nat
      BY HeapNodes DEF Nodes
    <3>2. \A n \in Nat : n <= u - 1 => n <= u
      BY <1>2
    <3> QED
      BY <3>1, <3>2 DEF Upto
  <2> QED
    BY <1>1, <1>3, <2>1, <2>2 DEF TaskHolds
<1>7. Nodes(heap', NoNode) /\ AllFit(heap') /\ Numbered(heap', u)
  BY <1>1, <1>2, HeapNodes
<1>8. CowInv'
  BY <1>1, <1>2, <1>3, <1>4, <1>5, <1>6, <1>7, InvStep
<1> QED
  BY <1>1, <1>8 DEF WritesOwnNodes

\* The nodes of a checkpoint lead to one another.
LEMMA BuiltFits ==
  ASSUME NEW h, NEW n, Built(h, n), NEW i \in BuiltNodes(h, n)
  PROVE  IsNode(h[i], Upto(h, Version(i)) \union NoNode) /\ Fits(h, h[i]) /\ Version(i) = 0
<1>1. IsNode(h[i], BuiltNodes(h, n) \union NoNode) /\ Fits(h, h[i]) /\ Version(i) = 0
  BY DEF Built, BuiltNodes
<1>2. BuiltNodes(h, n) \union NoNode \subseteq Upto(h, 0) \union NoNode
  BY DEF BuiltNodes, Upto
<1> QED
  BY <1>1, <1>2, MoreTargets

LEMMA CheckpointSteps ==
  ASSUME CowInv, NEW u, CheckpointNodes(u)
  PROVE  CowInv' /\ WritesOwnNodes
<1>1. /\ Defined /\ u = Len(ctx) + 1 /\ structure' = structure
      /\ DOMAIN heap' = DOMAIN heap \union BuiltNodes(heap', u)
      /\ \A i \in DOMAIN heap \ BuiltNodes(heap', u) : heap'[i] = heap[i]
      /\ Built(heap', u)
  BY DEF CheckpointNodes, RebuildDue, Submitted
<1>2. u \in 1..(Len(ctx) + 1) /\ u \in Nat \ {0} /\ Ids = 1..(u - 1)
  BY <1>1, HeapNodes
<1>3. DOMAIN heap \cap BuiltNodes(heap', u) = {}
  <2>1. \A i \in BuiltNodes(heap', u) : Version(i) = 0 /\ i[2] = u
    BY DEF BuiltNodes
  <2>2. \A i \in DOMAIN heap : Version(i) = 0 => i[2] \in {0} \union Ids
    BY <1>2 DEF CowInv, NodesMade
  <2> QED
    BY <1>2, <2>1, <2>2
<1>4. \A i \in DOMAIN heap : i \in DOMAIN heap' /\ heap'[i] = heap[i]
  BY <1>1, <1>3
<1>5. \A i \in DOMAIN heap' \ DOMAIN heap : Version(i) = 0 /\ i[2] = u
  BY <1>1 DEF BuiltNodes
<1>6. Lasts(heap, heap', 0)
  <2>1. \A i \in DOMAIN heap : Len(heap[i].keys) \in Nat
    BY HeapNodes, LenProperties DEF Nodes, IsNode
  <2> QED
    BY <1>4, <1>5, <2>1 DEF Lasts, Steady
<1>7. PICK c : /\ ctx' = Append(ctx, c)
               /\ c.sno = u /\ IsContext(c)
               /\ c.op # "WILD" => /\ c.op = "DONE" /\ c.root = <<0, u>>
                                  /\ <<0, u>> \in DOMAIN heap'
  <2> DEFINE p == Passed(u, <<0, u>>)
             w == [p EXCEPT !.op = "WILD"]
  <2>1. p.sno = u /\ IsContext(p) /\ p.op = "DONE" /\ p.root = <<0, u>>
    BY DEF Passed, NewContext, IsContext
  <2> HIDE DEF p
  <2>2. w.sno = u /\ IsContext(w) /\ w.op = "WILD"
    BY <2>1 DEF IsContext
  <2>3. \/ <<0, u>> \in DOMAIN heap' /\ ctx' = Append(ctx, p)
        \/ ctx' = Append(ctx, w)
    BY DEF CheckpointNodes, p
  <2> HIDE DEF w
  <2> QED
    BY <2>1, <2>2, <2>3
<1>8. Moves(u, c)
  BY <1>1, <1>7, MovesAppend DEF CowInv, TasksHold
<1>9. Nodes(heap', NoNode) /\ AllFit(heap')
  <2>1. SUFFICES ASSUME NEW i \in DOMAIN heap'
                 PROVE  /\ Version(i) \in Nat /\ Fits(heap', heap'[i])
                        /\ IsNode(heap'[i], Upto(heap', Version(i)) \union NoNode)
    BY DEF Nodes, AllFit
  <2>2. CASE i \in BuiltNodes(heap', u)
    <3>1. Built(heap', u) /\ i \in BuiltNodes(heap', u)
      BY <1>1, <2>2
    <3>2. /\ IsNode(heap'[i], Upto(heap', Version(i)) \union NoNode)
          /\ Fits(heap', heap'[i]) /\ Version(i) = 0
      BY <3>1, BuiltFits
    <3> QED
      BY <3>2
  <2>3. CASE i \notin BuiltNodes(heap', u)
    <3>1. /\ i \in DOMAIN heap /\ heap'[i] = heap[i] /\ Version(i) \in Nat
          /\ IsNode(heap[i], Upto(heap, Version(i)) \union NoNode) /\ Fits(heap, heap[i])
      BY <1>1, <2>3, HeapNodes DEF Nodes, AllFit
    <3>2. Upto(heap, Version(i)) \union NoNode \subseteq Upto(heap', Version(i)) \union NoNode
      BY <1>6, LastsKeeps
    <3>3. IsNode(heap[i], Upto(heap', Version(i)) \union NoNode)
      BY <3>1, <3>2, MoreTargets
    <3>4. Fits(heap', heap[i])
      BY <1>6, <3>1, FitsLast
    <3> QED
      BY <3>1, <3>3, <3>4
  <2> QED
    BY <2>2, <2>3
<1>10. Numbered(heap', u)
  BY <1>2, <1>6, HeapNodes, LastsKeeps
<1>11. c.op # "WILD" => TaskHolds(heap', c)
  <2>1. SUFFICES ASSUME c.op # "WILD" PROVE TaskHolds(heap', c)
    OBVIOUS
  <2>2. c.op = "DONE" /\ c.root = <<0, u>> /\ <<0, u>> \in DOMAIN heap'
    BY <1>7, <2>1
  <2>3. RootFits(heap', <<0, u>>)
    BY <1>1, <2>2 DEF Built
  <2>4. <<0, u>> \in Upto(heap', u)
    BY <1>2, <2>2 DEF Upto, Version
  <2> QED
    BY <1>7, <2>2, <2>3, <2>4 DEF TaskHolds
<1>12. CowInv'
  <2>1. \A i \in DOMAIN heap' \ DOMAIN heap : Version(i) = u \/ (Version(i) = 0 /\ i[2] = u)
    BY <1>5
  <2> QED
    BY <1>1, <1>2, <1>6, <1>7, <1>8, <1>9, <1>10, <1>11, <2>1, InvStep
<1> QED
  BY <1>4, <1>12 DEF WritesOwnNodes

LEMMA InitHolds ==
  ASSUME TasksInit
  PROVE  CowInv
<1>1. /\ structure \in Structures /\ (structure \in BTrees => <<0, 0>> \in DOMAIN heap)
      /\ DOMAIN heap = BuiltNodes(heap, 0) /\ Built(heap, 0) /\ ctx = <<>>
  BY DEF TasksInit
<1>2. Ids = {} /\ ctx \in Seq(Range(ctx))
  BY <1>1 DEF Ids
<1>3. NodesMade
  BY <1>1, <1>2 DEF NodesMade, BuiltNodes
<1>4. PointersBack
  BY <1>1, BuiltFits DEF PointersBack
<1>5. RootFits(heap, BuiltRoot)
  <2>1. CASE <<0, 0>> \in DOMAIN heap
    BY <1>1, <2>1 DEF BuiltRoot, Built
  <2>2. CASE <<0, 0>> \notin DOMAIN heap
    BY <2>2 DEF BuiltRoot, RootFits
  <2> QED
    BY <2>1, <2>2
<1>6. NodesFit
  BY <1>1, <1>5, BuiltFits DEF NodesFit
<1>7. TasksHold
  BY <1>2 DEF TasksHold
<1> QED
  BY <1>1, <1>3, <1>4, <1>6, <1>7 DEF CowInv

LEMMA NextHolds ==
  ASSUME CowInv, [TasksNext]_tasks
  PROVE  CowInv' /\ [WritesOwnNodes]_tasks
<1>1. CASE UNCHANGED tasks
  <2>1. structure' = structure /\ heap' = heap /\ ctx' = ctx
    BY <1>1 DEF tasks
  <2>2. CowInv'
    BY <2>1, Same DEF CowInv, NodesMade, PointersBack, NodesFit, TasksHold, Ids, BuiltRoot, Stopped
  <2> QED
    BY <1>1, <2>2
<1>2. CASE TasksNext
  <2>1. CASE \E u \in Ids : InnerPipe(u) \/ Worker(u)
    BY <2>1, TaskSteps
  <2>2. CASE CheckpointSkip(Len(ctx) + 1)
    BY <2>2, SkipSteps
  <2>3. CASE CheckpointNodes(Len(ctx) + 1)
    BY <2>3, CheckpointSteps
  <2>4. CASE \E key \in KeySet : Entry(Len(ctx) + 1, key)
    BY <2>4, EntrySteps
  <2> QED
    BY <1>2, <2>1, <2>2, <2>3, <2>4 DEF TasksNext
<1> QED
  BY <1>1, <1>2

\* A handler makes no node of the tree that was built.
LEMMA BuiltRootStays ==
  ASSUME CowInv, TasksNext
  PROVE  BuiltRoot' = BuiltRoot
<1>1. Version(<<0, 0>>) = 0 /\ <<0, 0>>[2] = 0
  BY DEF Version
<1>2. SUFFICES <<0, 0>> \in DOMAIN heap' <=> <<0, 0>> \in DOMAIN heap
  BY DEF BuiltRoot
<1>3. CASE UNCHANGED heap
  BY <1>3
<1>4. ASSUME NEW u, Submitted(u), CheckpointNodes(u)
      PROVE  <<0, 0>> \in DOMAIN heap' <=> <<0, 0>> \in DOMAIN heap
  <2>1. u \in Nat \ {0}
    BY <1>4, HeapNodes DEF Submitted
  <2> QED
    BY <1>1, <1>4, <2>1 DEF CheckpointNodes, BuiltNodes
<1>5. ASSUME NEW u \in 1..(Len(ctx) + 1), NEW c, c.sno = u, Starts(heap, c), NEW inPipe, Handler(u, c, inPipe)
      PROVE  <<0, 0>> \in DOMAIN heap' <=> <<0, 0>> \in DOMAIN heap
  <2>1. u \in Nat \ {0}
    BY HeapNodes
  <2>2. Leaves(heap, c, Handle(heap, c)) /\ heap' = Handle(heap, c).heap
    BY <1>5, HandlerLeaves DEF CowInv, Handler, After
  <2> QED
    BY <1>1, <1>5, <2>1, <2>2 DEF Leaves, Grows
<1>6. ASSUME NEW u \in Ids, InnerPipe(u) \/ Worker(u)
      PROVE  <<0, 0>> \in DOMAIN heap' <=> <<0, 0>> \in DOMAIN heap
  <2>1. /\ Defined /\ ctx[u].op # "DONE"
        /\ \E inPipe \in BOOLEAN : Handler(u, ctx[u], inPipe)
    BY <1>6 DEF InnerPipe, Worker
  <2> QED
    BY <1>5, <2>1, TaskStarts
<1>7. ASSUME NEW u, NEW key \in KeySet, Entry(u, key)
      PROVE  <<0, 0>> \in DOMAIN heap' <=> <<0, 0>> \in DOMAIN heap
  BY <1>5, <1>7, EntryStarts
<1> QED
  BY <1>3, <1>4, <1>6, <1>7 DEF TasksNext, CheckpointSkip, CheckpointNodes, RebuildDue

\* A task that is done is left alone.
LEMMA DoneTasksStay ==
  ASSUME CowInv, TasksNext
  PROVE  \A n \in Ids : Finished(n) => n \in DOMAIN ctx' /\ ctx'[n] = ctx[n]
<1>1. Len(ctx) \in Nat /\ Ids = 1..Len(ctx) /\ DOMAIN ctx = Ids /\ ctx \in Seq(Range(ctx))
  BY HeapNodes DEF Ids, CowInv, TasksHold
<1>2. ASSUME NEW u, NEW c, NEW inPipe, Handler(u, c, inPipe), u \in Ids => ~Finished(u)
      PROVE  \A n \in Ids : Finished(n) => n \in DOMAIN ctx' /\ ctx'[n] = ctx[n]
  BY <1>2 DEF Handler, After
<1>3. ASSUME NEW c, ctx' = Append(ctx, c)
      PROVE  \A n \in Ids : n \in DOMAIN ctx' /\ ctx'[n] = ctx[n]
  BY <1>1, <1>3, MovesAppend DEF Moves
<1>4. ASSUME NEW u \in Ids, InnerPipe(u) \/ Worker(u)
      PROVE  \A n \in Ids : Finished(n) => n \in DOMAIN ctx' /\ ctx'[n] = ctx[n]
  BY <1>2, <1>4 DEF InnerPipe, Worker, Finished
<1>5. ASSUME NEW u, NEW key \in KeySet, Entry(u, key)
      PROVE  \A n \in Ids : Finished(n) => n \in DOMAIN ctx' /\ ctx'[n] = ctx[n]
  <2>1. u \notin Ids
    BY <1>1, <1>5 DEF Entry, Submitted
  <2> QED
    BY <1>2, <1>5, <2>1 DEF Entry
<1>6. ASSUME NEW u, CheckpointSkip(u) \/ CheckpointNodes(u)
      PROVE  \A n \in Ids : n \in DOMAIN ctx' /\ ctx'[n] = ctx[n]
  BY <1>3, <1>6 DEF CheckpointSkip, CheckpointNodes
<1> QED
  BY <1>4, <1>5, <1>6 DEF TasksNext

\* The nodes of a version whose tasks are done, in one step.
LEMMA DoneVersionStays ==
  ASSUME CowInv, TasksNext, NEW n \in 0..Len(ctx), \A u \in 1..n : Finished(u)
  PROVE  VersionStays(n)
<1>1. Len(ctx) \in Nat /\ Ids = 1..Len(ctx) /\ n \in Nat /\ 1..n \subseteq Ids
  BY HeapNodes
<1>2. WritesOwnNodes \/ UNCHANGED heap
  BY NextHolds DEF tasks
<1>3. RootOf(n) \in Upto(heap, n) \union NoNode /\ RootOf(n)' = RootOf(n)
  <2>1. CASE n = 0
    <3>1. RootOf(n) = BuiltRoot /\ RootOf(n)' = BuiltRoot'
      BY <2>1 DEF RootOf
    <3>2. Version(<<0, 0>>) = 0
      BY DEF Version
    <3>3. BuiltRoot \in Upto(heap, 0) \union NoNode
      BY <3>2 DEF BuiltRoot, Upto, CowInv, NodesMade, NoNode
    <3> QED
      BY <2>1, <3>1, <3>3, BuiltRootStays
  <2>2. CASE n # 0
    <3>1. n \in Ids /\ Finished(n)
      BY <1>1, <2>2
    <3>2. RootOf(n) = ctx[n].root /\ RootOf(n)' = ctx'[n].root /\ ctx'[n] = ctx[n]
      BY <2>2, <3>1, DoneTasksStay DEF RootOf
    <3>3. ctx[n].sno = n /\ TaskHolds(heap, ctx[n])
      BY <3>1 DEF CowInv, TasksHold, Finished, Stopped
    <3> QED
      BY <3>2, <3>3 DEF TaskHolds
  <2> QED
    BY <2>1, <2>2
<1>4. ASSUME NEW id \in Upto(heap, n)
      PROVE  /\ id \in DOMAIN heap' /\ heap'[id] = heap[id]
             /\ \A i \in DOMAIN heap[id].chs : heap[id].chs[i] \in Upto(heap, n) \union NoNode
  <2> DEFINE v == Version(id)
             S == Upto(heap, v) \union NoNode
  <2>1. id \in DOMAIN heap /\ v \in Nat /\ v <= n /\ \A j \in DOMAIN heap : Version(j) \in Nat
    BY HeapNodes DEF Upto, Nodes
  <2>2. v \in Ids => Finished(v)
    BY <1>1, <2>1
  <2>3. id \in DOMAIN heap' /\ heap'[id] = heap[id]
    BY <1>2, <2>1, <2>2 DEF WritesOwnNodes
  <2>4. heap[id].chs \in Seq(S)
    BY <2>1 DEF CowInv, PointersBack, IsNode
  <2>5. S \subseteq Upto(heap, n) \union NoNode
    <3> HIDE DEF v
    <3>1. \A j \in DOMAIN heap : Version(j) <= v => Version(j) <= n
      BY <1>1, <2>1, AtMostTransitive
    <3> QED
      BY <3>1 DEF Upto, S
  <2> HIDE DEF S
  <2>6. \A i \in DOMAIN heap[id].chs : heap[id].chs[i] \in S
    BY <2>4, LenProperties
  <2> QED
    BY <2>3, <2>5, <2>6
<1> QED
  BY <1>3, <1>4 DEF VersionStays

\* What a task finds of the memory that others write while it waits: the node
\* in hand is its own, the one it was copied from is of an earlier version and
\* has not shrunk, and all nodes lead to nodes of their version or before.
THEOREM CowInvariant == TasksSpec => []CowInv
<1>1. TasksInit => CowInv
  BY InitHolds
<1>2. CowInv /\ [TasksNext]_tasks => CowInv'
  BY NextHolds
<1> QED
  BY <1>1, <1>2, PTL DEF TasksSpec

\* The handlers of all four trees write only nodes of their own task, while it
\* runs: the nodes of other versions stay as they are.
THEOREM OwnNodesAreWritten == TasksSpec => OwnNodesWritten
<1>1. CowInv /\ [TasksNext]_tasks => [WritesOwnNodes]_tasks
  BY NextHolds
<1> QED
  BY <1>1, CowInvariant, PTL DEF TasksSpec, OwnNodesWritten

\* Once all tasks up to an id are done, the nodes its version may lead to, its
\* root among them, stay as they are and lead only to one another: a reader of
\* any of the four trees that has the root goes through memory nobody writes.
THEOREM DoneVersionsFrozen == TasksSpec => DoneVersionsStay
<1>1. CowInv /\ [TasksNext]_tasks =>
        [\A n \in 0..Len(ctx) : (\A id \in 1..n : Finished(id)) => VersionStays(n)]_tasks
  BY DoneVersionStays
<1> QED
  BY <1>1, CowInvariant, PTL DEF TasksSpec, DoneVersionsStay
===============================================================================
