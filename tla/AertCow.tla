------------------------------- MODULE AertCow --------------------------------
(* lib/trees/aert, the elastic radix tree: what an update copy-on-write is    *)
(* made of.  A node tells its children apart by two half digits (NODE4,       *)
(* NODE16) or one (NODEH4, NODEH16).  A NODE16 that is full is split into an  *)
(* upper half, by the first half digit, and lower halves, by the second.  A   *)
(* child of an upper half that is alone behind its half digit has no lower    *)
(* half: the second half digit is embedded in the pointer to it.              *)
(*                                                                            *)
(* Positions count half digits (4 bits in the code).  emb are the half        *)
(* digits embedded in chs: <<>> or <<e>> each; emb of a context is that of    *)
(* t_cur.  The order of the children and what is copied when are as in ArtCow. *)
EXTENDS TreeHeap

CONSTANTS Radix,      \* 16: half digits
          Digits,     \* 16: the half digits of a key, even
          Small       \* 4: children of NODE4 and NODEH4; NODE16 and NODEH16 have Radix

\* partial_key: n half digits, one or two, from a position on.
Part(key, pos, n) ==
    (key \div Radix^(Digits - pos - n)) % (IF n = 1 THEN Radix ELSE Radix * Radix)

KeyLen(type) == IF type \in {"NODE4", "NODE16"} THEN 2 ELSE 1

Node(type, ks, chs, emb, ofs, len, pfx) ==
    [type |-> type, keys |-> ks, chs |-> chs, emb |-> emb, ofs |-> ofs, len |-> len,
     pfx |-> pfx, val |-> 0]

\* new_leaf, and what it embeds in the pointer.
LeafAt(ofs)    == ofs + (ofs % 2)
Leaf(ofs, key, val) ==
    [Node("LEAF", <<>>, <<>>, <<>>, LeafAt(ofs), Digits - LeafAt(ofs), key) EXCEPT !.val = val]
LeafEmb(ofs, key) == IF ofs % 2 = 1 THEN <<Part(key, ofs, 1)>> ELSE <<>>

Copied(t) == Len(t.chs) = Len(t.keys)

\* prefix_match, in whole digits.
PrefixMatch(t, key) ==
    LET differ == {i \in 0..(t.len \div 2 - 1) : Part(key, t.ofs + 2*i, 2) # Part(t.pfx, t.ofs + 2*i, 2)}
    IN  IF differ = {} THEN t.len ELSE 2 * (CHOOSE i \in differ : \A j \in differ : i <= j)

Matches(t, key) == PrefixMatch(t, key) = t.len

\* ptr_pfx_match: nothing embedded before ofs, or the half digit of the key.
EmbMatches(emb, ofs, key) == emb # <<>> => emb[1] = Part(key, ofs - 1, 1)

\* The position of an element, or 0.
FirstIn(s, e) == SelectInSeq(s, LAMBDA x : x = e)

FindIdx(t, k) == FirstIn(t.keys, k)
HalfDigits    == [i \in 1..Radix |-> i - 1]

IsFull(t) == t.type \in {"NODE4", "NODEH4"} /\ Len(t.keys) = Small

\* extend_append and copy_append: the node, of its old type or the larger one,
\* with one more key.
AppendKey(t, k) ==
    LET type == CASE ~IsFull(t) -> t.type
                  [] IsFull(t) /\ t.type = "NODE4" -> "NODE16"
                  [] OTHER -> "NODEH16"
    IN  [t EXCEPT !.type = type, !.chs = <<>>, !.emb = <<>>,
                  !.keys = IF type = "NODEH16" THEN HalfDigits ELSE InOrder(ToSet(@) \union {k})]

\* copych and insertch: a sequence that runs along the keys of old, with one
\* more entry for the key new has besides; none stands in for a child of
\* NODEH16 that is missing.
Spread(new, old, k, entries, entry, none) ==
    LET i == FindIdx(new, k) IN
    IF new.type # "NODEH16" THEN InsertAt(entries, i, entry)
    ELSE [j \in DOMAIN new.keys |->
             IF j = i THEN entry
             ELSE LET o == FindIdx(old, new.keys[j]) IN IF o = 0 THEN none ELSE entries[o]]

InsertChild(new, old, k, ch, emb) ==
    [new EXCEPT !.chs = Spread(new, old, k, old.chs, ch, Nil),
                !.emb = Spread(new, old, k, old.emb, emb, <<>>)]

-------------------------------------------------------------------------------
(* Forks *)

\* A node over an old child and a new leaf.
Pair(type, k0, k1, old, leaf, ofs, len, key) ==
    Node(type, IF k0 > k1 THEN <<k1, k0>> ELSE <<k0, k1>>,
         IF k0 > k1 THEN <<leaf, old>> ELSE <<old, leaf>>, <<<<>>, <<>>>>, ofs, len, key)

\* node_fork: the prefix, or the key of a leaf, differs m half digits on.
ForkNode(t, key, old, leaf) ==
    LET m == PrefixMatch(t, key) IN
    Pair("NODE4", Part(t.pfx, t.ofs + m, 2), Part(key, t.ofs + m, 2), old, leaf, t.ofs, m, key)
ForkOld(t, key) ==
    LET m == PrefixMatch(t, key) IN [t EXCEPT !.ofs = @ + m + 2, !.len = @ - m - 2]
ForkLeaf(t, key, val) == Leaf(t.ofs + PrefixMatch(t, key) + 2, key, val)

\* nodeh_fork: the embedded half digit, at ofs, differs.
ForkHalf(emb, ofs, key, old, leaf) ==
    Pair("NODEH4", emb[1], Part(key, ofs, 1), old, leaf, ofs, 0, key)

-------------------------------------------------------------------------------
(* Split of a full NODE16 that gets the key k: first and second half digits   *)

Firsts(ks)     == {k \div Radix : k \in ks}
Seconds(ks, f) == {k % Radix : k \in {x \in ks : x \div Radix = f}}
\* The half digits behind which there is a lower half.
Shared(ks)     == {f \in Firsts(ks) : Cardinality(Seconds(ks, f)) > 1}

HalfType(n) == IF n > Small THEN "NODEH16" ELSE "NODEH4"
HalfKeys(n, S) == IF n > Small THEN HalfDigits ELSE InOrder(S)

\* new_nodeh with the children ch of S, which may be fewer than n yet; bits are
\* what is embedded beside them.
Half(n, S, ofs, len, pfx, ch, bits) ==
    LET ks == HalfKeys(n, S)
    IN  Node(HalfType(n), ks,
             [i \in DOMAIN ks |-> IF ks[i] \in S THEN ch[ks[i]] ELSE Nil],
             [i \in DOMAIN ks |-> IF ks[i] \in S THEN bits[ks[i]] ELSE <<>>], ofs, len, pfx)

\* The upper half, of the children behind the half digits S, with its lower
\* halves as given; child is the child of two half digits.
UpperHalf(t, ks, S, lower, child) ==
    LET only(f) == CHOOSE s \in Seconds(ks, f) : TRUE IN
    Half(Cardinality(Firsts(ks)), S, t.ofs, t.len, t.pfx,
         [f \in S |-> IF f \in Shared(ks) THEN lower[f] ELSE child[f * Radix + only(f)]],
         [f \in S |-> IF f \in Shared(ks) THEN <<>> ELSE <<only(f)>>])
LowerHalf(t, ks, f, S, child) ==
    Half(Cardinality(Seconds(ks, f)), S, t.ofs + t.len + 1, 0, 0,
         [s \in S |-> child[f * Radix + s]], [s \in S |-> <<>>])

-------------------------------------------------------------------------------
(* The handlers of the copy-on-write update *)

\* What takes the place of past, which has emb embedded in its pointer: cur of
\* the result, with its emb.  ofs is the next half digit to look at.
UpdateCow(h, c) ==
    LET t == h[c.past]
        at == c.ofs + Len(c.emb) + t.len
        k == Part(c.key, at, KeyLen(t.type))
        ks == ToSet(t.keys) \union {k}
        shared == InOrder(Shared(ks))
        fresh(i) == Fresh(h, c.sno, i)
        make(op, nodes) == Result(Alloc(h, c.sno, nodes), [c EXCEPT !.cur = fresh(Len(nodes)), !.op = op])
        down(op, n) == LET r == make(op, <<n>>) IN
                       [r EXCEPT !.ctx.ofs = at + KeyLen(t.type), !.ctx.idx = FindIdx(n, k)]
        fork == ForkNode(t, c.key, fresh(1), fresh(2))
        split == make("SPLIT",
                    [i \in DOMAIN shared |-> LowerHalf(t, ks, shared[i], {}, <<>>)]
                    \o <<UpperHalf(t, ks, ToSet(shared), [f \in ToSet(shared) |-> fresh(FirstIn(shared, f))], <<>>)>>)
    IN  CASE c.past = Nil ->
               [make("DONE", <<Leaf(c.ofs, c.key, c.sno)>>) EXCEPT !.ctx.emb = LeafEmb(c.ofs, c.key)]
          [] c.past # Nil /\ ~EmbMatches(c.emb, t.ofs, c.key) ->
               [make("DONE", <<Leaf(c.ofs + 1, c.key, c.sno), ForkHalf(c.emb, c.ofs, c.key, c.past, fresh(1))>>)
                   EXCEPT !.ctx.emb = <<>>]
          [] c.past # Nil /\ EmbMatches(c.emb, t.ofs, c.key) /\ ~Matches(t, c.key) ->
               [make("FORK", <<[ForkOld(t, c.key) EXCEPT !.chs = <<>>, !.emb = <<>>],
                               ForkLeaf(t, c.key, c.sno), fork>>)
                   EXCEPT !.ctx.idx = FirstIn(fork.chs, fresh(1))]
          [] OTHER ->
               CASE t.type = "LEAF" -> make("DONE", <<[t EXCEPT !.val = c.sno]>>)
                 [] t.type # "LEAF" /\ FindIdx(t, k) # 0 ->
                      down("SEARCH", [t EXCEPT !.chs = <<>>, !.emb = <<>>])
                 [] t.type = "NODE16" /\ FindIdx(t, k) = 0 /\ Len(t.keys) = Radix ->
                      [split EXCEPT !.ctx.ofs = at + 2]
                 [] OTHER -> down("INSERT", AppendKey(t, k))

HandleInit(h, c) == Rooted(UpdateCow(h, c))

\* The bits are embedded beside the pointer.
Embedded(r, node, i) == [r EXCEPT !.heap[node].emb[i] = r.ctx.emb]

HandleSearch(h, c) ==
    LET p == h[c.past]
    IN  IF ~Copied(p) THEN Wild(h, c)
        ELSE Embedded(Linked(UpdateCow([h EXCEPT ![c.cur].chs = p.chs, ![c.cur].emb = p.emb],
                                       [c EXCEPT !.past = p.chs[c.idx], !.emb = p.emb[c.idx]]),
                             c.cur, c.idx),
                      c.cur, c.idx)

\* Unlike the other handlers, it does not take the embedded bits out of t_cur:
\* if there are any, it takes the bytes beside the upper half for one.
HandleSplit(h, c) ==
    LET t == h[c.past]
        k == Part(c.key, c.ofs - 2, 2)
        ks == ToSet(t.keys) \union {k}
        upper == h[c.cur]
        child == [x \in ks |-> IF x = k THEN Fresh(h, c.sno, 1) ELSE t.chs[FindIdx(t, x)]]
        lower == [f \in Shared(ks) |-> upper.chs[FindIdx(upper, f)]]
        filled == {lower[f] : f \in Shared(ks)}
        made == Alloc(h, c.sno, <<Leaf(c.ofs, c.key, c.sno)>>)
    IN  IF c.emb # <<>> \/ ~Copied(t) THEN Wild(h, c)
        ELSE Result([id \in DOMAIN made |->
                        CASE id = c.cur -> UpperHalf(t, ks, Firsts(ks), lower, child)
                          [] id \in filled ->
                               LET f == CHOOSE x \in Shared(ks) : lower[x] = id
                               IN  LowerHalf(t, ks, f, Seconds(ks, f), child)
                          [] OTHER -> made[id]],
                    [c EXCEPT !.op = "DONE"])

HandleInsert(h, c) ==
    LET t == h[c.cur]
        node == InsertChild(t, h[c.past], t.keys[c.idx], Fresh(h, c.sno, 1), LeafEmb(c.ofs, c.key))
    IN  IF ~Copied(h[c.past]) THEN Wild(h, c)
        ELSE Result([Alloc(h, c.sno, <<Leaf(c.ofs, c.key, c.sno)>>) EXCEPT ![c.cur] = node],
                    [c EXCEPT !.op = "DONE"])

HandleFork(h, c) ==
    LET cur == h[c.cur].chs[c.idx] IN
    IF ~Copied(h[c.past]) THEN Wild(h, c)
    ELSE Result([h EXCEPT ![cur].chs = h[c.past].chs, ![cur].emb = h[c.past].emb],
                [c EXCEPT !.cur = cur, !.op = "DONE"])

Handle(h, c) ==
    CASE c.op = "INIT"   -> HandleInit(h, c)
      [] c.op = "SEARCH" -> HandleSearch(h, c)
      [] c.op = "INSERT" -> HandleInsert(h, c)
      [] c.op = "FORK"   -> HandleFork(h, c)
      [] c.op = "SPLIT"  -> HandleSplit(h, c)
===============================================================================
