-------------------------------- MODULE ArtCow --------------------------------
(* lib/trees/art, the adaptive radix tree: what an update copy-on-write is    *)
(* made of.  A node compares len digits of the key from the digit ofs on with *)
(* its pfx, and the next digit tells its children apart; when a node is full  *)
(* the next larger type takes its place.  A leaf compares the rest of the     *)
(* key.                                                                       *)
(*                                                                            *)
(* keys are in order in NODE4 and NODE16, in the order of their slots in      *)
(* NODE48, and all digits in NODE256, where a child may be nullptr.  As in    *)
(* BTreeCow a handler copies the keys and the next one the chs.               *)
EXTENDS TreeHeap

CONSTANTS Radix,      \* 256
          Digits,     \* 8: the digits of a key
          Capacity    \* 4, 16, 48: per type but the last

\* partial_key: the digit at a position, from 0.
Digit(key, pos) == (key \div Radix^(Digits - 1 - pos)) % Radix

\* A node that has the digits of pfx.
Node(type, ks, chs, ofs, len, pfx) ==
    [type |-> type, keys |-> ks, chs |-> chs, ofs |-> ofs, len |-> len, pfx |-> pfx, val |-> 0]

Leaf(ofs, key, val) == [Node("LEAF", <<>>, <<>>, ofs, Digits - ofs, key) EXCEPT !.val = val]

Copied(t) == Len(t.chs) = Len(t.keys)

\* prefix_match, as far as the prefix goes.
PrefixMatch(t, key) ==
    SelectInSeq([i \in 1..(t.len + 1) |-> i], LAMBDA i :
        i = t.len + 1 \/ Digit(key, t.ofs + i - 1) # Digit(t.pfx, t.ofs + i - 1)) - 1

Matches(t, key) == PrefixMatch(t, key) = t.len

\* find_idx: the position of the digit, or 0.
FindIdx(t, d) == SelectInSeq(t.keys, LAMBDA k : k = d)

IsFull(t) == t.type # "NODE256" /\ Len(t.keys) = Capacity[t.type]

\* node_extend, without the children.
Larger(type) == CASE type = "NODE4" -> "NODE16" [] type = "NODE16" -> "NODE48" [] OTHER -> "NODE256"

\* append: the node, of its old type or a larger one, with one more digit.
AppendKey(t, d) ==
    LET type == IF IsFull(t) THEN Larger(t.type) ELSE t.type
        gt == SelectInSeq(Append(t.keys, Radix), LAMBDA k : k > d)
    IN  [t EXCEPT !.type = type, !.chs = <<>>,
                  !.keys = CASE type = "NODE48"  -> Append(@, d)
                             [] type = "NODE256" -> [i \in 1..Radix |-> i - 1]
                             [] OTHER            -> InsertAt(@, gt, d)]

\* Mutant: an extended node takes over the children without the gap.
MutInsertChild(new, old, d, ch) ==
    LET i == FindIdx(new, d) IN
    IF new.type = old.type /\ new.type # "NODE256" THEN InsertAt(old.chs, i, ch)
    ELSE [j \in DOMAIN new.keys |->
             IF j = i THEN ch ELSE IF j \in DOMAIN old.chs THEN old.chs[j] ELSE Nil]

\* copych (with an index) and insertch: the children of a node that
\* AppendKey has made from an old one.
InsertChild(new, old, d, ch) ==
    LET i == FindIdx(new, d) IN
    IF new.type # "NODE256" THEN InsertAt(old.chs, i, ch)
    ELSE [j \in DOMAIN new.keys |->
             IF j = i THEN ch
             ELSE LET k == FindIdx(old, new.keys[j]) IN IF k = 0 THEN Nil ELSE old.chs[k]]

-------------------------------------------------------------------------------
(* Fork: a node whose prefix, or leaf whose key, differs gets a NODE4 above   *)

\* The NODE4 over the old child and the new leaf, which are l and r.
ForkNode(t, ofs, key, old, leaf) ==
    LET m == PrefixMatch(t, key)  d0 == Digit(t.pfx, ofs + m)  d1 == Digit(key, ofs + m) IN
    Node("NODE4", IF d0 > d1 THEN <<d1, d0>> ELSE <<d0, d1>>,
         IF d0 > d1 THEN <<leaf, old>> ELSE <<old, leaf>>, ofs, m, key)

\* What is below the digit the fork tells apart.
ForkOld(t, key) ==
    LET m == PrefixMatch(t, key) IN [t EXCEPT !.ofs = @ + m + 1, !.len = @ - m - 1]

\* node_fork_cow masks the prefix of a leaf too, which is its key: the first
\* digits become 0 (but for a mask of no digits, whose shift by 64 is one by 0
\* on this build).
MaskLeaf(t) ==
    IF t.type = "LEAF" /\ t.len > 0 THEN [t EXCEPT !.pfx = @ % Radix^(Digits - t.ofs)] ELSE t

-------------------------------------------------------------------------------
(* The handlers of the copy-on-write update *)

\* The node that takes the place of past: ctx.cur of the result.  ofs is the
\* next digit of the key to look at.
UpdateCow(h, c) ==
    LET t == h[c.past]
        ofs == c.ofs + t.len
        d == Digit(c.key, ofs)
        a == Fresh(h, c.sno, 1)
        m == PrefixMatch(t, c.key)
        forked == <<[MaskLeaf(ForkOld(t, c.key)) EXCEPT !.chs = <<>>],
                    Leaf(c.ofs + m + 1, c.key, c.sno)>>
        fork == ForkNode(t, c.ofs, c.key, a, Fresh(h, c.sno, 2))
        down(op, n) == Result(Alloc(h, c.sno, <<n>>),
                              [c EXCEPT !.cur = a, !.ofs = ofs + 1, !.op = op, !.idx = FindIdx(n, d)])
    IN  IF c.past = Nil
        THEN Result(Alloc(h, c.sno, <<Leaf(c.ofs, c.key, c.sno)>>), [c EXCEPT !.cur = a, !.op = "DONE"])
        ELSE CASE ~Matches(t, c.key) ->
                    Result(Alloc(h, c.sno, Append(forked, fork)),
                           [c EXCEPT !.cur = Fresh(h, c.sno, 3), !.op = "FORK",
                                     !.idx = FindIdx(fork, Digit(t.pfx, c.ofs + m))])
               [] Matches(t, c.key) /\ t.type = "LEAF" ->
                    Result(Alloc(h, c.sno, <<[t EXCEPT !.val = c.sno]>>), [c EXCEPT !.cur = a, !.op = "DONE"])
               [] Matches(t, c.key) /\ t.type # "LEAF" /\ FindIdx(t, d) # 0 ->
                    down("SEARCH", [t EXCEPT !.chs = <<>>])
               [] OTHER -> down("INSERT", AppendKey(t, d))

HandleInit(h, c) == Rooted(UpdateCow(h, c))

HandleSearch(h, c) ==
    LET chs == h[c.past].chs
    IN  IF ~Copied(h[c.past]) THEN Wild(h, c)
        ELSE Linked(UpdateCow([h EXCEPT ![c.cur].chs = chs], [c EXCEPT !.past = chs[c.idx]]), c.cur, c.idx)

\* Mutant: the children, with the new one, go to the node that was copied.
MutHandleInsert(h, c) ==
    LET t == h[c.cur]
        chs == InsertChild(t, h[c.past], t.keys[c.idx], Fresh(h, c.sno, 1))
    IN  IF ~Copied(h[c.past]) THEN Wild(h, c)
        ELSE Result([Alloc(h, c.sno, <<Leaf(c.ofs, c.key, c.sno)>>) EXCEPT ![c.past].chs = chs],
                    [c EXCEPT !.op = "DONE"])

HandleInsert(h, c) ==
    LET t == h[c.cur]
        chs == InsertChild(t, h[c.past], t.keys[c.idx], Fresh(h, c.sno, 1))
    IN  IF ~Copied(h[c.past]) THEN Wild(h, c)
        ELSE Result([Alloc(h, c.sno, <<Leaf(c.ofs, c.key, c.sno)>>) EXCEPT ![c.cur].chs = chs],
                    [c EXCEPT !.op = "DONE"])

\* Mutant: the children go to the other node below the fork.
MutHandleFork(h, c) ==
    LET cur == h[c.cur].chs[3 - c.idx] IN
    IF ~Copied(h[c.past]) THEN Wild(h, c)
    ELSE Result([h EXCEPT ![cur].chs = h[c.past].chs], [c EXCEPT !.cur = cur, !.op = "DONE"])

HandleFork(h, c) ==
    LET cur == h[c.cur].chs[c.idx] IN
    IF ~Copied(h[c.past]) THEN Wild(h, c)
    ELSE Result([h EXCEPT ![cur].chs = h[c.past].chs], [c EXCEPT !.cur = cur, !.op = "DONE"])

Handle(h, c) ==
    CASE c.op = "INIT"   -> HandleInit(h, c)
      [] c.op = "SEARCH" -> HandleSearch(h, c)
      [] c.op = "INSERT" -> HandleInsert(h, c)
      [] c.op = "FORK"   -> HandleFork(h, c)
===============================================================================
