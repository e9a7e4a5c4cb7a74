--------------------------------- MODULE Aert ---------------------------------
(* lib/trees/aert on a tree nobody shares: build, the update in place and the *)
(* queries, which walk the whole tree, and the shape of a complete one.       *)
EXTENDS AertCow

-------------------------------------------------------------------------------
(* The update in place and build *)

RECURSIVE UpdateInplace(_, _, _, _, _)
\* The node, and what is embedded in the pointer to it.
UpdateInplace(t, emb, ofs, key, val) ==
    IF t = Nil THEN <<Leaf(ofs, key, val), LeafEmb(ofs, key)>>
    ELSE LET at == ofs + Len(emb) + t.len
             k == Part(key, at, KeyLen(t.type))
             i == FindIdx(t, k)
             below == UpdateInplace(t.chs[i], t.emb[i], at + KeyLen(t.type), key, val)
             next == at + KeyLen(t.type)
             ks == ToSet(t.keys) \union {k}
             child == [x \in ks |-> IF x = k THEN Leaf(next, key, val) ELSE t.chs[FindIdx(t, x)]]
             lower == [f \in Shared(ks) |-> LowerHalf(t, ks, f, Seconds(ks, f), child)]
         IN  CASE ~EmbMatches(emb, t.ofs, key) ->
                    <<ForkHalf(emb, ofs, key, t, Leaf(ofs + 1, key, val)), <<>>>>
               [] EmbMatches(emb, t.ofs, key) /\ ~Matches(t, key) ->
                    <<ForkNode(t, key, ForkOld(t, key), ForkLeaf(t, key, val)), emb>>
               [] OTHER ->
                    CASE t.type = "LEAF" -> <<[t EXCEPT !.val = val], emb>>
                      [] t.type # "LEAF" /\ i # 0 ->
                           <<[t EXCEPT !.chs[i] = below[1], !.emb[i] = below[2]], emb>>
                      [] t.type = "NODE16" /\ i = 0 /\ Len(t.keys) = Radix ->
                           <<UpperHalf(t, ks, Firsts(ks), lower, child), emb>>
                      [] OTHER ->
                           <<InsertChild(AppendKey(t, k), t, k, Leaf(next, key, val), LeafEmb(next, key)), emb>>

\* The root pointer has nothing embedded.
Update(t, key, val) == UpdateInplace(t, <<>>, 0, key, val)[1]

\* An initial element has the value 0.
Build(keys) == FoldLeft(LAMBDA t, key : Update(t, key, 0), Nil, keys)

-------------------------------------------------------------------------------
(* Queries *)

RECURSIVE Find(_, _, _)
Find(t, emb, key) ==
    IF t = Nil THEN <<>>
    ELSE LET i == FindIdx(t, Part(key, t.ofs + t.len, KeyLen(t.type)))
         IN  CASE ~EmbMatches(emb, t.ofs, key) \/ ~Matches(t, key) -> <<>>
               [] EmbMatches(emb, t.ofs, key) /\ Matches(t, key) /\ t.type = "LEAF" -> <<t.val>>
               [] OTHER -> IF i = 0 THEN <<>> ELSE Find(t.chs[i], t.emb[i], key)

RECURSIVE ScanAppend(_, _)
\* The elements below the keys from k on; the keys are in order.
ScanAppend(t, k) ==
    CASE t = Nil -> <<>>
      [] t # Nil /\ t.type = "LEAF" -> << <<t.pfx, t.val>> >>
      [] OTHER -> FlattenSeq([i \in DOMAIN t.keys |->
                      IF t.keys[i] < k THEN <<>> ELSE ScanAppend(t.chs[i], 0)])

RECURSIVE ScanSearch(_, _, _)
\* The elements from the key on.  Where the embedded half digit e differs, it
\* is compared with the half digit behind the one it stands for; at the end of
\* the key that is the first one (a shift by -4 is one by 60 on this build).
ScanSearch(t, emb, key) ==
    IF t = Nil THEN <<>>
    ELSE LET m == PrefixMatch(t, key)
             k == Part(key, t.ofs + t.len, KeyLen(t.type))
             i == FindIdx(t, k)
             wrong == Part(key, IF t.ofs = Digits THEN 0 ELSE t.ofs, 1)
         IN  CASE ~EmbMatches(emb, t.ofs, key) -> IF emb[1] < wrong THEN <<>> ELSE ScanAppend(t, 0)
               [] EmbMatches(emb, t.ofs, key) /\ ~Matches(t, key) ->
                    IF Part(t.pfx, t.ofs + m, 2) < Part(key, t.ofs + m, 2) THEN <<>> ELSE ScanAppend(t, 0)
               [] OTHER ->
                    IF t.type = "LEAF" THEN ScanAppend(t, 0)
                    ELSE (IF i = 0 THEN <<>> ELSE ScanSearch(t.chs[i], t.emb[i], key)) \o ScanAppend(t, k + 1)

Scan(t, key, n) == Take(ScanSearch(t, <<>>, key), n)

RECURSIVE Misled(_, _, _)
\* On its way to the key the scan meets a half digit of which that comparison
\* says the opposite of what the key's own would.
Misled(t, emb, key) ==
    /\ t # Nil
    /\ LET i == FindIdx(t, Part(key, t.ofs + t.len, KeyLen(t.type)))
           wrong == Part(key, IF t.ofs = Digits THEN 0 ELSE t.ofs, 1)
       IN  IF ~EmbMatches(emb, t.ofs, key)
           THEN (emb[1] < wrong) # (emb[1] < Part(key, t.ofs - 1, 1))
           ELSE /\ Matches(t, key) /\ t.type # "LEAF" /\ i # 0
                /\ Misled(t.chs[i], t.emb[i], key)

-------------------------------------------------------------------------------
(* The shape of a complete tree *)

Elements(t) == ScanAppend(t, 0)

RECURSIVE ShapeHolds(_, _, _)
\* A node stands at the half digit ofs, or behind the one embedded; only lower
\* halves and what hangs under a pointer with bits stand inside a digit.
ShapeHolds(t, emb, ofs) ==
    LET next == t.ofs + t.len + KeyLen(t.type) IN
    /\ t.ofs = ofs + Len(emb) /\ (t.ofs % 2 = 1 <=> (emb = <<>> /\ ofs % 2 = 1))
    /\ t.ofs % 2 = 1 => t.type \in {"NODEH4", "NODEH16"} /\ t.len = 0
    /\ t.type = "LEAF" => t.len = Digits - t.ofs
    /\ t.type # "LEAF" =>
         /\ Copied(t) /\ Len(t.emb) = Len(t.keys)
         /\ Cardinality({i \in DOMAIN t.chs : t.chs[i] # Nil}) >= 2
         /\ Len(t.keys) <= IF t.type \in {"NODE4", "NODEH4"} THEN Small ELSE Radix
         /\ \A i, j \in DOMAIN t.keys : i < j => t.keys[i] < t.keys[j]
         /\ \A i \in DOMAIN t.chs : t.chs[i] # Nil => ShapeHolds(t.chs[i], t.emb[i], next)

WellFormed(t) == t = Nil \/ ShapeHolds(t, <<>>, 0)
===============================================================================
