--------------------------------- MODULE Art ----------------------------------
(* lib/trees/art on a tree nobody shares: build, the update in place and the  *)
(* queries, which walk the whole tree, and the shape of a complete one.       *)
EXTENDS ArtCow

-------------------------------------------------------------------------------
(* The update in place and build *)

RECURSIVE UpdateInplace(_, _, _, _)
UpdateInplace(t, ofs, key, val) ==
    IF t = Nil THEN Leaf(ofs, key, val)
    ELSE LET next == ofs + t.len
             d == Digit(key, next)
             i == FindIdx(t, d)
             new == AppendKey(t, d)
         IN  CASE ~Matches(t, key) ->
                    ForkNode(t, ofs, key, ForkOld(t, key), Leaf(ofs + PrefixMatch(t, key) + 1, key, val))
               [] Matches(t, key) /\ t.type = "LEAF" -> [t EXCEPT !.val = val]
               [] Matches(t, key) /\ t.type # "LEAF" /\ i # 0 ->
                    [t EXCEPT !.chs[i] = UpdateInplace(@, next + 1, key, val)]
               [] OTHER -> [new EXCEPT !.chs = InsertChild(new, t, d, Leaf(next + 1, key, val))]

\* An initial element has the value 0.
Build(keys) == FoldLeft(LAMBDA t, key : UpdateInplace(t, 0, key, 0), Nil, keys)

-------------------------------------------------------------------------------
(* Queries *)

RECURSIVE Find(_, _)
Find(t, key) ==
    CASE t = Nil -> <<>>
      [] t # Nil /\ ~Matches(t, key) -> <<>>
      [] t # Nil /\ Matches(t, key) /\ t.type = "LEAF" -> <<t.val>>
      [] OTHER -> LET i == FindIdx(t, Digit(key, t.ofs + t.len))
                  IN  IF i = 0 THEN <<>> ELSE Find(t.chs[i], key)

RECURSIVE ScanAppend(_, _)
\* The elements below the digits from d on, in the order of the digits.
ScanAppend(t, d) ==
    CASE t = Nil -> <<>>
      [] t # Nil /\ t.type = "LEAF" -> << <<t.pfx, t.val>> >>
      [] OTHER -> FlattenSeq([i \in 1..Radix |->
                      IF i - 1 < d \/ FindIdx(t, i - 1) = 0 THEN <<>>
                      ELSE ScanAppend(t.chs[FindIdx(t, i - 1)], 0)])

RECURSIVE ScanSearch(_, _)

\* Mutant: a scan reads only below the digits of the key.
MutScanSearch(t, key) ==
    IF t = Nil THEN <<>>
    ELSE IF t.type = "LEAF" \/ ~Matches(t, key) THEN ScanAppend(t, 0)
    ELSE LET i == FindIdx(t, Digit(key, t.ofs + t.len))
         IN  IF i = 0 THEN <<>> ELSE ScanSearch(t.chs[i], key)

\* The elements from the key on.
ScanSearch(t, key) ==
    IF t = Nil THEN <<>>
    ELSE LET d == Digit(key, t.ofs + PrefixMatch(t, key))  i == FindIdx(t, d)
         IN  CASE ~Matches(t, key) ->
                    IF Digit(t.pfx, t.ofs + PrefixMatch(t, key)) < d THEN <<>> ELSE ScanAppend(t, 0)
               [] Matches(t, key) /\ t.type = "LEAF" -> ScanAppend(t, 0)
               [] OTHER -> (IF i = 0 THEN <<>> ELSE ScanSearch(t.chs[i], key)) \o ScanAppend(t, d + 1)

Scan(t, key, n) == Take(ScanSearch(t, key), n)

-------------------------------------------------------------------------------
(* The shape of a complete tree *)

Elements(t) == ScanAppend(t, 0)

RECURSIVE ShapeHolds(_, _)
\* A node stands at the digit ofs, tells at least two children apart, and has
\* room for them; below a digit are keys that have it.
ShapeHolds(t, ofs) ==
    /\ t.ofs = ofs /\ t.len <= Digits - ofs
    /\ t.type = "LEAF" => t.len = Digits - ofs
    /\ t.type # "LEAF" =>
         /\ Copied(t) /\ Cardinality({i \in DOMAIN t.chs : t.chs[i] # Nil}) >= 2
         /\ t.type # "NODE256" => Len(t.keys) <= Capacity[t.type] /\ \A i \in DOMAIN t.chs : t.chs[i] # Nil
         /\ \A i, j \in DOMAIN t.keys : i # j => t.keys[i] # t.keys[j]
         /\ t.type \in {"NODE4", "NODE16"} => \A i, j \in DOMAIN t.keys : i < j => t.keys[i] < t.keys[j]
         /\ \A i \in DOMAIN t.chs : t.chs[i] # Nil => ShapeHolds(t.chs[i], ofs + t.len + 1)

WellFormed(t) == t = Nil \/ ShapeHolds(t, 0)
===============================================================================
