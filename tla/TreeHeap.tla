------------------------------- MODULE TreeHeap -------------------------------
(* The memory the copy-on-write trees share: a function from identities to   *)
(* nodes.  Versions share nodes, hence identities; a pointer is an identity, *)
(* its version (node::ver) the first member of it.  A node the task sno      *)
(* makes is <<sno, n>>; the nodes of a tree built or rebuilt are <<0, r>>    *)
(* followed by their path, since their version is 0.                         *)
(*                                                                           *)
(* A node is a record with a sequence chs of pointers; indexes start at 1.   *)
(* A tree nobody shares (build, update_inplace, and what a query walks) is a *)
(* nested node, whose chs are nodes.                                         *)
EXTENDS Naturals, FiniteSets, SequencesExt

\* nullptr, and an empty tree.
Nil == <<>>

Version(id) == id[1]

\* The k-th node the task sno makes from here on.
Fresh(h, sno, k) ==
    <<sno, k + Cardinality({id \in DOMAIN h : Version(id) = sno})>>

\* aligned_alloc and the writes that fill the nodes, in the order of nodes.
Alloc(h, sno, nodes) ==
    LET before == Cardinality({id \in DOMAIN h : Version(id) = sno})
        new    == {<<sno, before + k>> : k \in DOMAIN nodes}
    IN  [id \in DOMAIN h \union new |->
            IF id \in new THEN nodes[id[2] - before] ELSE h[id]]

\* The context of a task (conctrl::context and what the trees add to it):
\* past = t_past, cur = t_cur, idx = split_idx or ch_idx, ofs = key_ofs,
\* emb = the bits embedded in a pointer (embed_pfx).
\* ran and stage count its handlers, all and those a worker ran.
NewContext(sno, key, past) ==
    [op |-> "INIT", sno |-> sno, key |-> key, root |-> Nil, past |-> past,
     cur |-> Nil, idx |-> 0, ofs |-> 0, emb |-> <<>>, wait_child |-> FALSE,
     new_checkpoint |-> FALSE, ran |-> 0, stage |-> 0]

\* What a handler leaves: the memory and its context.
Result(h, c) == [heap |-> h, ctx |-> c]

\* Mutant: the handler INIT leaves the root of the context.
MutRooted(r) == r

\* The handler INIT: the node it made is the root.
Rooted(r) == [r EXCEPT !.ctx.root = r.ctx.cur]

\* The node it made is the i-th child of another.
Linked(r, node, i) == [r EXCEPT !.heap[node].chs[i] = r.ctx.cur]

\* The handler follows a pointer nobody wrote: the behaviour is undefined.
Wild(h, c) == Result(h, [c EXCEPT !.op = "WILD"])

\* The numbers of a set, in order.
InOrder(S) == [i \in 1..Cardinality(S) |-> CHOOSE x \in S : Cardinality({y \in S : y < x}) = i - 1]

\* A query that asks for n records ends with what it has.
Take(s, n) == SubSeq(s, 1, IF n < Len(s) THEN n ELSE Len(s))
===============================================================================
