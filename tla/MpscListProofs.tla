---------------------------- MODULE MpscListProofs ----------------------------
(* Theorems about MpscList for every number of workers.                      *)
EXTENDS MpscList, SequenceTheorems, TLAPS

USE NodesAssumption

LEMMA NodeFacts ==
    /\ Stub \in Nodes /\ Null \notin Nodes
    /\ Nodes \ {Stub} = Items
BY DEF Nodes

\* Appending at head_ keeps the chain's links and distinct nodes.
LEMMA ChainAppend ==
    ASSUME NEW s \in Seq(Nodes), NEW n \in Nodes
    PROVE  /\ Append(s, n) \in Seq(Nodes)
           /\ Len(Append(s, n)) = Len(s) + 1
           /\ \A k \in 1..Len(s) : Append(s, n)[k] = s[k]
           /\ Append(s, n)[Len(s) + 1] = n
BY AppendProperties

LEMMA ChainTail ==
    ASSUME NEW s \in Seq(Nodes), s # <<>>
    PROVE  /\ Tail(s) \in Seq(Nodes)
           /\ Len(s) \in Nat /\ Len(s) >= 1
           /\ Len(Tail(s)) = Len(s) - 1
           /\ \A k \in 1..(Len(s) - 1) : Tail(s)[k] = s[k + 1]
BY HeadTailProperties, LenProperties, EmptySeq

LEMMA ListInit == Init => ListInv
<1> SUFFICES ASSUME Init PROVE ListInv
  OBVIOUS
<1>1. /\ chain \in Seq(Nodes) /\ Len(chain) = 1 /\ chain[1] = Stub
      /\ chain # <<>>
  BY NodeFacts DEF Init
<1>2. TypeOK
  BY <1>1, NodeFacts DEF Init, TypeOK
<1>3. ChainInOrder
  BY <1>1, NodeFacts DEF Init, ChainInOrder
<1>4. Membership
  BY <1>1, NodeFacts DEF Init, Membership, InChain
<1>5. StubInOrder
  BY <1>1, NodeFacts DEF Init, StubInOrder
<1> QED
  BY <1>2, <1>3, <1>4, <1>5 DEF ListInv

LEMMA ChainFacts ==
    ASSUME ListInv
    PROVE  /\ chain \in Seq(Nodes) /\ Len(chain) \in Nat /\ Len(chain) >= 1
           /\ \A k \in 1..Len(chain) : chain[k] \in Nodes
           /\ chain[1] = tail /\ chain[Len(chain)] = head
           /\ 1 \in 1..Len(chain) /\ Len(chain) \in 1..Len(chain)
<1>1. chain \in Seq(Nodes) /\ chain # <<>>
  BY DEF ListInv, TypeOK, ChainInOrder
<1>2. Len(chain) \in Nat /\ Len(chain) >= 1
  BY <1>1, LenProperties, EmptySeq
<1>3. \A k \in 1..Len(chain) : chain[k] \in Nodes
  BY <1>1, ElementOfSeq
<1> QED
  BY <1>1, <1>2, <1>3 DEF ListInv, ChainInOrder

\* item->next = nullptr, of a node outside the list.
LEMMA ClearKeeps ==
    ASSUME ListInv, NEW n \in Nodes, pc[n] = "busy", Clear(n)
    PROVE  ChainInOrder' /\ Membership'
<1>1. ~InChain(n)
  BY DEF ListInv, Membership
<1>2. \A k \in 1..Len(chain) : chain[k] # n
  BY <1>1 DEF InChain
<1>3. ChainInOrder'
  <2>1. /\ tail # n /\ head # n
        /\ \A k \in 1..(Len(chain) - 1) : /\ k \in 1..Len(chain)
                                          /\ k + 1 \in 1..Len(chain)
    BY <1>2, ChainFacts
  <2>2. \A k \in 1..Len(chain) : /\ next'[chain[k]] = next[chain[k]]
                                 /\ pc'[chain[k]] = pc[chain[k]]
    BY <1>2, ChainFacts DEF Clear, ListInv, TypeOK
  <2> QED
    BY <2>1, <2>2, ChainFacts DEF Clear, ListInv, ChainInOrder, TypeOK
<1>4. Membership'
  BY <1>1, NodeFacts DEF Clear, ListInv, Membership, InChain, TypeOK
<1> QED
  BY <1>3, <1>4

\* prev = head_.exchange(item): the node joins the chain at its end.
LEMMA ExchangeKeeps ==
    ASSUME ListInv, NEW n \in Nodes, ExchangeHead(n)
    PROVE  ChainInOrder' /\ Membership' /\ chain' \in Seq(Nodes)
<1> DEFINE m == Len(chain)
<1>1. /\ ~InChain(n) /\ next[n] = Null /\ pc[n] = "exchange"
  BY DEF ExchangeHead, ListInv, Membership
<1>2. \A k \in 1..m : chain[k] # n
  BY <1>1 DEF InChain
<1>3. /\ chain' \in Seq(Nodes) /\ Len(chain') = m + 1
      /\ \A k \in 1..m : chain'[k] = chain[k]
      /\ chain'[m + 1] = n
  BY ChainAppend, ChainFacts DEF ExchangeHead
<1>4. /\ m \in Nat /\ m >= 1 /\ chain[1] = tail /\ chain[m] = head
      /\ \A k \in 1..m : chain[k] \in Nodes
  BY ChainFacts
<1> HIDE DEF m
<1>5. ChainInOrder'
  <2>1. \A k \in 1..m : pc'[chain[k]] = pc[chain[k]] /\ prev'[chain[k]] = prev[chain[k]]
    BY <1>2, <1>4 DEF ExchangeHead, ListInv, TypeOK
  <2>2. next' = next /\ head' = n /\ tail' = tail /\ pc'[n] = "link" /\ prev'[n] = head
    BY DEF ExchangeHead, ListInv, TypeOK
  <2>3. chain' # <<>> /\ chain'[1] = tail' /\ chain'[Len(chain')] = head'
    BY <1>3, <1>4, <2>2, EmptySeq
  <2>4. pc'[tail'] = "listed" /\ next'[head'] = Null
    BY <1>1, <1>4, <2>1, <2>2 DEF ListInv, ChainInOrder
  <2>5. \A j, k \in 1..(m + 1) : chain'[j] = chain'[k] => j = k
    <3>1. \A j, k \in 1..m : chain[j] = chain[k] => j = k
      BY DEF ListInv, ChainInOrder, m
    <3> QED
      BY <3>1, <1>2, <1>3, <1>4
  <2>6. \A k \in 1..m :
         \/ pc'[chain'[k + 1]] = "listed" /\ next'[chain'[k]] = chain'[k + 1]
         \/ /\ pc'[chain'[k + 1]] = "link" /\ prev'[chain'[k + 1]] = chain'[k]
            /\ next'[chain'[k]] = Null
    <3> SUFFICES ASSUME NEW k \in 1..m
                 PROVE \/ /\ pc'[chain'[k + 1]] = "listed"
                          /\ next'[chain'[k]] = chain'[k + 1]
                       \/ /\ pc'[chain'[k + 1]] = "link"
                          /\ prev'[chain'[k + 1]] = chain'[k]
                          /\ next'[chain'[k]] = Null
      OBVIOUS
    <3>1. CASE k = m
      BY <3>1, <1>3, <1>4, <2>2 DEF ListInv, ChainInOrder
    <3>2. CASE k < m
      <4>1. k \in 1..(m - 1) /\ k + 1 \in 1..m
        BY <3>2, <1>4
      <4>2. \/ pc[chain[k + 1]] = "listed" /\ next[chain[k]] = chain[k + 1]
            \/ /\ pc[chain[k + 1]] = "link" /\ prev[chain[k + 1]] = chain[k]
               /\ next[chain[k]] = Null
        BY <4>1 DEF ListInv, ChainInOrder, m
      <4> QED
        BY <4>1, <4>2, <1>3, <2>1, <2>2
    <3> QED
      BY <3>1, <3>2, <1>4
  <2>7. Len(chain') - 1 = m /\ Len(chain') = m + 1
    BY <1>3, <1>4
  <2> QED
    BY <2>3, <2>4, <2>5, <2>6, <2>7 DEF ChainInOrder
<1>6. Membership'
  <2>1. \A i \in Nodes : InChain(i)' <=> InChain(i) \/ i = n
    BY <1>3, <1>4 DEF InChain, m
  <2>2. \A i \in Nodes \ {n} : pc'[i] = pc[i] /\ next'[i] = next[i]
    BY DEF ExchangeHead, ListInv, TypeOK
  <2>3. pc'[n] = "link"
    BY DEF ExchangeHead, ListInv, TypeOK
  <2> QED
    BY <2>1, <2>2, <2>3 DEF ListInv, Membership
<1> QED
  BY <1>3, <1>5, <1>6

\* A pushed node that is not linked yet stands behind the one it will link.
LEMMA PendingLink ==
    ASSUME ListInv, NEW n \in Nodes, pc[n] = "link"
    PROVE  \E k \in 1..(Len(chain) - 1) :
              /\ k \in 1..Len(chain) /\ k + 1 \in 1..Len(chain)
              /\ chain[k + 1] = n /\ prev[n] = chain[k]
              /\ next[chain[k]] = Null
<1>1. PICK j \in 1..Len(chain) : chain[j] = n
  BY DEF ListInv, Membership, InChain
<1>2. j # 1
  BY <1>1, ChainFacts DEF ListInv, ChainInOrder
<1>3. /\ j - 1 \in 1..(Len(chain) - 1) /\ j - 1 \in 1..Len(chain)
      /\ (j - 1) + 1 = j
  BY <1>2, ChainFacts
<1>4. prev[n] = chain[j - 1] /\ next[chain[j - 1]] = Null
  BY <1>1, <1>3 DEF ListInv, ChainInOrder
<1> QED
  BY <1>1, <1>3, <1>4

\* prev->next = item
LEMMA LinkKeeps ==
    ASSUME ListInv, NEW n \in Nodes, LinkPrev(n)
    PROVE  ChainInOrder' /\ Membership' /\ prev[n] \in Nodes
<1> DEFINE m == Len(chain)
<1>1. PICK p \in 1..(m - 1) : /\ p \in 1..m /\ p + 1 \in 1..m
                              /\ chain[p + 1] = n /\ prev[n] = chain[p]
                              /\ next[chain[p]] = Null
  BY PendingLink DEF LinkPrev
<1>2. /\ m \in Nat /\ m >= 1 /\ chain[1] = tail /\ chain[m] = head
      /\ \A k \in 1..m : chain[k] \in Nodes
      /\ 1 \in 1..m /\ m \in 1..m
  BY ChainFacts
<1>3. \A j, k \in 1..m : chain[j] = chain[k] => j = k
  BY DEF ListInv, ChainInOrder
<1> HIDE DEF m
<1>4. /\ chain' = chain /\ head' = head /\ tail' = tail
      /\ next'[chain[p]] = n /\ pc'[n] = "listed"
      /\ \A i \in Nodes \ {chain[p]} : next'[i] = next[i]
      /\ \A i \in Nodes \ {n} : pc'[i] = pc[i] /\ prev'[i] = prev[i]
  BY <1>1, <1>2 DEF LinkPrev, ListInv, TypeOK
<1>5. ChainInOrder'
  <2>1. chain' # <<>> /\ chain'[1] = tail' /\ chain'[m] = head'
    BY <1>4, <1>2 DEF ListInv, ChainInOrder
  <2>2. pc'[tail'] = "listed" /\ next'[head'] = Null
    <3>1. head # chain[p]
      BY <1>1, <1>2, <1>3
    <3> QED
      BY <3>1, <1>2, <1>4 DEF ListInv, ChainInOrder
  <2>3. \A k \in 1..(m - 1) :
         \/ pc'[chain[k + 1]] = "listed" /\ next'[chain[k]] = chain[k + 1]
         \/ /\ pc'[chain[k + 1]] = "link" /\ prev'[chain[k + 1]] = chain[k]
            /\ next'[chain[k]] = Null
    <3> SUFFICES ASSUME NEW k \in 1..(m - 1)
                 PROVE \/ /\ pc'[chain[k + 1]] = "listed"
                          /\ next'[chain[k]] = chain[k + 1]
                       \/ /\ pc'[chain[k + 1]] = "link"
                          /\ prev'[chain[k + 1]] = chain[k]
                          /\ next'[chain[k]] = Null
      OBVIOUS
    <3>1. CASE k = p
      BY <3>1, <1>1, <1>4
    <3>2. CASE k # p
      <4>1. k \in 1..m /\ k + 1 \in 1..m /\ k + 1 # p + 1
        BY <3>2, <1>2
      <4>2. chain[k] # chain[p] /\ chain[k + 1] # n
        BY <4>1, <3>2, <1>1, <1>3
      <4>3. \/ pc[chain[k + 1]] = "listed" /\ next[chain[k]] = chain[k + 1]
            \/ /\ pc[chain[k + 1]] = "link" /\ prev[chain[k + 1]] = chain[k]
               /\ next[chain[k]] = Null
        BY DEF ListInv, ChainInOrder, m
      <4> QED
        BY <4>1, <4>2, <4>3, <1>2, <1>4
    <3> QED
      BY <3>1, <3>2
  <2> QED
    BY <2>1, <2>2, <2>3, <1>3, <1>4 DEF ChainInOrder, m
<1>6. Membership'
  <2>1. \A i \in Nodes : InChain(i)' <=> InChain(i)
    BY <1>4 DEF InChain
  <2>2. InChain(n) /\ InChain(chain[p])
    BY <1>1 DEF InChain, m
  <2> QED
    BY <2>1, <2>2, <1>4 DEF ListInv, Membership
<1> QED
  BY <1>1, <1>2, <1>5, <1>6

\* tail_ = next: the first node leaves the chain; the next one is linked,
\* and no push behind the first is unfinished.
LEMMA AdvanceKeeps ==
    ASSUME ListInv, next[tail] # Null,
           tail' = next[tail],
           pc' = [pc EXCEPT ![tail] = "busy"],
           chain' = Tail(chain),
           UNCHANGED <<head, next, prev>>
    PROVE  /\ ChainInOrder' /\ Membership'
           /\ chain' \in Seq(Nodes) /\ tail' \in Nodes /\ Len(chain) >= 2
           /\ \A n \in Nodes : pc[n] = "link" => prev[n] # tail
<1> DEFINE m == Len(chain)
<1>1. /\ m \in Nat /\ m >= 1 /\ chain[1] = tail /\ chain[m] = head
      /\ \A k \in 1..m : chain[k] \in Nodes
      /\ 1 \in 1..m /\ m \in 1..m /\ chain \in Seq(Nodes)
  BY ChainFacts
<1>2. \A j, k \in 1..m : chain[j] = chain[k] => j = k
  BY DEF ListInv, ChainInOrder
<1>3. \A k \in 1..(m - 1) :
         \/ pc[chain[k + 1]] = "listed" /\ next[chain[k]] = chain[k + 1]
         \/ /\ pc[chain[k + 1]] = "link" /\ prev[chain[k + 1]] = chain[k]
            /\ next[chain[k]] = Null
  BY DEF ListInv, ChainInOrder
<1> HIDE DEF m
<1>4. m >= 2
  BY <1>1 DEF ListInv, ChainInOrder
<1>5. pc[chain[2]] = "listed" /\ next[tail] = chain[2] /\ 2 \in 1..m
  <2>1. 1 \in 1..(m - 1) /\ 1 + 1 = 2
    BY <1>4, <1>1
  <2> QED
    BY <2>1, <1>1, <1>3, <1>4
<1>6. /\ chain' \in Seq(Nodes) /\ Len(chain') = m - 1
      /\ \A k \in 1..(m - 1) : chain'[k] = chain[k + 1]
  <2>1. chain # <<>>
    BY DEF ListInv, ChainInOrder
  <2> QED
    BY <2>1, <1>1, ChainTail DEF m
<1>7. \A n \in Nodes : pc[n] = "link" => prev[n] # tail
  <2> SUFFICES ASSUME NEW n \in Nodes, pc[n] = "link", prev[n] = tail
               PROVE  FALSE
    OBVIOUS
  <2>1. PICK k \in 1..(m - 1) : prev[n] = chain[k] /\ next[chain[k]] = Null
    BY PendingLink DEF m
  <2> QED
    BY <2>1
<1>8. \A i \in Nodes \ {tail} : pc'[i] = pc[i]
  BY DEF ListInv, TypeOK
<1>9. \A k \in 1..m : k # 1 => chain[k] # tail
  BY <1>1, <1>2
<1>10. ChainInOrder'
  <2>1. chain' # <<>> /\ chain'[1] = tail' /\ chain'[m - 1] = head'
    <3>1. /\ 1 \in 1..(m - 1) /\ m - 1 \in 1..(m - 1)
          /\ 1 + 1 = 2 /\ (m - 1) + 1 = m
      BY <1>1, <1>4
    <3>2. chain'[1] = chain[2] /\ chain'[m - 1] = chain[m]
      BY <3>1, <1>6
    <3>3. chain' # <<>>
      <4>1. Len(chain') # 0
        BY <1>1, <1>4, <1>6
      <4> QED
        BY <4>1, <1>6, EmptySeq
    <3> QED
      BY <3>2, <3>3, <1>1, <1>5
  <2>2. pc'[tail'] = "listed" /\ next'[head'] = Null
    BY <1>1, <1>5, <1>8, <1>9 DEF ListInv, ChainInOrder
  <2>3. \A j, k \in 1..(m - 1) : chain'[j] = chain'[k] => j = k
    <3> SUFFICES ASSUME NEW j \in 1..(m - 1), NEW k \in 1..(m - 1),
                        chain'[j] = chain'[k]
                 PROVE  j = k
      OBVIOUS
    <3>1. j + 1 \in 1..m /\ k + 1 \in 1..m /\ chain[j + 1] = chain[k + 1]
      BY <1>1, <1>6
    <3> QED
      BY <3>1, <1>1, <1>2
  <2>4. \A k \in 1..(m - 2) :
         \/ pc'[chain'[k + 1]] = "listed" /\ next'[chain'[k]] = chain'[k + 1]
         \/ /\ pc'[chain'[k + 1]] = "link" /\ prev'[chain'[k + 1]] = chain'[k]
            /\ next'[chain'[k]] = Null
    <3> SUFFICES ASSUME NEW k \in 1..(m - 2)
                 PROVE \/ /\ pc'[chain'[k + 1]] = "listed"
                          /\ next'[chain'[k]] = chain'[k + 1]
                       \/ /\ pc'[chain'[k + 1]] = "link"
                          /\ prev'[chain'[k + 1]] = chain'[k]
                          /\ next'[chain'[k]] = Null
      OBVIOUS
    <3>1. /\ k \in 1..(m - 1) /\ k + 1 \in 1..(m - 1) /\ (k + 1) + 1 \in 1..m
          /\ (k + 1) + 1 # 1
      BY <1>1
    <3>2. chain'[k] = chain[k + 1] /\ chain'[k + 1] = chain[(k + 1) + 1]
      BY <3>1, <1>6
    <3>3. pc'[chain[(k + 1) + 1]] = pc[chain[(k + 1) + 1]]
      BY <3>1, <1>1, <1>8, <1>9
    <3>4. \/ /\ pc[chain[(k + 1) + 1]] = "listed"
             /\ next[chain[k + 1]] = chain[(k + 1) + 1]
          \/ /\ pc[chain[(k + 1) + 1]] = "link"
             /\ prev[chain[(k + 1) + 1]] = chain[k + 1]
             /\ next[chain[k + 1]] = Null
      BY <3>1, <1>3
    <3> QED
      BY <3>2, <3>3, <3>4
  <2>5. Len(chain') = m - 1 /\ Len(chain') - 1 = m - 2
    BY <1>1, <1>6
  <2>6. chain'[Len(chain')] = head'
    BY <2>1, <2>5
  <2>7. \A j, k \in 1..Len(chain') : chain'[j] = chain'[k] => j = k
    BY <2>3, <2>5
  <2>8. \A k \in 1..(Len(chain') - 1) :
         \/ pc'[chain'[k + 1]] = "listed" /\ next'[chain'[k]] = chain'[k + 1]
         \/ /\ pc'[chain'[k + 1]] = "link" /\ prev'[chain'[k + 1]] = chain'[k]
            /\ next'[chain'[k]] = Null
    BY <2>4, <2>5
  <2> QED
    BY <2>1, <2>2, <2>6, <2>7, <2>8 DEF ChainInOrder
<1>11. Membership'
  <2>1. \A i \in Nodes : InChain(i)' <=> InChain(i) /\ i # tail
    <3> SUFFICES ASSUME NEW i \in Nodes
                 PROVE  InChain(i)' <=> InChain(i) /\ i # tail
      OBVIOUS
    <3>1. ASSUME InChain(i)' PROVE InChain(i) /\ i # tail
      <4>1. PICK k \in 1..(m - 1) : chain'[k] = i
        BY <3>1, <1>6 DEF InChain
      <4>2. k + 1 \in 1..m /\ k + 1 # 1 /\ chain[k + 1] = i
        BY <4>1, <1>1, <1>6
      <4> QED
        BY <4>2, <1>9 DEF InChain, m
    <3>2. ASSUME InChain(i), i # tail PROVE InChain(i)'
      <4>1. PICK k \in 1..m : chain[k] = i
        BY <3>2 DEF InChain, m
      <4>2. k - 1 \in 1..(m - 1) /\ chain'[k - 1] = chain[(k - 1) + 1]
        BY <4>1, <3>2, <1>1, <1>6
      <4>3. (k - 1) + 1 = k
        BY <4>1, <1>1
      <4> QED
        BY <4>1, <4>2, <4>3, <1>6 DEF InChain
    <3> QED
      BY <3>1, <3>2
  <2>2. pc'[tail] = "busy"
    BY DEF ListInv, TypeOK
  <2> QED
    BY <2>1, <2>2, <1>8 DEF ListInv, Membership
<1>12. tail' \in Nodes
  BY <1>1, <1>5
<1> QED
  BY <1>4, <1>6, <1>7, <1>10, <1>11, <1>12 DEF m

LEMMA ListStep == ListInv /\ [Next]_vars => ListInv'
<1> SUFFICES ASSUME ListInv, [Next]_vars PROVE ListInv'
  OBVIOUS
<1> USE NodeFacts
<1>1. ASSUME NEW i \in Items, Start(i) PROVE ListInv'
  <2>1. i \in Nodes /\ i # Stub /\ pc[i] = "busy" /\ Clear(i) /\ cpc' = cpc
    BY <1>1 DEF Start
  <2>2. TypeOK'
    BY <2>1 DEF Clear, ListInv, TypeOK
  <2>3. StubInOrder'
    BY <2>1 DEF Clear, ListInv, TypeOK, StubInOrder
  <2> QED
    BY <2>1, <2>2, <2>3, ClearKeeps DEF ListInv
<1>2. ASSUME NEW i \in Items, Exchange(i) PROVE ListInv'
  <2>1. i \in Nodes /\ i # Stub /\ ExchangeHead(i) /\ cpc' = cpc
    BY <1>2 DEF Exchange
  <2>2. TypeOK'
    BY <2>1, ExchangeKeeps DEF ExchangeHead, ListInv, TypeOK
  <2>3. StubInOrder'
    BY <2>1 DEF ExchangeHead, ListInv, TypeOK, StubInOrder
  <2> QED
    BY <2>1, <2>2, <2>3, ExchangeKeeps DEF ListInv
<1>3. ASSUME NEW i \in Items, Link(i) PROVE ListInv'
  <2>1. i \in Nodes /\ i # Stub /\ LinkPrev(i) /\ cpc' = cpc
    BY <1>3 DEF Link
  <2>2. TypeOK'
    BY <2>1, LinkKeeps DEF LinkPrev, ListInv, TypeOK
  <2>3. StubInOrder'
    BY <2>1 DEF LinkPrev, ListInv, TypeOK, StubInOrder
  <2> QED
    BY <2>1, <2>2, <2>3, LinkKeeps DEF ListInv
<1>4. ASSUME SkipStub PROVE ListInv'
  <2>1. /\ next[tail] # Null /\ tail' = next[tail]
        /\ pc' = [pc EXCEPT ![tail] = "busy"]
        /\ chain' = Tail(chain) /\ UNCHANGED <<head, next, prev>>
    BY <1>4 DEF SkipStub
  <2>2. /\ ChainInOrder' /\ Membership' /\ chain' \in Seq(Nodes)
        /\ tail' \in Nodes
    BY <2>1, AdvanceKeeps
  <2>3. TypeOK'
    BY <1>4, <2>2 DEF SkipStub, ListInv, TypeOK
  <2>4. StubInOrder'
    BY <1>4, <2>2 DEF SkipStub, ListInv, TypeOK, StubInOrder, ChainInOrder
  <2> QED
    BY <2>2, <2>3, <2>4 DEF ListInv
<1>5. ASSUME TakeFirst \/ TakeLast PROVE ListInv'
  <2>1. /\ next[tail] # Null /\ tail' = next[tail]
        /\ pc' = [pc EXCEPT ![tail] = "busy"]
        /\ chain' = Tail(chain) /\ UNCHANGED <<head, next, prev>>
        /\ cpc' = "idle" /\ cpc # "stub" /\ tail # Stub
    BY <1>5 DEF TakeFirst, TakeLast, AtFirst, Return, ListInv, StubInOrder
  <2>2. /\ ChainInOrder' /\ Membership' /\ chain' \in Seq(Nodes)
        /\ tail' \in Nodes
    BY <2>1, AdvanceKeeps
  <2>3. TypeOK'
    BY <2>1, <2>2 DEF ListInv, TypeOK
  <2>4. StubInOrder'
    BY <2>1 DEF ListInv, TypeOK, StubInOrder
  <2> QED
    BY <2>2, <2>3, <2>4 DEF ListInv
<1>6. ASSUME NoSuccessor \/ HeadMoved \/ StillNone PROVE ListInv'
  <2>1. UNCHANGED <<head, tail, next, pc, prev, chain>>
    BY <1>6 DEF NoSuccessor, HeadMoved, StillNone
  <2>2. TypeOK' /\ StubInOrder'
    BY <1>6, <2>1 DEF NoSuccessor, HeadMoved, StillNone, AtFirst, ListInv,
                      TypeOK, StubInOrder
  <2>3. ChainInOrder' /\ Membership'
    BY <2>1 DEF ListInv, ChainInOrder, Membership, InChain
  <2> QED
    BY <2>2, <2>3 DEF ListInv
<1>7. ASSUME StartStub PROVE ListInv'
  <2>1. pc[Stub] = "busy"
    <3>0. head = tail
      BY <1>7 DEF StartStub
    <3>0a. \A i, j \in 1..Len(chain) : chain[i] = chain[j] => i = j
      BY DEF ListInv, ChainInOrder
    <3>1. Len(chain) = 1
      BY <3>0, <3>0a, ChainFacts
    <3>2. tail # Stub
      BY <1>7 DEF StartStub, ListInv, StubInOrder
    <3>3. ~InChain(Stub)
      BY <3>1, <3>2, ChainFacts DEF InChain
    <3> QED
      BY <1>7, <3>3 DEF StartStub, ListInv, Membership, StubInOrder
  <2>2. TypeOK'
    BY <1>7 DEF StartStub, Clear, ListInv, TypeOK
  <2>3. StubInOrder'
    BY <1>7 DEF StartStub, Clear, ListInv, TypeOK, StubInOrder
  <2>4. ChainInOrder' /\ Membership'
    BY <1>7, <2>1, ClearKeeps DEF StartStub
  <2> QED
    BY <2>2, <2>3, <2>4 DEF ListInv
<1>8. ASSUME ExchangeStub PROVE ListInv'
  <2>1. TypeOK'
    BY <1>8, ExchangeKeeps DEF ExchangeStub, ExchangeHead, ListInv, TypeOK
  <2>2. StubInOrder'
    BY <1>8 DEF ExchangeStub, ExchangeHead, ListInv, TypeOK, StubInOrder
  <2> QED
    BY <1>8, <2>1, <2>2, ExchangeKeeps DEF ExchangeStub, ListInv
<1>9. ASSUME LinkStub PROVE ListInv'
  <2>1. TypeOK'
    BY <1>9, LinkKeeps DEF LinkStub, LinkPrev, ListInv, TypeOK
  <2>2. StubInOrder'
    BY <1>9 DEF LinkStub, LinkPrev, ListInv, TypeOK, StubInOrder
  <2> QED
    BY <1>9, <2>1, <2>2, LinkKeeps DEF LinkStub, ListInv
<1>10. ASSUME UNCHANGED vars PROVE ListInv'
  BY <1>10 DEF vars, ListInv, TypeOK, ChainInOrder, Membership, InChain,
               StubInOrder
<1> QED
  BY <1>1, <1>2, <1>3, <1>4, <1>5, <1>6, <1>7, <1>8, <1>9, <1>10
     DEF Next, Popping, PoppingStub, Pushing

\* The list holds together whatever pushes and pops are in progress.
THEOREM ListCorrect == Spec => []ListInv
<1> QED
  BY ListInit, ListStep, PTL DEF Spec

\* A worker that pop returns has come to the end of its push, and no push
\* behind it is about to write its next field.
THEOREM PopsAfterPush == Spec => PopAfterPush
<1> DEFINE Done == \A i \in Items : (pc[i] # "busy" /\ pc'[i] = "busy") =>
                      /\ pc[i] = "listed"
                      /\ \A n \in Nodes : pc[n] = "link" => prev[n] # i
<1>1. ListInv /\ [Next]_vars => [Done]_vars
  <2> SUFFICES ASSUME ListInv, Next PROVE Done
    BY DEF vars
  <2>1. ASSUME NEW i \in Items, pc[i] # "busy", pc'[i] = "busy"
        PROVE  /\ pc[i] = "listed"
               /\ \A n \in Nodes : pc[n] = "link" => prev[n] # i
    <3>1. TakeFirst \/ TakeLast
      BY <2>1, NodeFacts DEF Next, Popping, PoppingStub, Pushing, Start,
           Exchange, Link, SkipStub, NoSuccessor, HeadMoved, StillNone,
           StartStub, ExchangeStub, LinkStub, Clear, ExchangeHead, LinkPrev,
           ListInv, TypeOK
    <3>2. Return
      BY <3>1 DEF TakeFirst, TakeLast
    <3>3. i = tail
      BY <2>1, <3>2, NodeFacts DEF Return, ListInv, TypeOK
    <3> QED
      BY <3>2, <3>3, AdvanceKeeps DEF Return, ListInv, ChainInOrder
  <2> QED
    BY <2>1
<1> QED
  BY <1>1, ListCorrect, PTL DEF Spec, PopAfterPush

-------------------------------------------------------------------------------
(* The list is a queue. *)

Distinct(s) == \A j, k \in 1..Len(s) : s[j] = s[k] => j = k

LEMMA ChainDistinct == ListInv => Distinct(chain)
BY DEF ListInv, ChainInOrder, Distinct

\* Where the stub is, its position is the only one.
LEMMA StubInside ==
    ASSUME NEW s \in Seq(Nodes), Distinct(s),
           NEW p \in 1..Len(s), s[p] = Stub
    PROVE  /\ WithoutStub(s) =
                [k \in 1..(Len(s) - 1) |-> IF k < p THEN s[k] ELSE s[k + 1]]
           /\ WithoutStub(s) \in Seq(Items)
           /\ Len(WithoutStub(s)) = Len(s) - 1
<1> DEFINE at == {k \in 1..Len(s) : s[k] = Stub}
           q == [k \in 1..(Len(s) - 1) |-> IF k < p THEN s[k] ELSE s[k + 1]]
<1>1. at = {p}
  BY DEF Distinct
<1>2. at # {} /\ (CHOOSE k \in at : TRUE) = p
  BY <1>1
<1>3. WithoutStub(s) = q
  BY <1>2 DEF WithoutStub
<1>4. Len(s) \in Nat /\ \A k \in 1..Len(s) : s[k] \in Nodes
  BY LenProperties, ElementOfSeq
<1>5. Len(s) - 1 \in Nat
  BY <1>4
<1>6. \A k \in 1..(Len(s) - 1) : q[k] \in Items
  <2> SUFFICES ASSUME NEW k \in 1..(Len(s) - 1) PROVE q[k] \in Items
    OBVIOUS
  <2>1. k \in 1..Len(s) /\ k + 1 \in 1..Len(s)
    BY <1>4
  <2>2. CASE k < p
    BY <2>1, <2>2, <1>4, NodeFacts DEF Distinct
  <2>3. CASE ~(k < p)
    <3>1. k + 1 # p
      BY <2>3, <1>4
    <3> QED
      BY <2>1, <2>3, <3>1, <1>4, NodeFacts DEF Distinct
  <2> QED
    BY <2>2, <2>3
<1>7. q \in [1..(Len(s) - 1) -> Items]
  BY <1>6
<1>8. q \in Seq(Items) /\ Len(q) = Len(s) - 1
  <2> DEFINE n == Len(s) - 1
  <2>1. n \in Nat /\ q \in [1..n -> Items]
    BY <1>5, <1>7
  <2> HIDE DEF q, n
  <2>2. q \in Seq(Items)
    BY <2>1, SeqDef
  <2>3. Len(q) \in Nat /\ 1..Len(q) = 1..n
    BY <2>1, <2>2, LenProperties
  <2>4. Len(q) = n
    BY <2>1, <2>3
  <2> QED
    BY <2>2, <2>4 DEF n
<1> QED
  BY <1>3, <1>8

LEMMA StubOutside ==
    ASSUME NEW s \in Seq(Nodes), \A k \in 1..Len(s) : s[k] # Stub
    PROVE  WithoutStub(s) = s /\ s \in Seq(Items)
<1>1. WithoutStub(s) = s
  BY DEF WithoutStub
<1>2. Len(s) \in Nat /\ s \in [1..Len(s) -> Nodes]
  BY LenProperties
<1>3. s \in [1..Len(s) -> Items]
  BY <1>2, NodeFacts
<1> QED
  BY <1>1, <1>2, <1>3, SeqDef

LEMMA QueueAppend ==
    ASSUME NEW s \in Seq(Nodes), Distinct(s), NEW i \in Items,
           Distinct(Append(s, i))
    PROVE  WithoutStub(Append(s, i)) = Append(WithoutStub(s), i)
<1> DEFINE t == Append(s, i)
<1>1. /\ i \in Nodes /\ i # Stub /\ Len(s) \in Nat
      /\ t \in Seq(Nodes) /\ Len(t) = Len(s) + 1
      /\ \A k \in 1..Len(s) : t[k] = s[k]
      /\ t[Len(s) + 1] = i
  BY NodeFacts, ChainAppend, LenProperties
<1> HIDE DEF t
<1>2. CASE \A k \in 1..Len(s) : s[k] # Stub
  <2>1. \A k \in 1..Len(t) : t[k] # Stub
    BY <1>1, <1>2
  <2> QED
    BY <1>1, <1>2, <2>1, StubOutside DEF t
<1>3. CASE \E k \in 1..Len(s) : s[k] = Stub
  <2>1. PICK p \in 1..Len(s) : s[p] = Stub
    BY <1>3
  <2> DEFINE q == WithoutStub(s)
             r == WithoutStub(t)
  <2>2. /\ q = [k \in 1..(Len(s) - 1) |-> IF k < p THEN s[k] ELSE s[k + 1]]
        /\ q \in Seq(Items) /\ Len(q) = Len(s) - 1
    BY <2>1, StubInside
  <2>3. p \in 1..Len(t) /\ t[p] = Stub /\ Distinct(t)
    BY <1>1, <2>1 DEF t
  <2>4. /\ r = [k \in 1..(Len(t) - 1) |-> IF k < p THEN t[k] ELSE t[k + 1]]
        /\ r \in Seq(Items) /\ Len(r) = Len(t) - 1
    BY <1>1, <2>3, StubInside
  <2> HIDE DEF q, r
  <2>5. /\ Append(q, i) \in Seq(Items) /\ Len(Append(q, i)) = Len(s)
        /\ \A k \in 1..(Len(s) - 1) : Append(q, i)[k] = q[k]
        /\ Append(q, i)[Len(s)] = i
    <3>1. (Len(s) - 1) + 1 = Len(s)
      BY <1>1
    <3>2. /\ Append(q, i) \in Seq(Items) /\ Len(Append(q, i)) = Len(q) + 1
          /\ \A k \in 1..Len(q) : Append(q, i)[k] = q[k]
          /\ Append(q, i)[Len(q) + 1] = i
      BY <2>2, AppendProperties
    <3> QED
      BY <2>2, <3>1, <3>2
  <2>6. Len(r) = Len(s)
    BY <1>1, <2>4
  <2>7. \A k \in 1..Len(s) : r[k] = Append(q, i)[k]
    <3> SUFFICES ASSUME NEW k \in 1..Len(s) PROVE r[k] = Append(q, i)[k]
      OBVIOUS
    <3>1. k \in 1..(Len(t) - 1)
      BY <1>1
    <3>2. r[k] = IF k < p THEN t[k] ELSE t[k + 1]
      BY <2>4, <3>1
    <3>3. CASE k = Len(s)
      BY <3>2, <3>3, <1>1, <2>1, <2>5
    <3>4. CASE k # Len(s)
      <4>1. k \in 1..(Len(s) - 1) /\ k + 1 \in 1..Len(s)
        BY <3>4, <1>1
      <4>2. q[k] = IF k < p THEN s[k] ELSE s[k + 1]
        BY <2>2, <4>1
      <4> QED
        BY <3>2, <4>1, <4>2, <1>1, <2>5
    <3> QED
      BY <3>3, <3>4
  <2>8. r = Append(q, i)
    BY <2>4, <2>5, <2>6, <2>7, SeqEqual
  <2> QED
    BY <2>8 DEF q, r, t
<1> QED
  BY <1>2, <1>3

\* The stub itself may join or leave at an end without a change of the queue.
LEMMA QueueStubAppended ==
    ASSUME NEW s \in Seq(Nodes), \A k \in 1..Len(s) : s[k] # Stub,
           Distinct(Append(s, Stub))
    PROVE  WithoutStub(Append(s, Stub)) = WithoutStub(s)
<1> DEFINE t == Append(s, Stub)
           r == WithoutStub(t)
<1>1. /\ Len(s) \in Nat /\ t \in Seq(Nodes) /\ Len(t) = Len(s) + 1
      /\ \A k \in 1..Len(s) : t[k] = s[k]
      /\ t[Len(s) + 1] = Stub
  BY NodeFacts, ChainAppend, LenProperties
<1>2. WithoutStub(s) = s /\ s \in Seq(Items)
  BY StubOutside
<1> HIDE DEF t
<1>3. Len(s) + 1 \in 1..Len(t) /\ Distinct(t)
  BY <1>1 DEF t
<1>4. /\ r = [k \in 1..(Len(t) - 1) |->
                IF k < Len(s) + 1 THEN t[k] ELSE t[k + 1]]
      /\ r \in Seq(Items) /\ Len(r) = Len(t) - 1
  BY <1>1, <1>3, StubInside
<1>5. Len(t) - 1 = Len(s)
  BY <1>1
<1>6. \A k \in 1..Len(s) : r[k] = s[k]
  BY <1>1, <1>4, <1>5
<1> HIDE DEF r
<1>7. r = s
  BY <1>2, <1>4, <1>5, <1>6, SeqEqual
<1> QED
  BY <1>2, <1>7 DEF r, t

LEMMA QueueStubSkipped ==
    ASSUME NEW s \in Seq(Nodes), s # <<>>, Distinct(s), s[1] = Stub
    PROVE  WithoutStub(Tail(s)) = WithoutStub(s)
<1> DEFINE t == Tail(s)
           q == WithoutStub(s)
<1>1. /\ Len(s) \in Nat /\ Len(s) >= 1 /\ t \in Seq(Nodes)
      /\ Len(t) = Len(s) - 1
      /\ \A k \in 1..(Len(s) - 1) : t[k] = s[k + 1]
  BY ChainTail
<1>2. 1 \in 1..Len(s)
  BY <1>1
<1>3. /\ q = [k \in 1..(Len(s) - 1) |-> IF k < 1 THEN s[k] ELSE s[k + 1]]
      /\ q \in Seq(Items) /\ Len(q) = Len(s) - 1
  BY <1>2, StubInside
<1> HIDE DEF t, q
<1>4. \A k \in 1..Len(t) : t[k] # Stub
  <2> SUFFICES ASSUME NEW k \in 1..Len(t) PROVE t[k] # Stub
    OBVIOUS
  <2>1. k \in 1..(Len(s) - 1) /\ k + 1 \in 1..Len(s) /\ k + 1 # 1
    BY <1>1
  <2> QED
    BY <1>1, <1>2, <2>1 DEF Distinct
<1>5. WithoutStub(t) = t /\ t \in Seq(Items)
  BY <1>1, <1>4, StubOutside
<1>6. \A k \in 1..Len(t) : t[k] = q[k]
  BY <1>1, <1>3
<1>7. t = q
  BY <1>1, <1>3, <1>5, <1>6, SeqEqual
<1> QED
  BY <1>5, <1>7 DEF t, q

\* A worker at the front of the chain is the head of the queue.
LEMMA QueueTail ==
    ASSUME NEW s \in Seq(Nodes), Distinct(s), s # <<>>, s[1] # Stub
    PROVE  /\ WithoutStub(s) # <<>>
           /\ Head(WithoutStub(s)) = s[1]
           /\ WithoutStub(Tail(s)) = Tail(WithoutStub(s))
<1> DEFINE t == Tail(s)
           q == WithoutStub(s)
           r == WithoutStub(t)
<1>1. /\ Len(s) \in Nat /\ Len(s) >= 1 /\ t \in Seq(Nodes)
      /\ Len(t) = Len(s) - 1
      /\ \A k \in 1..(Len(s) - 1) : t[k] = s[k + 1]
  BY ChainTail
<1> HIDE DEF t
<1>2. CASE \A k \in 1..Len(s) : s[k] # Stub
  <2>1. \A k \in 1..Len(t) : t[k] # Stub
    <3> SUFFICES ASSUME NEW k \in 1..Len(t) PROVE t[k] # Stub
      OBVIOUS
    <3>1. k \in 1..(Len(s) - 1) /\ k + 1 \in 1..Len(s)
      BY <1>1
    <3> QED
      BY <1>1, <1>2, <3>1
  <2>2. q = s /\ r = t
    BY <1>1, <1>2, <2>1, StubOutside
  <2>3. Head(s) = s[1]
    BY HeadTailProperties
  <2> QED
    BY <2>2, <2>3 DEF t
<1>3. CASE \E k \in 1..Len(s) : s[k] = Stub
  <2>1. PICK p \in 1..Len(s) : s[p] = Stub
    BY <1>3
  <2>2. /\ q = [k \in 1..(Len(s) - 1) |-> IF k < p THEN s[k] ELSE s[k + 1]]
        /\ q \in Seq(Items) /\ Len(q) = Len(s) - 1
    BY <2>1, StubInside
  <2>3. p \in Nat /\ p > 1 /\ p - 1 \in 1..Len(t) /\ (p - 1) + 1 = p
    BY <1>1, <2>1
  <2>4. t[p - 1] = Stub
    BY <1>1, <2>1, <2>3
  <2>5. Distinct(t)
    <3> SUFFICES ASSUME NEW j \in 1..Len(t), NEW k \in 1..Len(t), t[j] = t[k]
                 PROVE  j = k
      BY DEF Distinct
    <3>1. /\ j \in 1..(Len(s) - 1) /\ k \in 1..(Len(s) - 1)
          /\ j + 1 \in 1..Len(s) /\ k + 1 \in 1..Len(s)
      BY <1>1
    <3>2. s[j + 1] = s[k + 1]
      BY <1>1, <3>1
    <3>3. j + 1 = k + 1
      BY <3>1, <3>2 DEF Distinct
    <3> QED
      BY <3>1, <3>3
  <2>6. /\ r = [k \in 1..(Len(t) - 1) |->
                  IF k < p - 1 THEN t[k] ELSE t[k + 1]]
        /\ r \in Seq(Items) /\ Len(r) = Len(t) - 1
    BY <1>1, <2>3, <2>4, <2>5, StubInside
  <2>7. Len(s) >= 2 /\ 1 \in 1..(Len(s) - 1) /\ q[1] = s[1]
    BY <1>1, <2>1, <2>2, <2>3
  <2> HIDE DEF q, r
  <2>8. q # <<>>
    BY <1>1, <2>2, <2>7, EmptySeq
  <2>9. /\ Tail(q) \in Seq(Items) /\ Len(Tail(q)) = Len(q) - 1
        /\ \A k \in 1..Len(Tail(q)) : Tail(q)[k] = q[k + 1]
        /\ Head(q) = q[1]
    BY <2>2, <2>8, HeadTailProperties
  <2>10. \A k \in 1..Len(r) : r[k] = Tail(q)[k]
    <3> SUFFICES ASSUME NEW k \in 1..Len(r) PROVE r[k] = Tail(q)[k]
      OBVIOUS
    <3>1. /\ k \in 1..(Len(t) - 1) /\ k \in 1..Len(Tail(q))
          /\ k + 1 \in 1..(Len(s) - 1) /\ k \in 1..(Len(s) - 1)
      BY <1>1, <2>2, <2>6, <2>9
    <3>2. r[k] = IF k < p - 1 THEN t[k] ELSE t[k + 1]
      BY <2>6, <3>1
    <3>3. q[k + 1] = IF k + 1 < p THEN s[k + 1] ELSE s[(k + 1) + 1]
      BY <2>2, <3>1
    <3>4. t[k] = s[k + 1] /\ t[k + 1] = s[(k + 1) + 1]
      BY <1>1, <3>1
    <3>5. k + 1 < p <=> k < p - 1
      BY <2>3, <3>1
    <3> QED
      BY <2>9, <3>1, <3>2, <3>3, <3>4, <3>5
  <2>11. Len(r) = Len(Tail(q))
    BY <1>1, <2>2, <2>6, <2>9
  <2>12. r = Tail(q)
    BY <2>6, <2>9, <2>10, <2>11, SeqEqual
  <2> QED
    BY <2>7, <2>8, <2>9, <2>12 DEF q, r, t
<1> QED
  BY <1>2, <1>3

LEMMA QueueInit == Init => IQ!Init
<1> SUFFICES ASSUME Init PROVE IQ!Init
  OBVIOUS
<1>1. chain \in Seq(Nodes) /\ Len(chain) = 1 /\ chain[1] = Stub
      /\ chain # <<>>
  BY NodeFacts DEF Init
<1>2. Distinct(chain) /\ Tail(chain) = <<>>
  BY <1>1 DEF Distinct, Init
<1>3. Queue = WithoutStub(<<>>)
  BY <1>1, <1>2, QueueStubSkipped DEF Queue
<1>4. WithoutStub(<<>>) = <<>>
  <2>1. <<>> \in Seq(Nodes) /\ \A k \in 1..Len(<<>>) : <<>>[k] # Stub
    BY EmptySeq
  <2> QED
    BY <2>1, StubOutside
<1>5. InHand = Items
  BY NodeFacts DEF Init, InHand
<1> QED
  BY <1>3, <1>4, <1>5 DEF IQ!Init

\* Every step is a push, a pop or none of the queue's business.
LEMMA QueueStep ==
    ListInv /\ ListInv' /\ [Next]_vars => [IQ!Next]_<<Queue, InHand>>
<1> SUFFICES ASSUME ListInv, ListInv', [Next]_vars
             PROVE  IQ!Next \/ UNCHANGED <<Queue, InHand>>
  OBVIOUS
<1> USE NodeFacts
<1>1. /\ chain \in Seq(Nodes) /\ chain # <<>> /\ Distinct(chain)
      /\ Distinct(chain')
  BY ChainDistinct DEF ListInv, TypeOK, ChainInOrder, Distinct
<1>2. \A k \in 1..Len(chain) : chain[k] = Stub => InChain(Stub)
  BY DEF InChain
<1>3. ASSUME NEW i \in Items, Start(i) \/ Link(i) PROVE UNCHANGED <<Queue, InHand>>
  <2>1. chain' = chain
    BY <1>3 DEF Start, Clear, Link, LinkPrev
  <2>2. \A j \in Items : pc'[j] \in {"busy", "exchange"}
                            <=> pc[j] \in {"busy", "exchange"}
    BY <1>3 DEF Start, Clear, Link, LinkPrev, ListInv, TypeOK
  <2> QED
    BY <2>1, <2>2 DEF Queue, InHand
<1>4. ASSUME NEW i \in Items, Exchange(i) PROVE IQ!Next
  <2>1. chain' = Append(chain, i)
    BY <1>4 DEF Exchange, ExchangeHead
  <2>2. Queue' = Append(Queue, i)
    BY <1>1, <2>1, QueueAppend DEF Queue
  <2>3. i \in InHand /\ InHand' = InHand \ {i}
    BY <1>4 DEF Exchange, ExchangeHead, InHand, ListInv, TypeOK
  <2> QED
    BY <2>2, <2>3 DEF IQ!Next, IQ!Push
<1>5. ASSUME SkipStub PROVE UNCHANGED <<Queue, InHand>>
  <2>1. chain[1] = Stub /\ chain' = Tail(chain)
    BY <1>5 DEF SkipStub, ListInv, ChainInOrder
  <2>2. Queue' = Queue
    BY <1>1, <2>1, QueueStubSkipped DEF Queue
  <2>3. \A j \in Items : pc'[j] = pc[j]
    BY <1>5 DEF SkipStub, ListInv, TypeOK
  <2> QED
    BY <2>2, <2>3 DEF InHand
<1>6. ASSUME TakeFirst \/ TakeLast PROVE IQ!Next
  <2>1. Return /\ tail # Stub
    BY <1>6 DEF TakeFirst, TakeLast, AtFirst, ListInv, StubInOrder
  <2>2. chain[1] = tail /\ chain' = Tail(chain)
    BY <2>1 DEF Return, ListInv, ChainInOrder
  <2>3. Queue # <<>> /\ Head(Queue) = tail /\ Queue' = Tail(Queue)
    BY <1>1, <2>1, <2>2, QueueTail DEF Queue
  <2>4. InHand' = InHand \union {tail}
    <3>1. tail \in Items
      BY <2>1 DEF ListInv, TypeOK
    <3>2. \A j \in Items : pc'[j] = IF j = tail THEN "busy" ELSE pc[j]
      BY <2>1 DEF Return, ListInv, TypeOK
    <3> QED
      BY <3>1, <3>2 DEF InHand
  <2> QED
    BY <2>3, <2>4 DEF IQ!Next, IQ!Pop
<1>7. ASSUME NoSuccessor \/ HeadMoved \/ StillNone \/ UNCHANGED vars
      PROVE  UNCHANGED <<Queue, InHand>>
  BY <1>7 DEF NoSuccessor, HeadMoved, StillNone, vars, Queue, InHand
<1>8. ASSUME StartStub \/ LinkStub PROVE UNCHANGED <<Queue, InHand>>
  <2>1. chain' = chain
    BY <1>8 DEF StartStub, Clear, LinkStub, LinkPrev
  <2>2. \A j \in Items : pc'[j] = pc[j]
    BY <1>8 DEF StartStub, Clear, LinkStub, LinkPrev, ListInv, TypeOK
  <2> QED
    BY <2>1, <2>2 DEF Queue, InHand
<1>9. ASSUME ExchangeStub PROVE UNCHANGED <<Queue, InHand>>
  <2>1. chain' = Append(chain, Stub)
    BY <1>9 DEF ExchangeStub, ExchangeHead
  <2>2. ~InChain(Stub)
    BY <1>9 DEF ExchangeStub, ExchangeHead, ListInv, Membership
  <2>3. Queue' = Queue
    BY <1>1, <1>2, <2>1, <2>2, QueueStubAppended DEF Queue
  <2>4. \A j \in Items : pc'[j] = pc[j]
    BY <1>9 DEF ExchangeStub, ExchangeHead, ListInv, TypeOK
  <2> QED
    BY <2>3, <2>4 DEF InHand
<1> QED
  BY <1>3, <1>4, <1>5, <1>6, <1>7, <1>8, <1>9
     DEF Next, Popping, PoppingStub, Pushing

\* The list is a queue of idle workers: it loses none and returns none twice.
THEOREM IsQueue == Spec => QueueSpec
<1> QED
  BY QueueInit, QueueStep, ListCorrect, PTL DEF Spec, QueueSpec, IQ!Spec, IQ!vars
===============================================================================
