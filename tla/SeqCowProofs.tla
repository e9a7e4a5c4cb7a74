----------------------------- MODULE SeqCowProofs -----------------------------
(***************************************************************************)
(* Theorems about SeqCow for every number of clients and updates and every *)
(* size of the ring: by their ids, readers get prefixes of the updates,    *)
(* even though the ring may hold half-written contexts.                    *)
(***************************************************************************)
EXTENDS SeqCow, TLAPS

\* The slot of an id is a slot of the ring.
LEMMA SlotInRing ==
    ASSUME NEW t \in Nat
    PROVE  Slot(t) \in Slots
BY RingAssumption DEF Slot, Slots

LEMMA InitInv == Init => SeqInv
<1> SUFFICES ASSUME Init PROVE SeqInv
  OBVIOUS
<1>1. 0 \in 0..MaxUpdates /\ Slot(0) \in Slots
  BY BoundAssumption, SlotInRing
<1>2. TypeOK
  BY <1>1 DEF Init, TypeOK
<1>3. CountersInOrder
  BY DEF Init, CountersInOrder
<1>4. ctxRoot[Slot(0)] = {} /\ Ids({}) = {}
  BY <1>1 DEF Init, Ids
<1>5. RootsInOrder
  BY <1>4 DEF Init, RootsInOrder
<1> QED
  BY <1>2, <1>3, <1>5 DEF SeqInv

-------------------------------------------------------------------------------
(* Steps *)

LEMMA ClientInv ==
    ASSUME SeqInv, NEW c \in Clients, Claim(c) \/ Submitting(c)
    PROVE  SeqInv'
<1> USE DEF ctxs, client, worker
<1>1. TypeOK /\ CountersInOrder /\ RootsInOrder /\ MaxUpdates \in Nat
  BY BoundAssumption DEF SeqInv
<1>2. Slot(ctid[c]) \in Slots
  BY <1>1, SlotInRing DEF TypeOK
<1>3. TypeOK'
  <2>1. CASE Claim(c)
    BY <1>1, <2>1 DEF Claim, TypeOK
  <2>2. CASE StoreKey(c)
    BY <1>1, <1>2, <2>2 DEF StoreKey, TypeOK
  <2>3. CASE StoreVal(c)
    BY <1>1, <1>2, <2>3 DEF StoreVal, TypeOK
  <2> QED
    BY <2>1, <2>2, <2>3 DEF Submitting
<1>4. /\ UNCHANGED <<nCommitted, root, ctxRoot, worker>>
      /\ nSubmitted' = nSubmitted \/ nSubmitted' = nSubmitted + 1
  BY DEF Claim, Submitting, StoreKey, StoreVal
<1>5. CountersInOrder'
  BY <1>1, <1>4 DEF CountersInOrder, TypeOK
<1>6. RootsInOrder'
  BY <1>1, <1>4 DEF RootsInOrder, Ids
<1> QED
  BY <1>3, <1>5, <1>6 DEF SeqInv

\* The steps of the worker that run no task.
LEMMA BetweenInv ==
    ASSUME SeqInv, Load \/ Leave \/ NothingDone
    PROVE  SeqInv'
<1> USE DEF ctxs, client, worker
<1>1. TypeOK /\ CountersInOrder /\ RootsInOrder
  BY DEF SeqInv
<1>2. TypeOK'
  BY <1>1 DEF Load, Leave, NothingDone, TypeOK
<1>3. CountersInOrder'
  BY <1>1 DEF Load, Leave, NothingDone, TypeOK, CountersInOrder
<1>4. RootsInOrder'
  <2>1. /\ UNCHANGED <<nCommitted, root, ctxRoot, wNext>>
        /\ wpc \notin {"exec", "root"} /\ wpc' \notin {"exec", "root"}
    BY DEF Load, Leave, NothingDone
  <2> QED
    BY <1>1, <2>1 DEF RootsInOrder, Ids
<1> QED
  BY <1>2, <1>3, <1>4 DEF SeqInv

LEMMA DescendInv ==
    ASSUME SeqInv, Descend
    PROVE  SeqInv'
<1> USE DEF ctxs, client, worker
<1>1. /\ TypeOK /\ CountersInOrder /\ RootsInOrder /\ MaxUpdates \in Nat
      /\ wNext \in Nat /\ wSub \in 0..MaxUpdates /\ nCommitted \in Nat
      /\ wpc = "next" /\ wNext < wSub /\ wNext' = wNext + 1 /\ wpc' = "exec"
      /\ UNCHANGED <<nCommitted, nSubmitted, wSub, root, ctxRoot>>
  BY BoundAssumption DEF SeqInv, TypeOK, Descend, MoreTasks
<1>2. TypeOK'
  <2>1. wNext' \in 0..MaxUpdates /\ Slot(wNext + 1) \in Slots
    BY <1>1, SlotInRing
  <2> QED
    BY <1>1, <2>1 DEF Descend, TypeOK
<1>3. CountersInOrder'
  BY <1>1 DEF CountersInOrder
<1>4. RootsInOrder'
  <2>1. (wNext + 1) - 1 = wNext
    BY <1>1
  <2> QED
    BY <1>1, <2>1 DEF RootsInOrder, Ids
<1> QED
  BY <1>2, <1>3, <1>4 DEF SeqInv

LEMMA InsertInv ==
    ASSUME SeqInv, Insert
    PROVE  SeqInv'
<1> USE DEF ctxs, client, worker
<1> DEFINE s == Slot(wNext)
           r == ctxRoot[Slot(wNext - 1)]
           e == [id |-> wNext, path |-> path, key |-> key[s], val |-> val[s]]
<1>1. /\ TypeOK /\ CountersInOrder /\ RootsInOrder /\ MaxUpdates \in Nat
      /\ wNext \in 0..MaxUpdates /\ nCommitted \in Nat /\ wpc = "exec"
      /\ wNext > nCommitted /\ wpc' = "next"
      /\ UNCHANGED <<nCommitted, nSubmitted, wSub, wNext, root>>
  BY BoundAssumption DEF SeqInv, TypeOK, CountersInOrder, Insert
<1>2. s \in Slots /\ Slot(wNext - 1) \in Slots /\ wNext \in 1..MaxUpdates
  BY <1>1, SlotInRing
<1>3. ctxRoot' = [ctxRoot EXCEPT ![s] = r \union {e}]
  BY DEF Insert
<1>4. r \subseteq Updates /\ e \in Updates
  BY <1>1, <1>2 DEF TypeOK, Updates
<1>5. Ids(r) = 1..(wNext - 1) /\ e.id = wNext
  BY <1>1 DEF RootsInOrder
<1>6. ctxRoot'[s] = r \union {e}
  BY <1>1, <1>2, <1>3 DEF TypeOK
<1>7. TypeOK'
  <2>1. ctxRoot' \in [Slots -> SUBSET Updates]
    <3>1. r \union {e} \in SUBSET Updates
      BY <1>4
    <3> HIDE DEF r, e, s
    <3> QED
      BY <1>1, <1>3, <3>1 DEF TypeOK
  <2>2. path' \in 0..MaxUpdates
    BY BoundAssumption DEF Insert
  <2> QED
    BY <1>1, <2>1, <2>2 DEF Insert, TypeOK
<1>8. CountersInOrder'
  BY <1>1 DEF CountersInOrder
<1>9. RootsInOrder'
  <2> HIDE DEF r, e
  <2>1. Ids(r \union {e}) = Ids(r) \union {e.id}
    BY DEF Ids
  <2>2. Ids(r \union {e}) = 1..wNext
    <3>1. 1..(wNext - 1) \union {wNext} = 1..wNext
      BY <1>2
    <3> QED
      BY <1>5, <2>1, <3>1
  <2> QED
    BY <1>1, <1>6, <2>2 DEF RootsInOrder, Ids
<1> QED
  BY <1>7, <1>8, <1>9 DEF SeqInv

LEMMA StoreInv ==
    ASSUME SeqInv, StoreRoot \/ StoreCommitted
    PROVE  SeqInv'
<1> USE DEF ctxs, client, worker
<1>1. /\ TypeOK /\ CountersInOrder /\ RootsInOrder
      /\ wNext \in 0..MaxUpdates /\ Slot(wNext) \in Slots
  BY SlotInRing, BoundAssumption DEF SeqInv, TypeOK
<1>2. TypeOK'
  BY <1>1 DEF StoreRoot, StoreCommitted, TypeOK
<1>3. CountersInOrder'
  BY <1>1 DEF StoreRoot, StoreCommitted, TypeOK, CountersInOrder
<1>4. RootsInOrder'
  <2>1. CASE StoreRoot
    BY <1>1, <2>1 DEF StoreRoot, RootsInOrder, Ids
  <2>2. CASE StoreCommitted
    BY <1>1, <2>2 DEF StoreCommitted, RootsInOrder, Ids
  <2> QED
    BY <2>1, <2>2
<1> QED
  BY <1>2, <1>3, <1>4 DEF SeqInv

LEMMA StepInv == SeqInv /\ [Next]_vars => SeqInv'
<1> SUFFICES ASSUME SeqInv, [Next]_vars PROVE SeqInv'
  OBVIOUS
<1>1. ASSUME Stop \/ UNCHANGED vars PROVE SeqInv'
  BY <1>1
  DEF Stop, vars, ctxs, client, worker, SeqInv, TypeOK, CountersInOrder,
      RootsInOrder, Ids
<1> QED
  BY <1>1, ClientInv, BetweenInv, DescendInv, InsertInv, StoreInv
  DEF Next, Worker

\* The worker stays between the ids committed and submitted, and every root
\* it goes on from or publishes holds the ids up to its own and no other.
THEOREM Invariance == Spec => []SeqInv
<1>1. Init => SeqInv
  BY InitInv
<1>2. SeqInv /\ [Next]_vars => SeqInv'
  BY StepInv
<1> QED
  BY <1>1, <1>2, PTL DEF Spec

\* Every variable keeps its type: no id passes the number of updates.
THEOREM TypeCorrect == Spec => []TypeOK
<1>1. SeqInv => TypeOK
  BY DEF SeqInv
<1> QED
  BY <1>1, Invariance, PTL

-------------------------------------------------------------------------------
(* Refinement *)

\* No id is reserved here.
LEMMA AllUpdates ==
    ASSUME NEW n \in 0..MaxUpdates
    PROVE  OC!UpdatesUpTo(n) = 1..n
<1>1. \A t \in 1..n : t % (MaxUpdates + 1) = t
  BY BoundAssumption
<1> QED
  BY <1>1 DEF OC!UpdatesUpTo

LEMMA PromiseInit == Init => OC!Init
BY DEF Init, OC!Init

LEMMA PromiseStep == SeqInv /\ SeqInv' /\ [Next]_vars => [OC!Next]_(OC!vars)
<1> SUFFICES ASSUME SeqInv, SeqInv', [Next]_vars PROVE [OC!Next]_(OC!vars)
  OBVIOUS
<1> USE DEF ctxs, client, worker
<1>1. /\ nCommitted \in 0..MaxUpdates /\ wNext \in 0..MaxUpdates
      /\ nSubmitted \in 0..MaxUpdates /\ wNext <= nSubmitted
  BY DEF SeqInv, TypeOK, CountersInOrder
<1>2. OC!UpdatesUpTo(wNext) = 1..wNext
  BY <1>1, AllUpdates
<1>3. ASSUME UNCHANGED <<nSubmitted, nCommitted, root>>
      PROVE  [OC!Next]_(OC!vars)
  BY <1>3 DEF OC!vars
<1>4. ASSUME NEW c \in Clients, Claim(c) PROVE OC!Next
  BY <1>4 DEF Claim, OC!Next, OC!Submit
<1>5. ASSUME StoreRoot PROVE OC!Next
  <2>1. /\ wNext > nCommitted /\ wNext \in 1..nSubmitted
    BY <1>1, <1>5 DEF StoreRoot
  <2>2. {u.id : u \in root} = 1..nCommitted
    BY <1>5 DEF StoreRoot, SeqInv, RootsInOrder, Ids
  <2>3. {u.id : u \in root'} = 1..wNext
    BY <1>5 DEF StoreRoot, SeqInv, RootsInOrder, Ids
  <2>4. 1..nCommitted # 1..wNext /\ 1..nCommitted \subseteq 1..wNext
    <3>1. wNext \in 1..wNext /\ wNext \notin 1..nCommitted
      BY <1>1, <2>1
    <3> QED
      BY <1>1, <2>1, <3>1
  <2>5. PICK k : k = wNext
    OBVIOUS
  <2>6. OC!Expose(k)
    BY <1>2, <1>5, <2>2, <2>3, <2>4, <2>5 DEF StoreRoot, OC!Expose
  <2>7. k \in 1..nSubmitted
    BY <2>1, <2>5
  <2> QED
    BY <2>6, <2>7 DEF OC!Next
<1>6. ASSUME StoreCommitted PROVE OC!Next
  <2>1. wNext > nCommitted /\ wNext \in 1..nSubmitted
    BY <1>1, <1>6 DEF StoreCommitted, SeqInv, CountersInOrder
  <2>2. {u.id : u \in root} = 1..wNext /\ root' = root
    BY <1>6 DEF StoreCommitted, SeqInv, RootsInOrder, Ids
  <2>3. OC!Commit(wNext)
    BY <1>2, <1>6, <2>1, <2>2 DEF StoreCommitted, OC!Commit
  <2> QED
    BY <2>1, <2>3 DEF OC!Next
<1>7. ASSUME Load \/ Leave \/ Descend \/ Insert \/ NothingDone \/ Stop
             \/ UNCHANGED vars
      PROVE  UNCHANGED <<nSubmitted, nCommitted, root>>
  BY <1>7 DEF Load, Leave, Descend, Insert, NothingDone, Stop, vars
<1>8. ASSUME NEW c \in Clients, Submitting(c)
      PROVE  UNCHANGED <<nSubmitted, nCommitted, root>>
  BY <1>8 DEF Submitting, StoreKey, StoreVal
<1> QED
  BY <1>3, <1>4, <1>5, <1>6, <1>7, <1>8 DEF Next, Worker

\* By the ids of the updates, the single-worker scheduler keeps the promise
\* of its interface.
THEOREM KeepsPromise == Spec => OrderedCommitSpec
<1>1. Init => OC!Init
  BY PromiseInit
<1>2. SeqInv /\ SeqInv' /\ [Next]_vars => [OC!Next]_(OC!vars)
  BY PromiseStep
<1> QED
  BY <1>1, <1>2, Invariance, PTL DEF Spec, OrderedCommitSpec, OC!Spec
===============================================================================
