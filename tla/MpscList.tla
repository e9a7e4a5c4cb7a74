------------------------------- MODULE MpscList -------------------------------
(***************************************************************************)
(* The list of idle workers, lib/conctrl/mpsc_list.hpp, one action per     *)
(* access to shared memory.                                                *)
(*                                                                         *)
(* Each worker pushes itself (worker_main_, concow.hpp:168), several at a  *)
(* time; one thread, EXIT, pops (concow.hpp:118), and calls pop again      *)
(* whenever it returns nullptr.  A worker that was popped gets a task and  *)
(* pushes itself once more when the task is done.                          *)
(*                                                                         *)
(* tail_ is the consumer's alone, so pop's locals tail and next need no    *)
(* variables: tail equals tail_ and next is the value just read.  A call   *)
(* that finds nothing behind the stub (line 28) changes no state and is    *)
(* no action.                                                              *)
(***************************************************************************)
EXTENDS Integers, Sequences

CONSTANTS
    Items,   \* the workers
    Stub,    \* stub_
    Null     \* nullptr

ASSUME NodesAssumption == Stub \notin Items /\ Null \notin Items \union {Stub}

Nodes == Items \union {Stub}

VARIABLES
    head,    \* head_
    tail,    \* tail_
    next,    \* the field next of each node
    pc,      \* where the push of each node is
    prev,    \* the local prev of each push
    cpc,     \* where the consumer is in pop
    chain    \* history: the nodes from tail_ on, by the order of exchanges

vars == <<head, tail, next, pc, prev, cpc, chain>>

-------------------------------------------------------------------------------
(* push(n): by a worker for itself, by pop for the stub. *)

\* item->next = nullptr
Clear(n) ==
    /\ next' = [next EXCEPT ![n] = Null]
    /\ pc' = [pc EXCEPT ![n] = "exchange"]
    /\ UNCHANGED <<head, tail, prev, chain>>

\* prev = head_.exchange(item)
ExchangeHead(n) ==
    /\ pc[n] = "exchange"
    /\ prev' = [prev EXCEPT ![n] = head]
    /\ head' = n
    /\ chain' = Append(chain, n)
    /\ pc' = [pc EXCEPT ![n] = "link"]
    /\ UNCHANGED <<tail, next>>

\* prev->next = item; prev is dead then.
LinkPrev(n) ==
    /\ pc[n] = "link"
    /\ next' = [next EXCEPT ![prev[n]] = n]
    /\ prev' = [prev EXCEPT ![n] = Null]
    /\ pc' = [pc EXCEPT ![n] = "listed"]
    /\ UNCHANGED <<head, tail, chain>>

\* A worker has finished its task.
Start(i) == pc[i] = "busy" /\ Clear(i) /\ UNCHANGED cpc

Exchange(i) == ExchangeHead(i) /\ UNCHANGED cpc

Link(i) == LinkPrev(i) /\ UNCHANGED cpc

-------------------------------------------------------------------------------
(* pop() *)

\* The stub is first and has a successor: tail_ moves past it.
SkipStub ==
    /\ cpc = "idle" /\ tail = Stub /\ next[Stub] # Null
    /\ tail' = next[Stub]
    /\ pc' = [pc EXCEPT ![Stub] = "busy"]
    /\ chain' = Tail(chain)
    /\ cpc' = "first"
    /\ UNCHANGED <<head, next, prev>>

\* tail_ = next; return tail: the worker is in the consumer's hand.
Return ==
    /\ next[tail] # Null
    /\ tail' = next[tail]
    /\ pc' = [pc EXCEPT ![tail] = "busy"]
    /\ chain' = Tail(chain)
    /\ cpc' = "idle"
    /\ UNCHANGED <<head, next, prev>>

\* The first node is a worker: at the first read of its next, or at the
\* last one after the stub was pushed.
AtFirst == cpc = "first" \/ (cpc = "idle" /\ tail # Stub)

TakeFirst == AtFirst /\ Return

NoSuccessor ==
    /\ AtFirst /\ next[tail] = Null
    /\ cpc' = "head"
    /\ UNCHANGED <<head, tail, next, pc, prev, chain>>

\* Somebody has exchanged head_ and not linked yet: return nullptr.
HeadMoved ==
    /\ cpc = "head" /\ head # tail
    /\ cpc' = "idle"
    /\ UNCHANGED <<head, tail, next, pc, prev, chain>>

\* Mutants: pop gives up at the only node; pop does not compare it with
\* head_ before it pushes the stub.
MutNoStub == cpc = "head" /\ head = tail /\ cpc' = "idle"
             /\ UNCHANGED <<head, tail, next, pc, prev, chain>>
MutStartStub == cpc = "head" /\ Clear(Stub) /\ cpc' = "stub"

\* The worker is the only node: the stub is pushed behind it.
StartStub == cpc = "head" /\ head = tail /\ Clear(Stub) /\ cpc' = "stub"

ExchangeStub == cpc = "stub" /\ ExchangeHead(Stub) /\ UNCHANGED cpc

LinkStub == cpc = "stub" /\ LinkPrev(Stub) /\ cpc' = "last"

\* Mutant: after the push of the stub next is taken to be the stub.
MutTakeLast ==
    /\ cpc = "last"
    /\ tail' = Stub
    /\ pc' = [pc EXCEPT ![tail] = "busy"]
    /\ chain' = Tail(chain)
    /\ cpc' = "idle"
    /\ UNCHANGED <<head, next, prev>>

TakeLast == cpc = "last" /\ Return

\* Another push came between tail and the stub and has not linked yet.
StillNone ==
    /\ cpc = "last" /\ next[tail] = Null
    /\ cpc' = "idle"
    /\ UNCHANGED <<head, tail, next, pc, prev, chain>>

-------------------------------------------------------------------------------
Init ==
    /\ head = Stub /\ tail = Stub
    /\ next = [n \in Nodes |-> Null]
    /\ pc = [n \in Nodes |-> IF n = Stub THEN "listed" ELSE "busy"]
    /\ prev = [n \in Nodes |-> Null]
    /\ cpc = "idle"
    /\ chain = <<Stub>>

Pushing(i) == Exchange(i) \/ Link(i)

PoppingStub == StartStub \/ ExchangeStub \/ LinkStub
Popping == SkipStub \/ TakeFirst \/ NoSuccessor \/ HeadMoved \/ PoppingStub
           \/ TakeLast \/ StillNone

Next == Popping \/ \E i \in Items : Start(i) \/ Pushing(i)

Spec == Init /\ [][Next]_vars

\* The consumer calls pop again and a push that has begun goes on; nothing
\* makes a worker finish its task.
FairSpec == Spec /\ WF_vars(Popping) /\ \A i \in Items : WF_vars(Pushing(i))
-------------------------------------------------------------------------------
(* Properties *)

TypeOK ==
    /\ head \in Nodes /\ tail \in Nodes
    /\ next \in [Nodes -> Nodes \union {Null}]
    /\ pc \in [Nodes -> {"busy", "exchange", "link", "listed"}]
    /\ prev \in [Nodes -> Nodes \union {Null}]
    /\ cpc \in {"idle", "first", "head", "stub", "last"}
    /\ chain \in Seq(Nodes)

\* The chain from tail_ to head_: each node is linked to the one exchanged
\* after it, or the push of that one is about to link it.
ChainInOrder ==
    /\ chain # <<>> /\ chain[1] = tail /\ chain[Len(chain)] = head
    /\ pc[tail] = "listed" /\ next[head] = Null
    /\ \A j, k \in 1..Len(chain) : chain[j] = chain[k] => j = k
    /\ \A k \in 1..(Len(chain) - 1) :
         \/ pc[chain[k + 1]] = "listed" /\ next[chain[k]] = chain[k + 1]
         \/ /\ pc[chain[k + 1]] = "link" /\ prev[chain[k + 1]] = chain[k]
            /\ next[chain[k]] = Null

\* A node is in the chain from its exchange until pop is past it.
InChain(n) == \E k \in 1..Len(chain) : chain[k] = n
Membership ==
    \A n \in Nodes : /\ InChain(n) <=> pc[n] \in {"link", "listed"}
                     /\ pc[n] = "exchange" => next[n] = Null

\* The stub is pushed by pop alone, when it is not in the list.
StubInOrder ==
    /\ cpc # "idle" => tail # Stub
    /\ cpc = "first" => pc[Stub] = "busy"
    /\ cpc = "last" => pc[Stub] = "listed"
    /\ IF cpc = "stub" THEN pc[Stub] \in {"exchange", "link"}
                       ELSE pc[Stub] \in {"busy", "listed"}

\* The inductive invariant: the list holds together whatever pushes and pops
\* are in progress.
ListInv == TypeOK /\ ChainInOrder /\ Membership /\ StubInOrder

\* The workers in the list, in the order of their exchanges: the chain
\* without the stub.
WithoutStub(s) ==
    LET at == {k \in 1..Len(s) : s[k] = Stub} IN
    IF at = {} THEN s
    ELSE LET p == CHOOSE k \in at : TRUE IN
         [k \in 1..(Len(s) - 1) |-> IF k < p THEN s[k] ELSE s[k + 1]]
Queue == WithoutStub(chain)
InHand == {i \in Items : pc[i] \in {"busy", "exchange"}}

\* The list is a queue that loses no worker and returns none twice, although
\* a push links after its exchange and pop moves the stub.
IQ == INSTANCE IdleQueue WITH
        Workers <- Items, queue <- Queue, inHand <- InHand
QueueSpec == IQ!Spec
QueueFair == IQ!FairSpec

\* pop returns a worker whose push has come to its end: EXIT may give it a
\* task, and its next field is not written again by a push behind it.
PopAfterPush ==
    [][\A i \in Items : (pc[i] # "busy" /\ pc'[i] = "busy") =>
          /\ pc[i] = "listed"
          /\ \A n \in Nodes : pc[n] = "link" => prev[n] # i]_vars
===============================================================================
