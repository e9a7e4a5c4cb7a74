-------------------------- MODULE ConcowCyclicProofs --------------------------
(* Theorems about ConcowCyclic for every number of clients, workers and     *)
(* pipes and every size of the ring.                                        *)
EXTENDS ConcowCyclicInductive, TLAPS

\* The constants' types and order, in one fact.
LEMMA Constants ==
    /\ NPipes \in Nat /\ NPipes >= 2
    /\ BatchSize \in Nat /\ BatchSize >= 1
    /\ BufferSize \in Nat /\ BufferSize >= 1
    /\ MaxOps \in Nat /\ MaxOps > NPipes /\ MaxOps < DONE
    /\ DONE = 15 /\ AllOnes = 16 /\ NoTask = -1
<1>1. BatchSize \in Nat /\ BatchSize >= 1
  BY PipesAssumption, RingAssumption DEF BatchSize
<1>2. DONE = 15 /\ AllOnes = 16 /\ NoTask = -1
  BY SMT DEF DONE, AllOnes, NoTask
<1>3. BufferSize \in Nat /\ BufferSize >= 1
  BY <1>1, RingAssumption
<1> QED
  BY <1>1, <1>2, <1>3, PipesAssumption, BoundsAssumption

-------------------------------------------------------------------------------
(* The ring *)

\* The slot of an id is a slot of the ring.
LEMMA SlotInRing ==
    ASSUME NEW t \in Nat
    PROVE  Slot(t) \in Slots
BY Constants DEF Slot, Slots

\* A remainder is what is left of a number: the only one below the divisor.
LEMMA RemainderIs ==
    ASSUME NEW n \in Nat, n >= 1, NEW k \in Int, NEW r \in 0..(n - 1),
           NEW a \in Int, a = n * k + r
    PROVE  a % n = r
<1> DEFINE u == a \div n
           v == a % n
<1>1. u \in Int /\ v \in 0..(n - 1) /\ a = n * u + v
  OBVIOUS
<1> HIDE DEF u, v
<1>2. n * (u - k) = r - v
  BY <1>1
<1>3. u - k >= 1 => n * (u - k) >= n
  BY <1>1
<1>4. u - k <= -1 => n * (u - k) <= -n
  BY <1>1
<1>5. r - v < n /\ r - v > -n
  BY <1>1
<1>6. u - k = 0
  BY <1>1, <1>2, <1>3, <1>4, <1>5
<1>7. r = v
  BY <1>1, <1>2, <1>6
<1> QED
  BY <1>7 DEF v

\* Two ids less than a ring apart have different slots.
LEMMA SlotInjective ==
    ASSUME NEW a \in Nat, NEW b \in Nat, a < b, b < a + BufferSize
    PROVE  Slot(a) # Slot(b)
<1>1. BufferSize \in Nat /\ BufferSize >= 1
  BY Constants
<1> DEFINE q == a \div BufferSize
           r == a % BufferSize
           d == b - a
<1>2. q \in Int /\ r \in 0..(BufferSize - 1) /\ a = BufferSize * q + r
  BY <1>1
<1>3. d \in 1..(BufferSize - 1) /\ b = a + d
  BY <1>1
<1> HIDE DEF q, r, d
<1>4. CASE r + d < BufferSize
  <2>1. b = BufferSize * q + (r + d) /\ r + d \in 0..(BufferSize - 1)
    BY <1>1, <1>2, <1>3, <1>4
  <2>2. b % BufferSize = r + d
    <3> DEFINE v == r + d
    <3>1. v \in 0..(BufferSize - 1) /\ b = BufferSize * q + v
      BY <2>1
    <3> HIDE DEF v
    <3>2. b % BufferSize = v
      BY <3>1, <1>1, <1>2, RemainderIs
    <3> QED
      BY <3>2 DEF v
  <2> QED
    BY <2>2, <1>2, <1>3 DEF Slot, r
<1>5. CASE r + d >= BufferSize
  <2>1. /\ b = BufferSize * (q + 1) + (r + d - BufferSize)
        /\ r + d - BufferSize \in 0..(BufferSize - 1) /\ q + 1 \in Int
    BY <1>1, <1>2, <1>3, <1>5
  <2>2. b % BufferSize = r + d - BufferSize
    <3> DEFINE v == r + d - BufferSize
               k == q + 1
    <3>1. /\ v \in 0..(BufferSize - 1) /\ k \in Int
          /\ b = BufferSize * k + v
      BY <2>1
    <3> HIDE DEF v, k
    <3>2. b % BufferSize = v
      BY <3>1, <1>1, RemainderIs
    <3> QED
      BY <3>2 DEF v
  <2>3. r + d - BufferSize # r
    BY <1>1, <1>2, <1>3
  <2> QED
    BY <2>2, <2>3 DEF Slot, r
<1> QED
  BY <1>1, <1>2, <1>3, <1>4, <1>5

LEMMA SlotsDiffer ==
    \A a, b \in Nat : a < b /\ b < a + BufferSize => Slot(a) # Slot(b)
BY SlotInjective

\* The slot comes round.
LEMMA SlotWraps ==
    ASSUME NEW t \in Nat
    PROVE  Slot(t + BufferSize) = Slot(t)
<1>1. BufferSize \in Nat /\ BufferSize >= 1
  BY Constants
<1> DEFINE q == t \div BufferSize
           r == t % BufferSize
<1>2. q \in Int /\ r \in 0..(BufferSize - 1) /\ t = BufferSize * q + r
  BY <1>1
<1> HIDE DEF q, r
<1>3. t + BufferSize = BufferSize * (q + 1) + r /\ q + 1 \in Int
  BY <1>1, <1>2
<1>4. (t + BufferSize) % BufferSize = r
  BY <1>1, <1>2, <1>3, RemainderIs
<1> QED
  BY <1>4 DEF Slot, r

\* Every slot is the slot of one of BufferSize ids in a row.
LEMMA SlotCovered ==
    ASSUME NEW n \in Nat, NEW s \in Slots
    PROVE  \E t \in n..(n + BufferSize - 1) : Slot(t) = s
<1>1. BufferSize \in Nat /\ BufferSize >= 1 /\ s \in 0..(BufferSize - 1)
  BY Constants DEF Slots
<1> DEFINE q == n \div BufferSize
           r == n % BufferSize
<1>2. q \in Int /\ r \in 0..(BufferSize - 1) /\ n = BufferSize * q + r
  BY <1>1
<1> HIDE DEF q, r
<1>3. CASE r <= s
  <2> DEFINE t == n + (s - r)
  <2>1. t \in n..(n + BufferSize - 1) /\ t = BufferSize * q + s
    BY <1>1, <1>2, <1>3
  <2>2. t % BufferSize = s
    BY <2>1, <1>1, <1>2, RemainderIs
  <2> QED
    BY <2>1, <2>2 DEF Slot
<1>4. CASE s < r
  <2> DEFINE t == n + (BufferSize - (r - s))
  <2>1. /\ t \in n..(n + BufferSize - 1) /\ t = BufferSize * (q + 1) + s
        /\ q + 1 \in Int
    BY <1>1, <1>2, <1>4
  <2>2. t % BufferSize = s
    BY <2>1, <1>1, <1>2, RemainderIs
  <2> QED
    BY <2>1, <2>2 DEF Slot
<1> QED
  BY <1>1, <1>2, <1>3, <1>4

-------------------------------------------------------------------------------
(* The order of the pipes *)

LEMMA SeatInPipes ==
    ASSUME NEW t \in Nat
    PROVE  Seat(t) \in Pipes
BY Constants DEF Seat, Pipes

LEMMA NextPipeIs ==
    ASSUME NEW p \in Pipes
    PROVE  /\ NextPipe(p) = IF p = NPipes - 1 THEN 0 ELSE p + 1
           /\ NextPipe(p) \in Pipes
<1>1. NPipes \in Nat /\ NPipes >= 2 /\ p \in 0..(NPipes - 1)
  BY Constants DEF Pipes
<1>2. CASE p = NPipes - 1
  <2>1. p + 1 = NPipes * 1 + 0
    BY <1>1, <1>2
  <2>2. (p + 1) % NPipes = 0
    BY <1>1, <2>1, RemainderIs
  <2> QED
    BY <1>1, <1>2, <2>2 DEF NextPipe, Pipes
<1>3. CASE p # NPipes - 1
  <2>1. p + 1 = NPipes * 0 + (p + 1) /\ p + 1 \in 0..(NPipes - 1)
    BY <1>1, <1>3
  <2>2. (p + 1) % NPipes = p + 1
    BY <1>1, <2>1, RemainderIs
  <2> QED
    BY <1>1, <1>3, <2>1, <2>2 DEF NextPipe, Pipes
<1> QED
  BY <1>2, <1>3

\* Every pipe is the next of one, and of one only.
LEMMA PrevPipe ==
    ASSUME NEW p \in Pipes
    PROVE  \E q \in Pipes : NextPipe(q) = p
<1>1. NPipes \in Nat /\ NPipes >= 2 /\ p \in 0..(NPipes - 1)
  BY Constants DEF Pipes
<1>2. CASE p = 0
  <2>1. NPipes - 1 \in Pipes
    BY <1>1 DEF Pipes
  <2> QED
    BY <1>2, <2>1, NextPipeIs
<1>3. CASE p # 0
  <2>1. p - 1 \in Pipes /\ p - 1 # NPipes - 1
    BY <1>1, <1>3 DEF Pipes
  <2>2. NextPipe(p - 1) = p
    BY <1>1, <2>1, NextPipeIs
  <2> QED
    BY <2>1, <2>2
<1> QED
  BY <1>2, <1>3

LEMMA NextInjective ==
    ASSUME NEW p \in Pipes, NEW q \in Pipes, NextPipe(p) = NextPipe(q)
    PROVE  p = q
BY NextPipeIs, Constants DEF Pipes

LEMMA PosIs ==
    ASSUME NEW t \in Nat, NEW p \in Pipes
    PROVE  /\ Pos(t, p) \in 0..(NPipes - 1)
           /\ Pos(t, p) = 0 <=> Seat(t) = p
           /\ Pos(t, p) = NPipes - 1 <=> Seat(t) = NextPipe(p)
           /\ Seat(t) # NextPipe(p) => Pos(t, NextPipe(p)) = Pos(t, p) + 1
<1>1. /\ NPipes \in Nat /\ NPipes >= 2 /\ p \in 0..(NPipes - 1)
      /\ Seat(t) \in 0..(NPipes - 1)
  BY Constants, SeatInPipes DEF Pipes
<1>2. NextPipe(p) = IF p = NPipes - 1 THEN 0 ELSE p + 1
  BY NextPipeIs
<1> DEFINE s == Seat(t)
           n == NextPipe(p)
<1>3. /\ Pos(t, p) = IF s <= p THEN p - s ELSE p + NPipes - s
      /\ Pos(t, n) = IF s <= n THEN n - s ELSE n + NPipes - s
  BY DEF Pos
<1> HIDE DEF s, n
<1>4. s \in 0..(NPipes - 1) /\ n = IF p = NPipes - 1 THEN 0 ELSE p + 1
  BY <1>1, <1>2 DEF s, n
<1>5. /\ Pos(t, p) \in 0..(NPipes - 1)
      /\ Pos(t, p) = 0 <=> s = p
      /\ Pos(t, p) = NPipes - 1 <=> s = n
      /\ s # n => Pos(t, n) = Pos(t, p) + 1
  BY <1>1, <1>3, <1>4
<1> QED
  BY <1>5 DEF s, n

\* The roles of a pipe are the ends of the order of its next id.
LEMMA RolesAre ==
    ASSUME NEW p \in Pipes, Tid(p) \in Nat
    PROVE  /\ AtEntry(p) <=> Seat(Tid(p)) = p
           /\ AtEntry(p) <=> Pos(Tid(p), p) = 0
           /\ AtExit(p) <=> Pos(Tid(p), p) = NPipes - 1
           /\ AtExit(p) => Seat(Tid(p)) = NextPipe(p)
           /\ ~AtExit(p) => Seat(Tid(p)) # NextPipe(p)
<1>1. AtEntry(p) <=> Seat(Tid(p)) = p
  BY DEF AtEntry, Seat
<1>2. AtExit(p) <=> Seat(Tid(p)) # p /\ Seat(Tid(p)) = NextPipe(p)
  BY <1>1 DEF AtExit, Seat, NextPipe
<1>3. /\ NPipes \in Nat /\ NPipes >= 2 /\ p \in 0..(NPipes - 1)
      /\ NextPipe(p) = IF p = NPipes - 1 THEN 0 ELSE p + 1
  BY Constants, NextPipeIs DEF Pipes
<1>4. NextPipe(p) # p
  BY <1>3
<1>5. /\ Pos(Tid(p), p) = 0 <=> Seat(Tid(p)) = p
      /\ Pos(Tid(p), p) = NPipes - 1 <=> Seat(Tid(p)) = NextPipe(p)
  BY PosIs
<1> QED
  BY <1>1, <1>2, <1>3, <1>4, <1>5, SeatInPipes DEF Pipes

-------------------------------------------------------------------------------
(* Type correctness *)

LEMMA InitType == Init => TypeOK
<1> SUFFICES ASSUME Init PROVE TypeOK
  OBVIOUS
<1>1. DONE \in 0..DONE /\ AllOnes \in Nat
  BY Constants
<1>2. /\ stages \in [Slots -> Nat] /\ op \in [Slots -> 0..DONE]
      /\ sno \in [Slots -> Nat] /\ pastVer \in [Slots -> Nat]
      /\ ctxRoot \in [Slots -> SUBSET Nat] /\ ctxRootVer \in [Slots -> Nat]
  BY <1>1 DEF Init
<1>3. /\ pace \in [Pipes -> Nat] /\ pdone \in [Pipes -> Nat]
      /\ plast \in [Pipes -> Nat] /\ giving \in [Pipes -> BOOLEAN]
      /\ phase \in [Pipes -> {"run", "drain", "exited"}]
  BY DEF Init
<1>4. /\ wtid \in [Workers -> Nat] /\ wlast \in [Workers -> Nat]
      /\ wjob \in [Workers -> Nat] /\ wstage \in [Workers -> Nat]
      /\ wpc \in [Workers -> {"spin", "exec", "store", "push", "exited"}]
  BY DEF Init
<1>5. /\ cpc \in [Clients -> {"idle", "full", "publish"}]
      /\ ctid \in [Clients -> Nat]
  BY DEF Init
<1> QED
  BY <1>2, <1>3, <1>4, <1>5 DEF Init, TypeOK

LEMMA PipeTypes ==
    ASSUME TypeOK, NEW p \in Pipes
    PROVE  /\ pdone[p] \in Nat /\ Tid(p) \in Nat /\ Tid(p) - 1 \in Nat
           /\ Tid(p) = pdone[p] + 1
           /\ Slot(Tid(p)) \in Slots /\ Slot(Tid(p) - 1) \in Slots
<1>1. pdone[p] \in Nat /\ Tid(p) \in Nat /\ Tid(p) - 1 \in Nat
  BY DEF TypeOK, Tid
<1> QED
  BY <1>1, SlotInRing DEF Tid

LEMMA AdvanceType ==
    ASSUME TypeOK, NEW p \in Pipes, Advance(p)
    PROVE  /\ pdone' \in [Pipes -> Nat] /\ pace' \in [Pipes -> Nat]
           /\ plast' = plast /\ phase' = phase
<1>1. Tid(p) \in Nat
  BY PipeTypes
<1> QED
  BY <1>1 DEF Advance, TypeOK

\* A handler keeps the types of the fields it writes.
LEMMA HandleType ==
    ASSUME TypeOK, NEW s \in Slots, Handle(s)
    PROVE  op' \in [Slots -> 0..DONE] /\ pastVer' \in [Slots -> Nat]
<1>1. op' \in [Slots -> 0..DONE]
  <2>0. op \in [Slots -> 0..DONE] /\ DONE \in Nat
    BY Constants DEF TypeOK
  <2>1. op[s] \in Nat /\ DONE \in 0..DONE
    BY <2>0
  <2>2. op[s] + 1 < MaxOps => op[s] + 1 \in 0..DONE
    BY <2>1, Constants
  <2> QED
    BY <2>1, <2>2 DEF Handle, TypeOK
<1>2. pastVer' \in [Slots -> Nat]
  <2>1. \A v \in 0..pastVer[s] : v \in Nat
    BY DEF TypeOK
  <2> QED
    BY <2>1 DEF Handle, TypeOK
<1> QED
  BY <1>1, <1>2

\* RoundUp and Margin are numbers, whatever they are used for.
LEMMA RoundUpType ==
    ASSUME NEW n \in Nat
    PROVE  RoundUp(n) \in Nat /\ Margin(n) \in Nat
<1>1. n % NPipes \in 0..(NPipes - 1) /\ n % BatchSize \in 0..(BatchSize - 1)
  BY Constants
<1>2. (NPipes - (n % NPipes)) % NPipes \in Nat
  BY <1>1, Constants
<1>3. (BatchSize - (n % BatchSize)) % BatchSize \in Nat
  BY <1>1, Constants
<1> QED
  BY <1>2, <1>3, Constants DEF RoundUp, Margin

LEMMA StepType == TypeOK /\ [Next]_vars => TypeOK'
<1> SUFFICES ASSUME TypeOK, [Next]_vars PROVE TypeOK'
  OBVIOUS
<1> USE DEF counters, ctxs, pipes, workers, clients, monitor
<1>1. ASSUME NEW c \in Clients, Claim(c) PROVE TypeOK'
  BY <1>1 DEF Claim, TypeOK
<1>2. ASSUME NEW c \in Clients, Write(c) PROVE TypeOK'
  <2>1. Slot(ctid[c]) \in Slots
    BY SlotInRing DEF TypeOK
  <2> QED
    BY <1>2, <2>1, Constants DEF Write, TypeOK
<1>3. ASSUME NEW c \in Clients, Publish(c) PROVE TypeOK'
  BY <1>3 DEF Publish, TypeOK
<1>4. ASSUME NEW p \in Pipes, EntryTask(p) PROVE TypeOK'
  <2>1. Slot(Tid(p)) \in Slots /\ Slot(Tid(p) - 1) \in Slots
    BY PipeTypes
  <2>2. /\ pdone' \in [Pipes -> Nat] /\ pace' \in [Pipes -> Nat]
        /\ plast' = plast /\ phase' = phase
    BY <1>4, AdvanceType DEF EntryTask
  <2> DEFINE s == Slot(Tid(p))
             before == Slot(Tid(p) - 1)
  <2>3. s \in Slots /\ before \in Slots
    BY <2>1
  <2>4. /\ ctxRoot \in [Slots -> SUBSET Nat] /\ ctxRootVer \in [Slots -> Nat]
        /\ pastVer \in [Slots -> Nat] /\ sno \in [Slots -> Nat]
    BY DEF TypeOK
  <2>5. /\ ctxRoot' = [ctxRoot EXCEPT ![s] = ctxRoot[before] \union {sno[s]}]
        /\ ctxRootVer' = [ctxRootVer EXCEPT ![s] = sno[s]]
        /\ \/ pastVer' = [pastVer EXCEPT ![s] = 0]
           \/ pastVer' = [pastVer EXCEPT ![s] = ctxRootVer[before]]
    BY <1>4 DEF EntryTask
  <2>6. op' \in [Slots -> 0..DONE]
    BY <1>4, <2>1, Constants DEF EntryTask, TypeOK
  <2> HIDE DEF s, before
  <2>7. ctxRoot' \in [Slots -> SUBSET Nat]
    <3>1. ctxRoot[before] \union {sno[s]} \in SUBSET Nat
      BY <2>3, <2>4
    <3> QED
      BY <2>4, <2>5, <3>1
  <2>8. ctxRootVer' \in [Slots -> Nat] /\ pastVer' \in [Slots -> Nat]
    BY <2>3, <2>4, <2>5
  <2> QED
    BY <1>4, <2>2, <2>6, <2>7, <2>8 DEF EntryTask, TypeOK
<1>5. ASSUME NEW p \in Pipes, InnerTask(p) PROVE TypeOK'
  <2>1. Slot(Tid(p)) \in Slots
    BY PipeTypes
  <2>2. /\ pdone' \in [Pipes -> Nat] /\ pace' \in [Pipes -> Nat]
        /\ plast' = plast /\ phase' = phase
    BY <1>5, AdvanceType DEF InnerTask
  <2>3. op' \in [Slots -> 0..DONE] /\ pastVer' \in [Slots -> Nat]
    BY <1>5, <2>1, HandleType DEF InnerTask
  <2> QED
    BY <1>5, <2>2, <2>3 DEF InnerTask, TypeOK
<1>6. ASSUME NEW p \in Pipes, Pass(p) PROVE TypeOK'
  <2>1. /\ pdone' \in [Pipes -> Nat] /\ pace' \in [Pipes -> Nat]
        /\ plast' = plast /\ phase' = phase
    BY <1>6, AdvanceType DEF Pass
  <2> QED
    BY <1>6, <2>1 DEF Pass, TypeOK
<1>7. ASSUME NEW p \in Pipes, ExitRun(p) PROVE TypeOK'
  <2>1. Slot(Tid(p)) \in Slots
    BY PipeTypes
  <2>2. op' \in [Slots -> 0..DONE] /\ pastVer' \in [Slots -> Nat]
    BY <1>7, <2>1, HandleType DEF ExitRun
  <2> QED
    BY <1>7, <2>2 DEF ExitRun, TypeOK
<1>8. ASSUME NEW p \in Pipes, ExitGive(p) PROVE TypeOK'
  <2>1. Tid(p) \in Nat
    BY PipeTypes
  <2>2. /\ pdone' \in [Pipes -> Nat] /\ pace' \in [Pipes -> Nat]
        /\ plast' = plast /\ phase' = phase
    BY <1>8, AdvanceType DEF ExitGive
  <2> QED
    BY <1>8, <2>1, <2>2 DEF ExitGive, TypeOK
<1>9. ASSUME NEW p \in Pipes, ExitDone(p) PROVE TypeOK'
  <2>1. /\ pdone' \in [Pipes -> Nat] /\ pace' \in [Pipes -> Nat]
        /\ plast' = plast /\ phase' = phase
    BY <1>9, AdvanceType DEF ExitDone
  <2>2. AllOnes \in Nat
    BY Constants
  <2> QED
    BY <1>9, <2>1, <2>2 DEF ExitDone, TypeOK
<1>10. ASSUME NEW p \in Pipes, NextBatch(p) PROVE TypeOK'
  BY <1>10, Constants DEF NextBatch, TypeOK
<1>11. ASSUME NEW p \in Pipes, Drain(p) PROVE TypeOK'
  <2>1. RoundUp(nSubmitted) \in Nat
    BY RoundUpType DEF TypeOK
  <2> QED
    BY <1>11, <2>1 DEF Drain, TypeOK
<1>12. ASSUME NEW p \in Pipes, PipeExit(p) PROVE TypeOK'
  BY <1>12 DEF PipeExit, TypeOK
<1>13. ASSUME NEW w \in Workers, Take(w) PROVE TypeOK'
  BY <1>13, Constants DEF Take, TypeOK
<1>14. ASSUME NEW w \in Workers, Exec(w) PROVE TypeOK'
  <2>1. Slot(wjob[w]) \in Slots
    BY SlotInRing DEF TypeOK
  <2>2. op' \in [Slots -> 0..DONE] /\ pastVer' \in [Slots -> Nat]
    BY <1>14, <2>1, HandleType DEF Exec
  <2> QED
    BY <1>14, <2>2 DEF Exec, TypeOK
<1>15. ASSUME NEW w \in Workers, StoreStage(w) PROVE TypeOK'
  <2>1. wstage[w] \in Nat
    BY DEF TypeOK
  <2>2. stages' \in [Slots -> Nat]
    BY <1>15, <2>1 DEF StoreStage, TypeOK
  <2> QED
    BY <1>15, <2>1, <2>2 DEF StoreStage, TypeOK
<1>16. ASSUME NEW w \in Workers, Finish(w) PROVE TypeOK'
  BY <1>16, Constants DEF Finish, TypeOK
<1>17. ASSUME NEW w \in Workers, Push(w) PROVE TypeOK'
  BY <1>17 DEF Push, TypeOK
<1>18. ASSUME NEW w \in Workers, WorkerExit(w) PROVE TypeOK'
  BY <1>18 DEF WorkerExit, TypeOK
<1>19. ASSUME ReadCounters \/ ScanInited \/ AdvanceInited \/ ScanCommitted
              \/ NothingCommitted \/ StoreCommitted
       PROVE  TypeOK'
  <2>1. CASE ReadCounters
    BY <2>1 DEF ReadCounters, TypeOK
  <2>2. CASE ScanInited
    BY <2>2 DEF ScanInited, TypeOK
  <2>3. CASE AdvanceInited
    BY <2>3 DEF AdvanceInited, TypeOK
  <2>4. CASE ScanCommitted
    BY <2>4 DEF ScanCommitted, TypeOK
  <2>5. CASE NothingCommitted
    BY <2>5 DEF NothingCommitted, TypeOK
  <2>6. CASE StoreCommitted
    BY <2>6 DEF StoreCommitted, TypeOK
  <2> QED
    BY <1>19, <2>1, <2>2, <2>3, <2>4, <2>5, <2>6
<1>20. ASSUME StoreRoot PROVE TypeOK'
  <2>1. Slot(mNext) \in Slots
    BY SlotInRing DEF TypeOK
  <2> QED
    BY <1>20, <2>1 DEF StoreRoot, TypeOK
<1>21. ASSUME AppendBubbles PROVE TypeOK'
  <2>1. mInited + Margin(mInited) \in Nat
    BY RoundUpType DEF TypeOK
  <2> QED
    BY <1>21, <2>1 DEF AppendBubbles, TypeOK
<1>22. ASSUME Stop PROVE TypeOK'
  BY <1>22 DEF Stop, TypeOK
<1>23. ASSUME StopWorkers PROVE TypeOK'
  BY <1>23 DEF StopWorkers, TypeOK
<1>24. ASSUME UNCHANGED vars PROVE TypeOK'
  BY <1>24 DEF vars, TypeOK
<1> QED
  BY <1>1, <1>2, <1>3, <1>4, <1>5, <1>6, <1>7, <1>8, <1>9, <1>10, <1>11,
     <1>12, <1>13, <1>14, <1>15, <1>16, <1>17, <1>18, <1>19, <1>20, <1>21,
     <1>22, <1>23, <1>24
  DEF Next, Submitting, Pipe, Worker, Monitor

\* Every variable of the scheduler keeps its type: slots stay slots, op never
\* passes DONE, n_inited_ never falls below zero.
THEOREM TypeCorrect == Spec => []TypeOK
<1>1. Init => TypeOK
  BY InitType
<1>2. TypeOK /\ [Next]_vars => TypeOK'
  BY StepType
<1> QED
  BY <1>1, <1>2, PTL DEF Spec

-------------------------------------------------------------------------------
(* Where ids are: facts about one state *)

\* What the monitor has seen inited is published.
LEMMA InitedPublished ==
    ASSUME IInv, NEW t \in Nat, nCommitted < t, t <= mInited
    PROVE  t \in Published /\ t < nCommitted + BufferSize
<1>1. ~Held(t)
  BY DEF IInv, ClientsInOrder, Held, TypeOK
<1>2. t \in Published
  BY <1>1 DEF IInv, CountersInOrder, Published, TypeOK
<1> QED
  BY <1>2 DEF IInv, ClientsInOrder

\* What has been through EXIT has been through ENTRY.
LEMMA ExitedEntered ==
    ASSUME NEW t \in Nat, Exited(t)
    PROVE  Entered(t)
BY SeatInPipes DEF Exited, Entered

\* A pipe that may take its next id has it from the one before or, if the id
\* begins there, from the monitor.
LEMMA ReadyOrder ==
    ASSUME IInv, NEW p \in Pipes, Ready(p)
    PROVE  LET t == Tid(p) IN
           /\ t \in Nat /\ t = pdone[p] + 1 /\ t <= nInited
           /\ AtEntry(p) => ~Entered(t)
           /\ ~AtEntry(p) => Entered(t)
           /\ \A q \in Pipes : Pos(t, q) < Pos(t, p) => t <= pdone[q]
<1> DEFINE t == Tid(p)
<1>1. t \in Nat /\ t = pdone[p] + 1 /\ pdone[p] \in Nat
  BY PipeTypes DEF IInv, TypeOK
<1>2. AtEntry(p) <=> Seat(t) = p /\ Pos(t, p) = 0
  BY <1>1, RolesAre, PosIs
<1>3. CASE AtEntry(p)
  <2>1. t <= nInited
    BY <1>3 DEF Ready
  <2>2. ~Entered(t)
    BY <1>1, <1>2, <1>3 DEF Entered
  <2>3. \A q \in Pipes : ~(Pos(t, q) < Pos(t, p))
    BY <1>1, <1>2, <1>3, PosIs, Constants
  <2> QED
    BY <1>1, <1>3, <2>1, <2>2, <2>3
<1>4. CASE ~AtEntry(p)
  <2>1. PICK r \in Pipes : NextPipe(r) = p
    BY PrevPipe
  <2>2. pdone[r] \in Nat /\ t <= pdone[r] /\ pdone[r] <= nInited
    <3>1. pace[p] <= pdone[r] /\ t <= pace[p] /\ pdone[r] <= nInited
      BY <1>4, <2>1 DEF Ready, IInv, PipesInOrder, CountersInOrder
    <3>2. pace[p] \in Nat /\ pdone[r] \in Nat
      BY DEF IInv, TypeOK
    <3> QED
      BY <1>1, <3>1, <3>2
  <2>3. Pos(t, p) = Pos(t, r) + 1
    BY <1>1, <1>2, <1>4, <2>1, PosIs
  <2>4. t \in 1..pdone[r]
    BY <1>1, <2>2
  <2>5. \A q \in Pipes : Pos(t, q) <= Pos(t, r) => t <= pdone[q]
    BY <2>4 DEF IInv, PipesInOrder
  <2>6. \A q \in Pipes : Pos(t, q) \in Int
    BY <1>1, PosIs, Constants
  <2>7. \A q \in Pipes : Pos(t, q) < Pos(t, p) => t <= pdone[q]
    BY <2>3, <2>5, <2>6
  <2>8. Entered(t)
    <3>1. Seat(t) \in Pipes /\ Pos(t, Seat(t)) = 0
      BY <1>1, SeatInPipes, PosIs
    <3>2. Pos(t, r) \in 0..(NPipes - 1)
      BY <1>1, PosIs
    <3> QED
      BY <2>5, <3>1, <3>2, Constants DEF Entered
  <2>9. t <= nInited
    BY <1>1, <2>2 DEF IInv, TypeOK
  <2> QED
    BY <1>1, <1>4, <2>7, <2>8, <2>9
<1> QED
  BY <1>3, <1>4

\* The next id of a pipe that may proceed is published, or a bubble whose
\* slot is finished.
LEMMA ReadyId ==
    ASSUME IInv, NEW p \in Pipes, Ready(p)
    PROVE  LET t == Tid(p) IN
           /\ t \in Nat /\ t > nCommitted /\ t > mNext /\ ~Exited(t)
           /\ Slot(t) \in Slots
           /\ \/ /\ ~stop /\ t \in Published /\ t <= mInited
                 /\ t < nCommitted + BufferSize /\ stages[Slot(t)] = 0
              \/ /\ stop /\ t > nSubmitted
                 /\ op[Slot(t)] = DONE /\ stages[Slot(t)] = AllOnes
<1> DEFINE t == Tid(p)
<1>1. t \in Nat /\ t = pdone[p] + 1 /\ t <= nInited /\ pdone[p] \in Nat
  BY ReadyOrder DEF IInv, TypeOK
<1>2. /\ nCommitted \in Nat /\ mNext \in Nat /\ mInited \in Nat
      /\ nInited \in Nat /\ nSubmitted \in Nat
  BY DEF IInv, TypeOK
<1>3. t > mNext /\ t > nCommitted /\ ~Exited(t)
  BY <1>1, <1>2 DEF IInv, CountersInOrder, Exited
<1>4. Slot(t) \in Slots
  BY <1>1, SlotInRing
<1>5. CASE stop
  <2>1. nCommitted = nSubmitted /\ op[Slot(t)] = DONE /\ stages[Slot(t)] = AllOnes
    BY <1>4, <1>5 DEF IInv, StopInOrder
  <2> QED
    BY <1>1, <1>2, <1>3, <1>4, <1>5, <2>1
<1>6. CASE ~stop
  <2>1. nInited <= mInited
    BY <1>6 DEF IInv, StopInOrder, CountersInOrder
  <2>2. t <= mInited
    BY <1>1, <1>2, <2>1
  <2>3. t \in Published /\ t < nCommitted + BufferSize
    BY <1>1, <1>3, <2>2, InitedPublished
  <2>4. stages[Slot(t)] = 0
    BY <1>3, <2>3 DEF IInv, PublishedSlots, PublishedSlot
  <2> QED
    BY <1>1, <1>3, <1>4, <1>6, <2>2, <2>3, <2>4
<1> QED
  BY <1>5, <1>6

\* A worker's task is published and has run its first handler.
LEMMA TaskId ==
    ASSUME IInv, NEW w \in Workers, HasTask(w)
    PROVE  /\ wtid[w] \in Nat /\ wtid[w] \in Published
           /\ wtid[w] > nCommitted /\ wtid[w] < nCommitted + BufferSize
           /\ Exited(wtid[w]) /\ Entered(wtid[w]) /\ op[Slot(wtid[w])] > 0
           /\ sno[Slot(wtid[w])] = wtid[w] /\ ~stop
<1> DEFINE t == wtid[w]
<1>1. t \in Nat
  BY DEF HasTask, IInv, TypeOK
<1>2. t > mNext /\ t <= nSubmitted /\ Exited(t)
  BY DEF IInv, WorkersInOrder
<1>3. /\ nCommitted \in Nat /\ mNext \in Nat /\ mInited \in Nat
      /\ nInited \in Nat /\ nSubmitted \in Nat /\ nCommitted <= mNext
  BY DEF IInv, TypeOK, CountersInOrder
<1>4. t > nCommitted /\ ~stop
  BY <1>1, <1>2, <1>3 DEF IInv, StopInOrder
<1>5. t <= mInited
  <2>1. 0 \in Pipes
    BY Constants DEF Pipes
  <2>2. t <= pdone[0] /\ pdone[0] <= nInited /\ pdone[0] \in Nat
    BY <1>2, <2>1 DEF Exited, IInv, CountersInOrder, TypeOK
  <2>3. nInited <= mInited
    BY <1>4 DEF IInv, StopInOrder, CountersInOrder
  <2> QED
    BY <1>1, <1>3, <2>2, <2>3
<1>6. t \in Published /\ t < nCommitted + BufferSize
  BY <1>1, <1>4, <1>5, InitedPublished
<1>7. Entered(t)
  BY <1>1, <1>2, ExitedEntered
<1>8. op[Slot(t)] > 0 /\ sno[Slot(t)] = t
  BY <1>6, <1>7 DEF IInv, PublishedSlots, PublishedSlot
<1> QED
  BY <1>1, <1>2, <1>4, <1>6, <1>7, <1>8

\* The ids of the window, published or vacant.
LEMMA WindowIds ==
    ASSUME IInv
    PROVE  \A t \in Published \union Vacant :
             t \in Nat /\ nCommitted < t /\ t < nCommitted + BufferSize
<1>1. nCommitted \in Nat /\ nSubmitted \in Nat
  BY DEF IInv, TypeOK
<1>2. \A t \in Published : t \in Nat /\ nCommitted < t
  BY <1>1 DEF Published
<1>3. \A t \in Published : t < nCommitted + BufferSize
  BY DEF IInv, ClientsInOrder
<1>4. \A t \in Vacant :
        t \in Nat /\ nCommitted < t /\ t < nCommitted + BufferSize
  BY <1>1, Constants DEF Vacant
<1> QED
  BY <1>2, <1>3, <1>4

\* Two ids of the window have different slots.
LEMMA OtherSlot ==
    ASSUME TypeOK, NEW t \in Nat, NEW u \in Nat, t # u,
           nCommitted <= t, t < nCommitted + BufferSize,
           nCommitted <= u, u < nCommitted + BufferSize
    PROVE  Slot(t) # Slot(u)
<1>1. nCommitted \in Nat
  BY DEF TypeOK
<1>2. (t < u /\ u < t + BufferSize) \/ (u < t /\ t < u + BufferSize)
  BY <1>1, Constants
<1> QED
  BY <1>2, SlotsDiffer

\* The slot of an id of the window is the slot of no other.
LEMMA SlotsApart ==
    ASSUME IInv, NEW u \in Nat,
           nCommitted < u, u < nCommitted + BufferSize
    PROVE  \A t \in ((Published \union Vacant) \ {u}) \union {nCommitted} :
             Slot(t) # Slot(u) /\ Slot(t) \in Slots /\ t \in Nat
<1> SUFFICES ASSUME NEW t \in ((Published \union Vacant) \ {u}) \union {nCommitted}
             PROVE  Slot(t) # Slot(u) /\ Slot(t) \in Slots /\ t \in Nat
  OBVIOUS
<1>1. nCommitted \in Nat /\ TypeOK
  BY DEF IInv, TypeOK
<1>2. /\ t \in Nat /\ nCommitted <= t /\ t < nCommitted + BufferSize
      /\ t # u
  BY <1>1, WindowIds, Constants
<1> QED
  BY <1>1, <1>2, OtherSlot, SlotInRing

\* An id some client holds is ahead of the monitor and of every pipe.
LEMMA ClaimedId ==
    ASSUME IInv, NEW c \in Clients, cpc[c] # "idle"
    PROVE  /\ ctid[c] \in Nat /\ ctid[c] <= nSubmitted /\ Held(ctid[c])
           /\ ctid[c] > mInited /\ ctid[c] > mNext /\ ctid[c] > nCommitted
           /\ ~Entered(ctid[c]) /\ ~Exited(ctid[c])
           /\ ~stop /\ mpc # "exited"
           /\ ctid[c] < nCommitted + BufferSize =>
                ctid[c] \in Vacant /\ VacantSlot(ctid[c])
<1> DEFINE t == ctid[c]
<1>1. /\ t \in Nat /\ nCommitted \in Nat /\ mNext \in Nat
      /\ mInited \in Nat /\ nInited \in Nat
      /\ \A p \in Pipes : pdone[p] \in Nat
  BY DEF IInv, TypeOK
<1>2. t <= nSubmitted /\ Held(t) /\ t > mInited
  BY DEF IInv, ClientsInOrder, Held
<1>3. ~stop /\ mpc # "exited"
  BY DEF IInv, StopInOrder
<1>4. /\ nCommitted <= mNext /\ mNext <= mInited /\ nInited <= mInited
      /\ \A p \in Pipes : pdone[p] <= nInited
  BY <1>3 DEF IInv, CountersInOrder
<1>5. t > mNext /\ t > nCommitted /\ \A p \in Pipes : t > pdone[p]
  BY <1>1, <1>2, <1>4
<1>6. ~Entered(t) /\ ~Exited(t)
  BY <1>1, <1>5, SeatInPipes, ExitedEntered DEF Entered
<1>7. ASSUME t < nCommitted + BufferSize
      PROVE  t \in Vacant /\ VacantSlot(t)
  <2>1. t \in Vacant
    BY <1>1, <1>2, <1>5, <1>7, Constants DEF Vacant
  <2> QED
    BY <2>1 DEF IInv, VacantSlots
<1> QED
  BY <1>1, <1>2, <1>3, <1>5, <1>6, <1>7

\* When no client moves and the window stays, its ids keep their kinds.
LEMMA IdsKept ==
    ASSUME UNCHANGED <<nSubmitted, nCommitted, cpc, ctid>>
    PROVE  Published' = Published /\ Vacant' = Vacant
BY DEF Published, Vacant, Held

-------------------------------------------------------------------------------
(* Steps of clients *)

LEMMA ClaimInv ==
    ASSUME IInv, TypeOK', NEW c \in Clients, Claim(c)
    PROVE  IInv'
<1> USE DEF counters, ctxs, pipes, workers, clients, monitor
<1>1. \A t \in Nat : Held(t)' <=> Held(t) \/ t = nSubmitted + 1
  BY DEF Claim, Held, IInv, TypeOK
<1>2. ~Held(nSubmitted + 1)
  BY DEF Held, IInv, ClientsInOrder, TypeOK
<1>3. Published' = Published /\ Vacant' = Vacant
  BY <1>1, <1>2, Constants DEF Published, Vacant, Claim, IInv, TypeOK
<1>4. CountersInOrder'
  BY DEF Claim, IInv, CountersInOrder, TypeOK
<1>5. PipesInOrder'
  <2>1. \A p \in Pipes : Tid(p) \in Nat
    BY PipeTypes DEF IInv
  <2> QED
    BY <2>1 DEF Claim, IInv, PipesInOrder, AtExit, AtEntry, Tid, TypeOK
<1>6. StopInOrder'
  BY DEF Claim, IInv, StopInOrder
<1>7. ClientsInOrder'
  <2>1. \A d \in Clients : cpc'[d] # "idle" =>
          \/ d = c /\ ctid'[d] = nSubmitted + 1
          \/ /\ d # c /\ cpc[d] # "idle" /\ ctid'[d] = ctid[d]
             /\ ctid[d] <= nSubmitted
    BY DEF Claim, IInv, ClientsInOrder, TypeOK
  <2>2. mInited < nSubmitted + 1
    BY DEF IInv, CountersInOrder, TypeOK
  <2>3. \A d \in Clients :
          cpc'[d] # "full" => cpc'[d] = cpc[d] /\ ctid'[d] = ctid[d]
    BY DEF Claim, IInv, TypeOK
  <2>4. \A d \in Clients : cpc'[d] # "idle" =>
          ctid'[d] > mInited' /\ ctid'[d] <= nSubmitted'
    BY <2>1, <2>2 DEF Claim, IInv, ClientsInOrder, TypeOK
  <2>5. \A d, e \in Clients :
          d # e /\ cpc'[d] # "idle" /\ cpc'[e] # "idle" => ctid'[d] # ctid'[e]
    <3>1. nSubmitted \in Nat
      BY DEF IInv, TypeOK
    <3>2. \A d, e \in Clients :
            d # e /\ cpc[d] # "idle" /\ cpc[e] # "idle" => ctid[d] # ctid[e]
      BY DEF IInv, ClientsInOrder
    <3> QED
      BY <2>1, <3>1, <3>2
  <2> QED
    BY <1>3, <2>3, <2>4, <2>5 DEF Claim, IInv, ClientsInOrder
<1>8. PublishedSlots'
  BY <1>3 DEF Claim, IInv, PublishedSlots, PublishedSlot, HasTask, Entered, Exited
<1>9. VacantSlots'
  BY <1>3 DEF Claim, IInv, VacantSlots, VacantSlot, TypeOK
<1>10. WorkersInOrder'
  BY DEF Claim, IInv, WorkersInOrder, HasTask, Busy, Exited, TypeOK
<1> QED
  BY <1>4, <1>5, <1>6, <1>7, <1>8, <1>9, <1>10 DEF IInv

LEMMA WriteInv ==
    ASSUME IInv, TypeOK', NEW c \in Clients, Write(c)
    PROVE  IInv'
<1> USE DEF counters, ctxs, pipes, workers, clients, monitor
<1> DEFINE u == ctid[c]
<1>1. /\ u \in Nat /\ u > nCommitted /\ u < nCommitted + BufferSize
      /\ u \in Vacant /\ VacantSlot(u) /\ Held(u) /\ ~stop /\ Slot(u) \in Slots
  <2>1. u < nCommitted + BufferSize
    BY Constants DEF Write, BufferFull, IInv, TypeOK
  <2> QED
    BY <2>1, ClaimedId, SlotInRing DEF Write
<1>2. \A t : Held(t)' <=> Held(t)
  BY DEF Write, Held, IInv, TypeOK
<1>3. Published' = Published /\ Vacant' = Vacant
  BY <1>2 DEF Published, Vacant, Write
<1>4. CountersInOrder' /\ PipesInOrder'
  BY DEF Write, IInv, CountersInOrder, PipesInOrder, AtExit, AtEntry, Tid
<1>5. StopInOrder'
  BY <1>1 DEF Write, IInv, StopInOrder
<1>6. ClientsInOrder'
  BY <1>1, <1>3 DEF Write, IInv, ClientsInOrder, TypeOK
<1>7. \A t \in (Published \union (Vacant \ {u})) \union {nCommitted} :
        Slot(t) # Slot(u)
  <2>1. u \notin Published
    BY <1>1 DEF Published
  <2> QED
    BY <1>1, <2>1, SlotsApart
<1>8. PublishedSlots'
  BY <1>3, <1>7
  DEF Write, IInv, PublishedSlots, PublishedSlot, HasTask, Entered, Exited, TypeOK
<1>9. VacantSlots'
  <2>1. \A t \in Vacant \ {u} : VacantSlot(t)'
    BY <1>7 DEF Write, IInv, VacantSlots, VacantSlot, TypeOK
  <2>2. VacantSlot(u)'
    BY <1>1 DEF Write, VacantSlot, IInv, TypeOK
  <2> QED
    BY <1>3, <1>7, <2>1, <2>2 DEF Write, IInv, VacantSlots, TypeOK
<1>10. WorkersInOrder'
  <2>1. \A w \in Workers : HasTask(w) => Slot(wtid[w]) # Slot(u)
    BY <1>7, TaskId
  <2> QED
    BY <2>1 DEF Write, IInv, WorkersInOrder, HasTask, Busy, Exited, TypeOK
<1> QED
  BY <1>4, <1>5, <1>6, <1>8, <1>9, <1>10 DEF IInv

LEMMA PublishInv ==
    ASSUME IInv, TypeOK', NEW c \in Clients, Publish(c)
    PROVE  IInv'
<1> USE DEF counters, ctxs, pipes, workers, clients, monitor
<1> DEFINE u == ctid[c]
<1>1. /\ u \in Nat /\ u <= nSubmitted /\ u > mNext /\ u > nCommitted
      /\ u < nCommitted + BufferSize /\ u \in Vacant /\ VacantSlot(u)
      /\ ~Entered(u) /\ ~Exited(u)
      /\ Held(u) /\ ~stop /\ Slot(u) \in Slots
  <2>1. u < nCommitted + BufferSize
    BY DEF Publish, IInv, ClientsInOrder
  <2> QED
    BY <2>1, ClaimedId, SlotInRing DEF Publish
<1>2. \A d \in Clients : d # c /\ cpc[d] # "idle" => ctid[d] # u
  BY DEF IInv, ClientsInOrder, Publish
<1>3. \A t : Held(t)' <=> Held(t) /\ t # u
  BY <1>2 DEF Publish, Held, IInv, TypeOK
<1>4. Published' = Published \union {u} /\ Vacant' = Vacant \ {u}
  BY <1>1, <1>3, Constants DEF Published, Vacant, Publish, IInv, TypeOK
<1>5. CountersInOrder' /\ PipesInOrder'
  BY DEF Publish, IInv, CountersInOrder, PipesInOrder, AtExit, AtEntry, Tid
<1>6. StopInOrder'
  BY <1>1 DEF Publish, IInv, StopInOrder
<1>7. ClientsInOrder'
  <2>1. \A t \in Published' : t < nCommitted' + BufferSize
    BY <1>1, <1>4 DEF Publish, IInv, ClientsInOrder
  <2>2. \A d \in Clients : cpc'[d] # "idle" => cpc'[d] = cpc[d] /\ d # c
    BY DEF Publish, IInv, TypeOK
  <2> QED
    BY <2>1, <2>2 DEF Publish, IInv, ClientsInOrder
<1>8. \A t \in (Published \union (Vacant \ {u})) \union {nCommitted} :
        Slot(t) # Slot(u)
  <2>1. u \notin Published
    BY <1>1 DEF Published
  <2> QED
    BY <1>1, <2>1, SlotsApart
<1>9. PublishedSlots'
  <2> SUFFICES ASSUME NEW t \in Published' PROVE PublishedSlot(t)'
    BY DEF PublishedSlots
  <2>1. CASE t = u
    <3>1. stages'[Slot(u)] = 0
      BY <1>1 DEF Publish, IInv, TypeOK
    <3>2. op'[Slot(u)] = 0 /\ sno'[Slot(u)] = u
      BY <1>1 DEF Publish, VacantSlot
    <3>3. \A v : (Entered(v)' <=> Entered(v)) /\ (Exited(v)' <=> Exited(v))
      BY DEF Publish, Entered, Exited
    <3>4. ~Entered(t) /\ ~Exited(t) /\ ~(t <= mNext) /\ mNext' = mNext
      BY <1>1, <2>1 DEF Publish, IInv, TypeOK
    <3>5. 0 # AllOnes
      BY DEF AllOnes
    <3> QED
      BY <2>1, <3>1, <3>2, <3>3, <3>4, <3>5 DEF PublishedSlot
  <2>2. CASE t # u
    BY <1>4, <1>8, <2>2
    DEF Publish, IInv, PublishedSlots, PublishedSlot, HasTask, Entered, Exited,
        TypeOK
  <2> QED
    BY <2>1, <2>2
<1>10. VacantSlots'
  <2>1. \A d \in Clients : \A t \in Vacant' :
          cpc'[d] = "publish" /\ ctid'[d] = t <=> cpc[d] = "publish" /\ ctid[d] = t
    BY <1>4 DEF Publish, IInv, TypeOK
  <2>2. \A t \in Vacant' : VacantSlot(t)'
    BY <1>4, <1>8, <2>1 DEF Publish, IInv, VacantSlots, VacantSlot, TypeOK
  <2> QED
    BY <1>8, <2>2 DEF Publish, IInv, VacantSlots, TypeOK
<1>11. WorkersInOrder'
  <2>1. \A w \in Workers : HasTask(w) => Slot(wtid[w]) # Slot(u)
    BY <1>8, TaskId
  <2> QED
    BY <2>1 DEF Publish, IInv, WorkersInOrder, HasTask, Busy, Exited, TypeOK
<1> QED
  BY <1>5, <1>6, <1>7, <1>9, <1>10, <1>11 DEF IInv

-------------------------------------------------------------------------------
(* Steps of pipes *)

\* A pipe that takes its next id keeps the counters and the order of the
\* pipes, and brings no other id through ENTRY or EXIT.
LEMMA AdvanceOrder ==
    ASSUME IInv, TypeOK', NEW p \in Pipes, Ready(p), Advance(p),
           UNCHANGED <<nSubmitted, nInited, nCommitted, mpc, mSub, mInited,
                       mNext>>,
           ~giving'[p], \A q \in Pipes \ {p} : giving'[q] = giving[q]
    PROVE  /\ CountersInOrder' /\ PipesInOrder'
           /\ \A q \in Pipes : pdone'[q] = IF q = p THEN Tid(p) ELSE pdone[q]
           /\ \A t \in Nat \ {Tid(p)} :
                (Entered(t)' <=> Entered(t)) /\ (Exited(t)' <=> Exited(t))
           /\ \A t : t = Tid(p) => Entered(t)' /\ (Exited(t)' <=> AtExit(p))
<1> DEFINE u == Tid(p)
<1>1. /\ \A q \in Pipes : pdone[q] \in Nat /\ pace[q] \in Nat
      /\ u \in Nat /\ u = pdone[p] + 1 /\ u <= nInited
      /\ \A q \in Pipes : Pos(u, q) < Pos(u, p) => u <= pdone[q]
  BY ReadyOrder DEF IInv, TypeOK
<1>2. /\ nCommitted \in Nat /\ mNext \in Nat /\ nInited \in Nat
      /\ \A q \in Pipes : Pos(u, q) \in Nat
  BY <1>1, PosIs, Constants DEF IInv, TypeOK
<1>3. \A q \in Pipes : pdone'[q] = IF q = p THEN u ELSE pdone[q]
  BY DEF Advance, IInv, TypeOK
<1>4. CountersInOrder'
  <2>1. \A q \in Pipes : mNext <= pdone'[q] /\ pdone'[q] <= nInited
    BY <1>1, <1>2, <1>3 DEF IInv, CountersInOrder
  <2> QED
    BY <2>1 DEF IInv, CountersInOrder
<1>5. \A q \in Pipes : pace'[NextPipe(q)] <= pdone'[q]
  <2> SUFFICES ASSUME NEW q \in Pipes PROVE pace'[NextPipe(q)] <= pdone'[q]
    OBVIOUS
  <2>1. NextPipe(p) \in Pipes /\ NextPipe(q) \in Pipes
    BY NextPipeIs
  <2>2. pace[NextPipe(q)] <= pdone[q]
    BY DEF IInv, PipesInOrder
  <2>3. pace' = pace \/ pace' = [pace EXCEPT ![NextPipe(p)] = u]
    BY DEF Advance, NextPipe
  <2>4. CASE q = p
    BY <1>1, <1>3, <2>1, <2>2, <2>3, <2>4 DEF IInv, TypeOK
  <2>5. CASE q # p
    <3>1. NextPipe(q) # NextPipe(p)
      BY <2>5, NextInjective
    <3> QED
      BY <1>3, <2>1, <2>2, <2>3, <2>5, <3>1 DEF IInv, TypeOK
  <2> QED
    BY <2>4, <2>5
<1>6. \A q, r \in Pipes : \A t \in 1..pdone'[q] :
        Pos(t, r) <= Pos(t, q) => t <= pdone'[r]
  <2> SUFFICES ASSUME NEW q \in Pipes, NEW r \in Pipes, NEW t \in 1..pdone'[q],
                      Pos(t, r) <= Pos(t, q)
               PROVE  t <= pdone'[r]
    OBVIOUS
  <2>1. t \in Nat /\ t >= 1 /\ t <= pdone'[q] /\ Pos(t, r) \in Nat /\ Pos(t, q) \in Nat
    <3>1. t \in Nat /\ t >= 1 /\ t <= pdone'[q]
      BY <1>1, <1>3
    <3> QED
      BY <3>1, PosIs, Constants
  <2>2. CASE t <= pdone[q]
    <3>1. t \in 1..pdone[q]
      BY <1>1, <2>1, <2>2
    <3>2. t <= pdone[r]
      BY <3>1 DEF IInv, PipesInOrder
    <3> QED
      BY <1>1, <1>3, <2>1, <3>2
  <2>3. CASE ~(t <= pdone[q])
    <3>1. q = p /\ t = u
      BY <1>1, <1>3, <2>1, <2>3
    <3>2. CASE r = p
      BY <1>1, <1>3, <3>1, <3>2
    <3>3. CASE r # p
      <4>1. Pos(u, r) # Pos(u, p)
        BY <1>1, <3>3, SeatInPipes, Constants DEF Pos, Pipes
      <4>2. Pos(u, r) < Pos(u, p)
        BY <1>2, <2>1, <3>1, <4>1
      <4> QED
        BY <1>1, <1>3, <3>1, <3>3, <4>2
    <3> QED
      BY <3>2, <3>3
  <2> QED
    BY <2>2, <2>3
<1>7. \A q \in Pipes : giving'[q] => AtExit(q)' /\ Tid(q)' <= nSubmitted'
  <2> SUFFICES ASSUME NEW q \in Pipes, giving'[q]
               PROVE  AtExit(q)' /\ Tid(q)' <= nSubmitted'
    OBVIOUS
  <2>1. q # p /\ giving[q] /\ pdone'[q] = pdone[q]
    BY <1>3
  <2>2. AtExit(q) /\ Tid(q) <= nSubmitted
    BY <2>1 DEF IInv, PipesInOrder
  <2> QED
    BY <2>1, <2>2 DEF AtExit, AtEntry, Tid
<1>8. ASSUME NEW t \in Nat, t # u
      PROVE  (Entered(t)' <=> Entered(t)) /\ (Exited(t)' <=> Exited(t))
  <2>1. \A q \in Pipes : t <= pdone'[q] <=> t <= pdone[q]
    BY <1>1, <1>3, <1>8
  <2>2. Seat(t) \in Pipes
    BY SeatInPipes
  <2> QED
    BY <2>1, <2>2 DEF Entered, Exited
<1>9. ASSUME NEW t, t = u PROVE Entered(t)' /\ (Exited(t)' <=> AtExit(p))
  <2>1. t \in Nat /\ Seat(t) \in Pipes
    BY <1>1, <1>9, SeatInPipes
  <2>2. Entered(t)'
    <3>1. CASE Seat(t) = p
      BY <1>1, <1>3, <1>9, <3>1 DEF Entered
    <3>2. CASE Seat(t) # p
      <4>1. ~AtEntry(p)
        BY <1>1, <1>9, <3>2, RolesAre
      <4>2. Entered(t)
        BY <1>9, <4>1, ReadyOrder
      <4> QED
        BY <1>3, <2>1, <3>2, <4>2 DEF Entered
    <3> QED
      BY <3>1, <3>2
  <2>3. ASSUME AtExit(p) PROVE Exited(t)'
    <3>1. Pos(u, p) = NPipes - 1
      BY <1>1, <2>3, RolesAre
    <3>2. \A q \in Pipes : q # p => Pos(u, q) < Pos(u, p)
      <4>1. \A q \in Pipes : q # p => Pos(u, q) # Pos(u, p)
        BY <1>1, SeatInPipes, Constants DEF Pos, Pipes
      <4>2. \A q \in Pipes : Pos(u, q) \in 0..(NPipes - 1)
        BY <1>1, PosIs
      <4> QED
        BY <3>1, <4>1, <4>2, Constants
    <3>3. \A q \in Pipes : t <= pdone'[q]
      BY <1>1, <1>3, <1>9, <3>2
    <3> QED
      BY <3>1, <3>3 DEF Exited
  <2>4. ASSUME ~AtExit(p) PROVE ~Exited(t)'
    <3>1. Pos(u, NextPipe(p)) = Pos(u, p) + 1 /\ NextPipe(p) \in Pipes
      BY <1>1, <2>4, RolesAre, PosIs, NextPipeIs
    <3>2. NextPipe(p) # p /\ pdone'[NextPipe(p)] = pdone[NextPipe(p)]
      BY <1>2, <1>3, <3>1
    <3>3. ~(u <= pdone[NextPipe(p)])
      <4> SUFFICES ASSUME u <= pdone[NextPipe(p)] PROVE FALSE
        OBVIOUS
      <4>1. u \in 1..pdone[NextPipe(p)]
        BY <1>1, <3>1
      <4>2. u <= pdone[p]
        BY <1>2, <3>1, <4>1 DEF IInv, PipesInOrder
      <4> QED
        BY <1>1, <4>2
    <3> QED
      BY <1>9, <3>1, <3>2, <3>3 DEF Exited
  <2> QED
    BY <2>2, <2>3, <2>4
<1>10. PipesInOrder'
  BY <1>5, <1>6, <1>7 DEF PipesInOrder
<1> QED
  BY <1>3, <1>4, <1>8, <1>9, <1>10

\* What a pipe that takes its next id leaves alone, whatever it does with it.
LEMMA PipeFrame ==
    ASSUME IInv, TypeOK', NEW p \in Pipes, Ready(p), Advance(p),
           UNCHANGED <<counters, clients, monitor>>,
           ~giving'[p], \A q \in Pipes \ {p} : giving'[q] = giving[q]
    PROVE  /\ CountersInOrder' /\ PipesInOrder' /\ ClientsInOrder'
           /\ Published' = Published /\ Vacant' = Vacant
           /\ op' = op /\ stages' = stages /\ wtid' = wtid => StopInOrder'
           /\ ~stop /\ (\A w \in Workers : wtid'[w] # NoTask) => StopInOrder'
           /\ \A w \in Workers : wtid[w] # NoTask
<1> USE DEF counters, clients, monitor
<1>1. CountersInOrder' /\ PipesInOrder'
  BY AdvanceOrder
<1>2. Published' = Published /\ Vacant' = Vacant
  BY IdsKept
<1>3. ClientsInOrder'
  BY <1>2 DEF IInv, ClientsInOrder
<1>4. phase' = phase
  BY DEF Advance
<1>5. \A w \in Workers : wtid[w] # NoTask
  BY DEF IInv, StopInOrder, Ready, Running
<1>6. op' = op /\ stages' = stages /\ wtid' = wtid => StopInOrder'
  BY <1>4 DEF IInv, StopInOrder
<1>7. ~stop /\ (\A w \in Workers : wtid'[w] # NoTask) => StopInOrder'
  BY DEF IInv, StopInOrder
<1> QED
  BY <1>1, <1>2, <1>3, <1>5, <1>6, <1>7

\* The workers' part holds on when their contexts do not change.
LEMMA WorkersKept ==
    ASSUME IInv, TypeOK', UNCHANGED <<nSubmitted, mNext, workers>>,
           \A t \in Nat : Exited(t) => Exited(t)',
           \A w \in Workers : HasTask(w) =>
               /\ op'[Slot(wtid[w])] = op[Slot(wtid[w])]
               /\ stages'[Slot(wtid[w])] = stages[Slot(wtid[w])]
    PROVE  WorkersInOrder'
<1> USE DEF workers
<1>1. \A w \in Workers : HasTask(w) => wtid[w] \in Nat
  BY TaskId
<1>2. \A w \in Workers : /\ HasTask(w)' <=> HasTask(w)
                         /\ Busy(w)' <=> Busy(w)
                         /\ wlast[w] \in Nat /\ wjob[w] \in Nat
  BY DEF HasTask, Busy, IInv, TypeOK
<1>3. \A w \in Workers : HasTask(w) =>
         /\ wtid[w] > mNext /\ wtid[w] <= nSubmitted /\ Exited(wtid[w])'
         /\ stages'[Slot(wtid[w])] # AllOnes
  <2> SUFFICES ASSUME NEW w \in Workers, HasTask(w)
               PROVE  /\ wtid[w] > mNext /\ wtid[w] <= nSubmitted
                      /\ Exited(wtid[w])' /\ stages'[Slot(wtid[w])] # AllOnes
    OBVIOUS
  <2>1. /\ wtid[w] > mNext /\ wtid[w] <= nSubmitted
        /\ stages[Slot(wtid[w])] # AllOnes
        /\ Exited(wtid[w])
    BY DEF IInv, WorkersInOrder
  <2>2. \A t \in Nat : t = wtid[w] => Exited(t)'
    BY <2>1
  <2>3. Exited(wtid[w])'
    BY <1>1, <2>2 DEF Exited
  <2> QED
    BY <2>1, <2>3
<1>4. \A w \in Workers : wpc[w] = "push" => Exited(wjob[w])'
  <2> SUFFICES ASSUME NEW w \in Workers, wpc[w] = "push" PROVE Exited(wjob[w])'
    OBVIOUS
  <2>1. \A t \in Nat : t = wjob[w] => Exited(t)'
    BY DEF IInv, WorkersInOrder
  <2> QED
    BY <1>2, <2>1 DEF Exited
<1>5. \A w \in Workers : wlast[w] = 0 \/ Exited(wlast[w])'
  <2> SUFFICES ASSUME NEW w \in Workers, wlast[w] # 0 PROVE Exited(wlast[w])'
    OBVIOUS
  <2>1. \A t \in Nat : t = wlast[w] => Exited(t)'
    BY DEF IInv, WorkersInOrder
  <2> QED
    BY <1>2, <2>1 DEF Exited
<1>6. \A w \in Workers : wpc[w] \in {"exec", "store"} =>
        HasTask(w) /\ wjob[w] = wtid[w] /\ op'[Slot(wjob[w])] = op[Slot(wjob[w])]
  BY DEF IInv, WorkersInOrder, Busy
<1>7. /\ \A w, x \in Workers :
           w # x /\ HasTask(w) /\ HasTask(x) => wtid[w] # wtid[x]
      /\ \A w \in Workers : Busy(w) => HasTask(w) /\ wjob[w] = wtid[w]
      /\ \A w \in Workers : wpc[w] = "push" => wtid[w] \in {NoTask, wjob[w]}
      /\ \A w \in Workers : wpc[w] = "exited" => wtid[w] = NoTask
      /\ \A w \in avail : wpc[w] \in {"spin", "exited"} /\ ~HasTask(w)
      /\ \A w \in Workers : wpc[w] = "spin" => wstage[w] = 1
  BY DEF IInv, WorkersInOrder
<1>8. /\ \A w \in Workers : wpc[w] = "exec" => wstage[w] <= op'[Slot(wjob[w])]
      /\ \A w \in Workers : wpc[w] = "store" => wstage[w] < op'[Slot(wjob[w])]
  BY <1>6 DEF IInv, WorkersInOrder
<1>9. avail \subseteq Workers
  BY DEF IInv, TypeOK
<1> QED
  BY <1>2, <1>3, <1>4, <1>5, <1>7, <1>8, <1>9 DEF WorkersInOrder

\* A step that only passes an id on, which is finished.
LEMMA PassInv ==
    ASSUME IInv, TypeOK', NEW p \in Pipes, Ready(p), Advance(p),
           op[Slot(Tid(p))] = DONE, ~AtExit(p) \/ stop,
           UNCHANGED <<counters, stages, op, sno, workers, clients, monitor>>,
           ~giving'[p], \A q \in Pipes \ {p} : giving'[q] = giving[q]
    PROVE  IInv'
<1> USE DEF counters, workers, clients, monitor
<1> DEFINE u == Tid(p)
<1>1. /\ CountersInOrder' /\ PipesInOrder' /\ ClientsInOrder' /\ StopInOrder'
      /\ Published' = Published /\ Vacant' = Vacant
  BY PipeFrame
<1>2. /\ \A t \in Nat \ {u} :
           (Entered(t)' <=> Entered(t)) /\ (Exited(t)' <=> Exited(t))
      /\ \A t : t = u => Entered(t)' /\ (Exited(t)' <=> AtExit(p))
  BY AdvanceOrder
<1>3. u \in Nat /\ ~Exited(u) /\ (stop => u > nSubmitted)
  BY ReadyId DEF Published, IInv, TypeOK
<1>4. PublishedSlots'
  <2> SUFFICES ASSUME NEW t \in Published PROVE PublishedSlot(t)'
    BY <1>1 DEF PublishedSlots
  <2>1. t \in Nat /\ PublishedSlot(t) /\ t <= nSubmitted
    BY WindowIds DEF IInv, PublishedSlots, Published
  <2>2. CASE t = u
    <3>1. ~stop /\ ~Exited(t)' /\ Entered(t)' /\ ~Exited(t)
      BY <1>2, <1>3, <2>1, <2>2 DEF IInv, TypeOK
    <3>2. op[Slot(t)] > 0
      BY <2>2, Constants
    <3> QED
      BY <2>1, <3>1, <3>2 DEF PublishedSlot, HasTask
  <2>3. CASE t # u
    <3>1. (Entered(t)' <=> Entered(t)) /\ (Exited(t)' <=> Exited(t))
      BY <1>2, <2>1, <2>3
    <3> QED
      BY <2>1, <3>1 DEF PublishedSlot, HasTask
  <2> QED
    BY <2>2, <2>3
<1>5. VacantSlots'
  BY <1>1 DEF IInv, VacantSlots, VacantSlot
<1>6. WorkersInOrder'
  <2>1. \A t \in Nat : Exited(t) => Exited(t)'
    BY <1>2, <1>3
  <2> QED
    BY <2>1, WorkersKept
<1> QED
  BY <1>1, <1>4, <1>5, <1>6 DEF IInv

LEMMA PassStepInv ==
    ASSUME IInv, TypeOK', NEW p \in Pipes, Pass(p)
    PROVE  IInv'
<1>1. ~giving[p]
  BY DEF Pass, IInv, PipesInOrder
<1> QED
  BY <1>1, PassInv DEF Pass, ctxs

\* A step that runs a handler of published task u, which is not finished, and
\* changes no other context and no stage.
LEMMA HandleSlots ==
    ASSUME IInv, TypeOK', NEW u \in Published, stages[Slot(u)] # AllOnes,
           op'[Slot(u)] > op[Slot(u)],
           \A r \in Slots \ {Slot(u)} : op'[r] = op[r],
           UNCHANGED <<nSubmitted, nCommitted, cpc, ctid, mNext, stages, sno,
                       wtid, wlast>>,
           \A w \in Workers : HasTask(w)' <=> HasTask(w),
           \A t \in Nat \ {u} :
               (Entered(t)' <=> Entered(t)) /\ (Exited(t)' <=> Exited(t)),
           \A t : t = u => Entered(t)' /\ (Exited(t)' <=> Exited(t))
    PROVE  /\ PublishedSlots' /\ VacantSlots'
           /\ \A t \in Published \ {u} : op'[Slot(t)] = op[Slot(t)]
<1>1. Published' = Published /\ Vacant' = Vacant
  BY IdsKept
<1>2. u \in Nat /\ nCommitted < u /\ u < nCommitted + BufferSize
  BY WindowIds
<1>3. /\ Slot(u) \in Slots /\ op[Slot(u)] \in Nat /\ op'[Slot(u)] \in Nat
  BY <1>2, SlotInRing DEF IInv, TypeOK
<1>4. \A t \in ((Published \union Vacant) \ {u}) \union {nCommitted} :
        Slot(t) # Slot(u) /\ Slot(t) \in Slots /\ t \in Nat
  BY <1>2, SlotsApart
<1>5. PublishedSlots'
  <2> SUFFICES ASSUME NEW t \in Published PROVE PublishedSlot(t)'
    BY <1>1 DEF PublishedSlots
  <2>1. PublishedSlot(t)
    BY DEF IInv, PublishedSlots
  <2>2. CASE t = u
    <3>1. op'[Slot(t)] > 0 /\ Entered(t)' /\ (Exited(t)' <=> Exited(t))
      BY <1>3, <2>2
    <3> QED
      BY <2>1, <2>2, <3>1 DEF PublishedSlot
  <2>3. CASE t # u
    <3>1. /\ op'[Slot(t)] = op[Slot(t)]
          /\ (Entered(t)' <=> Entered(t)) /\ (Exited(t)' <=> Exited(t))
      BY <1>4, <2>3
    <3> QED
      BY <2>1, <3>1 DEF PublishedSlot
  <2> QED
    BY <2>2, <2>3
<1>6. VacantSlots'
  <2>1. u \notin Vacant
    BY <1>2 DEF Vacant, Published, IInv, TypeOK
  <2>2. \A t \in Vacant : VacantSlot(t)'
    BY <1>4, <2>1 DEF IInv, VacantSlots, VacantSlot
  <2> QED
    BY <1>1, <1>4, <2>2 DEF IInv, VacantSlots
<1>7. \A t \in Published \ {u} : op'[Slot(t)] = op[Slot(t)]
  BY <1>4
<1> QED
  BY <1>5, <1>6, <1>7

\* A handler moves its own task on and no other.
LEMMA HandleOp ==
    ASSUME TypeOK, NEW s \in Slots, op[s] # DONE, Handle(s)
    PROVE  /\ \A r \in Slots \ {s} : op'[r] = op[r]
           /\ op'[s] > op[s] /\ op'[s] \in Nat
<1>1. op[s] \in 0..DONE /\ op \in [Slots -> 0..DONE]
  BY DEF TypeOK
<1>2. \A r \in Slots \ {s} : op'[r] = op[r]
  BY <1>1 DEF Handle
<1>3. op'[s] = DONE \/ op'[s] = op[s] + 1
  BY <1>1 DEF Handle
<1> QED
  BY <1>1, <1>2, <1>3, Constants

\* ENTRY and INNER run a handler of the id they pass on.
LEMMA RunInv ==
    ASSUME IInv, TypeOK', NEW p \in Pipes, EntryTask(p) \/ InnerTask(p)
    PROVE  IInv'
<1> USE DEF counters, workers, clients, monitor
<1> DEFINE u == Tid(p)
<1>1. /\ Ready(p) /\ Advance(p) /\ ~AtExit(p) /\ op[Slot(u)] # DONE
      /\ UNCHANGED <<counters, stages, sno, giving, workers, clients, monitor>>
  BY DEF EntryTask, InnerTask, AtExit
<1>2. ~giving'[p] /\ \A q \in Pipes \ {p} : giving'[q] = giving[q]
  BY <1>1 DEF IInv, PipesInOrder
<1>3. /\ u \in Nat /\ u \in Published /\ ~Exited(u) /\ ~stop
      /\ stages[Slot(u)] = 0 /\ Slot(u) \in Slots
  BY <1>1, ReadyId
<1>4. /\ CountersInOrder' /\ PipesInOrder' /\ ClientsInOrder' /\ StopInOrder'
      /\ Published' = Published
  BY <1>1, <1>2, <1>3, PipeFrame
<1>5. /\ \A t \in Nat \ {u} :
           (Entered(t)' <=> Entered(t)) /\ (Exited(t)' <=> Exited(t))
      /\ \A t : t = u => Entered(t)' /\ (Exited(t)' <=> Exited(t))
  BY <1>1, <1>2, <1>3, AdvanceOrder
<1>6. /\ op'[Slot(u)] > op[Slot(u)]
      /\ \A r \in Slots \ {Slot(u)} : op'[r] = op[r]
  <2>1. CASE InnerTask(p)
    BY <1>1, <1>3, <2>1, HandleOp DEF InnerTask, IInv
  <2>2. CASE EntryTask(p)
    <3>1. ~Entered(u) /\ op[Slot(u)] = 0
      BY <1>1, <1>3, <2>2, ReadyOrder
      DEF EntryTask, IInv, PublishedSlots, PublishedSlot
    <3> QED
      BY <1>3, <2>2, <3>1, Constants DEF EntryTask, IInv, TypeOK
  <2> QED
    BY <2>1, <2>2
<1>7. stages[Slot(u)] # AllOnes /\ \A w \in Workers : HasTask(w)' <=> HasTask(w)
  BY <1>1, <1>3, Constants DEF HasTask
<1>8. /\ PublishedSlots' /\ VacantSlots'
      /\ \A t \in Published \ {u} : op'[Slot(t)] = op[Slot(t)]
  BY <1>1, <1>3, <1>5, <1>6, <1>7, HandleSlots
<1>9. WorkersInOrder'
  <2>1. \A t \in Nat : Exited(t) => Exited(t)'
    BY <1>3, <1>5
  <2>2. \A w \in Workers : HasTask(w) => wtid[w] \in Published \ {u}
    BY <1>3, TaskId
  <2> QED
    BY <1>1, <1>8, <2>1, <2>2, WorkersKept
<1> QED
  BY <1>4, <1>8, <1>9 DEF IInv

\* EXIT runs its handler before it hands the id on.
LEMMA ExitRunInv ==
    ASSUME IInv, TypeOK', NEW p \in Pipes, ExitRun(p)
    PROVE  IInv'
<1> USE DEF counters, workers, clients, monitor
<1> DEFINE u == Tid(p)
<1>1. /\ Ready(p) /\ AtExit(p) /\ op[Slot(u)] # DONE /\ ~AtEntry(p)
      /\ UNCHANGED <<counters, stages, sno, pace, pdone, workers, clients,
                     monitor>>
  BY DEF ExitRun, AtExit
<1>2. /\ u \in Nat /\ u \in Published /\ ~Exited(u) /\ ~stop
      /\ stages[Slot(u)] = 0 /\ Slot(u) \in Slots /\ u <= nSubmitted
  <2>1. u \in Published /\ nSubmitted \in Nat
    BY <1>1, ReadyId DEF IInv, TypeOK
  <2> QED
    BY <1>1, <2>1, ReadyId DEF Published
<1>3. \A t : (Entered(t)' <=> Entered(t)) /\ (Exited(t)' <=> Exited(t))
  BY <1>1 DEF Entered, Exited
<1>4. Entered(u)
  BY <1>1, ReadyOrder
<1>5. Published' = Published /\ Vacant' = Vacant
  BY <1>1, IdsKept
<1>6. CountersInOrder'
  BY <1>1 DEF IInv, CountersInOrder
<1>7. PipesInOrder'
  <2>1. \A q \in Pipes : giving'[q] => q = p \/ giving[q]
    BY DEF ExitRun, IInv, TypeOK
  <2>2. \A q \in Pipes : Tid(q)' = Tid(q) /\ (AtExit(q)' <=> AtExit(q))
    BY <1>1 DEF Tid, AtExit, AtEntry
  <2> QED
    BY <1>1, <1>2, <2>1, <2>2 DEF IInv, PipesInOrder
<1>8. StopInOrder'
  BY <1>1, <1>2 DEF ExitRun, IInv, StopInOrder
<1>9. ClientsInOrder'
  BY <1>1, <1>5 DEF IInv, ClientsInOrder
<1>10. /\ op'[Slot(u)] > op[Slot(u)]
       /\ \A r \in Slots \ {Slot(u)} : op'[r] = op[r]
  BY <1>1, <1>2, HandleOp DEF ExitRun, IInv
<1>11. stages[Slot(u)] # AllOnes /\ \A w \in Workers : HasTask(w)' <=> HasTask(w)
  BY <1>1, <1>2, Constants DEF HasTask
<1>12. /\ PublishedSlots' /\ VacantSlots'
       /\ \A t \in Published \ {u} : op'[Slot(t)] = op[Slot(t)]
  BY <1>1, <1>2, <1>3, <1>4, <1>10, <1>11, HandleSlots
<1>13. WorkersInOrder'
  <2>1. \A w \in Workers : HasTask(w) => wtid[w] \in Published \ {u}
    BY <1>2, TaskId
  <2> QED
    BY <1>1, <1>3, <1>12, <2>1, WorkersKept
<1> QED
  BY <1>6, <1>7, <1>8, <1>9, <1>12, <1>13 DEF IInv

\* EXIT hands the id to an idle worker.
LEMMA ExitGiveInv ==
    ASSUME IInv, TypeOK', NEW p \in Pipes, ExitGive(p)
    PROVE  IInv'
<1> USE DEF counters, ctxs, clients, monitor
<1> DEFINE u == Tid(p)
<1>1. /\ Ready(p) /\ Advance(p) /\ giving[p]
      /\ UNCHANGED <<counters, stages, ctxs, clients, monitor>>
      /\ UNCHANGED <<wlast, wjob, wstage, wpc>>
  BY DEF ExitGive
<1>2. ~giving'[p] /\ \A q \in Pipes \ {p} : giving'[q] = giving[q]
  BY DEF ExitGive, IInv, TypeOK
<1>3. AtExit(p) /\ u <= nSubmitted
  BY <1>1 DEF IInv, PipesInOrder
<1>4. /\ u \in Nat /\ u \in Published /\ ~Exited(u) /\ ~stop /\ u > mNext
      /\ stages[Slot(u)] = 0
  <2>1. ~(u > nSubmitted)
    BY <1>1, <1>3, ReadyId DEF IInv, TypeOK
  <2> QED
    BY <1>1, <2>1, ReadyId
<1>5. PICK w \in avail : /\ avail' = avail \ {w}
                         /\ wtid' = [wtid EXCEPT ![w] = u]
  BY DEF ExitGive
<1>6. /\ w \in Workers /\ wtid'[w] = u
      /\ \A x \in Workers \ {w} : wtid'[x] = wtid[x]
      /\ \A x \in Workers : wtid[x] # NoTask
  BY <1>1, <1>2, <1>5, PipeFrame DEF IInv, TypeOK
<1>7. wlast[w] # u /\ u # NoTask
  <2>1. u >= 1
    BY <1>4 DEF IInv, TypeOK
  <2> QED
    BY <1>4, <1>6, <2>1, Constants DEF IInv, WorkersInOrder
<1>8. wpc[w] = "spin" /\ ~HasTask(w)
  BY <1>5, <1>6 DEF IInv, WorkersInOrder
<1>9. HasTask(w)' /\ \A x \in Workers \ {w} : HasTask(x)' <=> HasTask(x)
  BY <1>1, <1>6, <1>7, <1>8 DEF HasTask
<1>10. \A x \in Workers : wtid'[x] # NoTask
  BY <1>6, <1>7
<1>11. /\ CountersInOrder' /\ PipesInOrder' /\ ClientsInOrder' /\ StopInOrder'
       /\ Published' = Published /\ Vacant' = Vacant
  BY <1>1, <1>2, <1>4, <1>10, PipeFrame
<1>12. /\ \A t \in Nat \ {u} :
            (Entered(t)' <=> Entered(t)) /\ (Exited(t)' <=> Exited(t))
       /\ \A t : t = u => Entered(t)' /\ Exited(t)'
  BY <1>1, <1>2, <1>3, AdvanceOrder
<1>13. Entered(u)
  BY <1>1, <1>3, ReadyOrder DEF AtExit
<1>14. PublishedSlots'
  <2> SUFFICES ASSUME NEW t \in Published PROVE PublishedSlot(t)'
    BY <1>11 DEF PublishedSlots
  <2>1. PublishedSlot(t) /\ t \in Nat
    BY WindowIds DEF IInv, PublishedSlots
  <2>2. CASE t = u
    <3>1. \E x \in Workers : HasTask(x)' /\ wtid'[x] = t
      BY <1>6, <1>9, <2>2
    <3>2. Entered(t)' /\ Exited(t)' /\ Entered(t)
      BY <1>12, <1>13, <2>2
    <3> QED
      BY <1>1, <2>1, <3>1, <3>2 DEF PublishedSlot
  <2>3. CASE t # u
    <3>1. (Entered(t)' <=> Entered(t)) /\ (Exited(t)' <=> Exited(t))
      BY <1>12, <2>1, <2>3
    <3>2. (\E x \in Workers : HasTask(x) /\ wtid[x] = t)
            => (\E x \in Workers : HasTask(x)' /\ wtid'[x] = t)
      BY <1>6, <1>8, <1>9
    <3> QED
      BY <1>1, <2>1, <3>1, <3>2 DEF PublishedSlot
  <2> QED
    BY <2>2, <2>3
<1>15. VacantSlots'
  BY <1>1, <1>11 DEF IInv, VacantSlots, VacantSlot
<1>16. WorkersInOrder'
  <2>1. \A x \in Workers \ {w} : HasTask(x) => wtid[x] \in Nat /\ wtid[x] # u
    BY <1>4, TaskId
  <2>2. \A t \in Nat : Exited(t) => Exited(t)'
    BY <1>4, <1>12
  <2>3. \A x \in Workers : HasTask(x)' =>
         /\ wtid'[x] > mNext /\ wtid'[x] <= nSubmitted
         /\ Exited(wtid[x])' /\ stages[Slot(wtid'[x])] # AllOnes
    <3> SUFFICES ASSUME NEW x \in Workers, HasTask(x)'
                 PROVE  /\ wtid'[x] > mNext /\ wtid'[x] <= nSubmitted
                        /\ Exited(wtid[x])' /\ stages[Slot(wtid'[x])] # AllOnes
      OBVIOUS
    <3>1. CASE x = w
      <4>1. \A t : t = wtid'[x] => Exited(t)'
        BY <1>6, <1>12, <3>1
      <4>2. Exited(wtid[x])'
        BY <4>1 DEF Exited
      <4> QED
        BY <1>3, <1>4, <1>6, <3>1, <4>2, Constants
    <3>2. CASE x # w
      <4>1. /\ wtid[x] \in Nat /\ wtid'[x] = wtid[x] /\ HasTask(x)
            /\ wtid[x] > mNext /\ wtid[x] <= nSubmitted /\ Exited(wtid[x])
            /\ stages[Slot(wtid[x])] # AllOnes
        BY <1>6, <1>9, <2>1, <3>2 DEF IInv, WorkersInOrder
      <4>2. \A t \in Nat : t = wtid[x] => Exited(t)'
        BY <2>2, <4>1
      <4>3. \A t \in Nat : t = wtid'[x] => Exited(t)'
        BY <4>1, <4>2
      <4>4. Exited(wtid[x])'
        BY <4>1, <4>3 DEF Exited
      <4> QED
        BY <4>1, <4>4
    <3> QED
      BY <3>1, <3>2
  <2>4. \A x, y \in Workers :
         x # y /\ HasTask(x)' /\ HasTask(y)' => wtid'[x] # wtid'[y]
    BY <1>6, <1>9, <2>1 DEF IInv, WorkersInOrder
  <2>5. \A x \in Workers : Busy(x) => HasTask(x)' /\ wjob[x] = wtid'[x]
    BY <1>6, <1>8, <1>9 DEF IInv, WorkersInOrder, Busy
  <2>6. \A x \in Workers : wpc[x] = "push" =>
         wtid'[x] \in {NoTask, wjob[x]} /\ Exited(wjob[x])'
    <3> SUFFICES ASSUME NEW x \in Workers, wpc[x] = "push"
                 PROVE  wtid'[x] \in {NoTask, wjob[x]} /\ Exited(wjob[x])'
      OBVIOUS
    <3>1. wtid'[x] \in {NoTask, wjob[x]} /\ wjob[x] \in Nat
      BY <1>6, <1>8 DEF IInv, WorkersInOrder, TypeOK
    <3>2. \A t \in Nat : t = wjob[x] => Exited(t)'
      BY <2>2 DEF IInv, WorkersInOrder
    <3> QED
      BY <1>1, <3>1, <3>2 DEF Exited
  <2>7. \A x \in Workers : wlast[x] = 0 \/ Exited(wlast[x])'
    <3> SUFFICES ASSUME NEW x \in Workers, wlast[x] # 0
                 PROVE  Exited(wlast[x])'
      OBVIOUS
    <3>1. wlast[x] \in Nat
      BY DEF IInv, TypeOK
    <3>2. \A t \in Nat : t = wlast[x] => Exited(t)'
      BY <2>2 DEF IInv, WorkersInOrder
    <3> QED
      BY <1>1, <3>1, <3>2 DEF Exited
  <2>8. \A x \in Workers : wpc[x] = "exited" => wtid'[x] = NoTask
    BY <1>6, <1>8 DEF IInv, WorkersInOrder
  <2>9. \A x \in avail' : wpc[x] \in {"spin", "exited"} /\ ~HasTask(x)'
    BY <1>5, <1>9 DEF IInv, TypeOK, WorkersInOrder
  <2>10. /\ \A x \in Workers : wpc[x] = "spin" => wstage[x] = 1
         /\ \A x \in Workers : wpc[x] = "exec" => wstage[x] <= op[Slot(wjob[x])]
         /\ \A x \in Workers : wpc[x] = "store" => wstage[x] < op[Slot(wjob[x])]
    BY DEF IInv, WorkersInOrder
  <2>11. \A x \in Workers : Busy(x)' <=> Busy(x)
    BY <1>1 DEF Busy
  <2> QED
    BY <1>1, <2>3, <2>4, <2>5, <2>6, <2>7, <2>8, <2>9, <2>10, <2>11
    DEF WorkersInOrder
<1> QED
  BY <1>11, <1>14, <1>15, <1>16 DEF IInv

\* EXIT marks a finished task so for the monitor; once stop_ is set that
\* changes nothing.
LEMMA ExitDoneInv ==
    ASSUME IInv, TypeOK', NEW p \in Pipes, ExitDone(p)
    PROVE  IInv'
<1> USE DEF counters, ctxs, workers, clients, monitor
<1> DEFINE u == Tid(p)
<1>1. /\ Ready(p) /\ Advance(p) /\ AtExit(p) /\ ~giving[p] /\ op[Slot(u)] = DONE
      /\ stages' = [stages EXCEPT ![Slot(u)] = AllOnes]
      /\ UNCHANGED <<counters, ctxs, giving, workers, clients, monitor>>
  BY DEF ExitDone
<1>2. ~giving'[p] /\ \A q \in Pipes \ {p} : giving'[q] = giving[q]
  BY <1>1
<1>3. CASE stop
  <2>1. stages' = stages
    BY <1>1, <1>3, ReadyId DEF IInv, TypeOK
  <2> QED
    BY <1>1, <1>2, <1>3, <2>1, PassInv
<1>4. CASE ~stop
  <2>1. /\ u \in Nat /\ u > nCommitted /\ u < nCommitted + BufferSize
        /\ ~Exited(u) /\ u > mNext /\ Slot(u) \in Slots
    BY <1>1, <1>4, ReadyId
  <2>2. \A t \in ((Published \union Vacant) \ {u}) \union {nCommitted} :
          Slot(t) # Slot(u) /\ Slot(t) \in Slots /\ t \in Nat
    BY <2>1, SlotsApart
  <2>3. stages'[Slot(u)] = AllOnes /\ \A s \in Slots \ {Slot(u)} : stages'[s] = stages[s]
    BY <1>1, <2>1 DEF IInv, TypeOK
  <2>4. \A w \in Workers : wtid'[w] # NoTask
    BY <1>1, <1>2, PipeFrame
  <2>5. /\ CountersInOrder' /\ PipesInOrder' /\ ClientsInOrder' /\ StopInOrder'
        /\ Published' = Published /\ Vacant' = Vacant
    BY <1>1, <1>2, <1>4, <2>4, PipeFrame
  <2>6. /\ \A t \in Nat \ {u} :
             (Entered(t)' <=> Entered(t)) /\ (Exited(t)' <=> Exited(t))
        /\ \A t : t = u => Entered(t)' /\ Exited(t)'
    BY <1>1, <1>2, AdvanceOrder
  <2>7. Entered(u)
    BY <1>1, ReadyOrder DEF AtExit
  <2>8. PublishedSlots'
    <3> SUFFICES ASSUME NEW t \in Published PROVE PublishedSlot(t)'
      BY <2>5 DEF PublishedSlots
    <3>1. PublishedSlot(t) /\ t \in Nat
      BY WindowIds DEF IInv, PublishedSlots
    <3>2. CASE t = u
      <4>1. stages'[Slot(t)] = AllOnes /\ Entered(t)' /\ Entered(t) /\ Exited(t)'
        BY <2>3, <2>6, <2>7, <3>2
      <4> QED
        BY <1>1, <3>1, <3>2, <4>1 DEF PublishedSlot
    <3>3. CASE t # u
      <4>1. /\ stages'[Slot(t)] = stages[Slot(t)]
            /\ (Entered(t)' <=> Entered(t)) /\ (Exited(t)' <=> Exited(t))
        BY <2>2, <2>3, <2>6, <3>1, <3>3
      <4> QED
        BY <1>1, <3>1, <4>1 DEF PublishedSlot, HasTask
    <3> QED
      BY <3>2, <3>3
  <2>9. VacantSlots'
    <3>1. \A t \in Vacant : VacantSlot(t)'
      BY <1>1, <2>2, <2>3 DEF IInv, VacantSlots, VacantSlot
    <3> QED
      BY <1>1, <2>2, <2>3, <2>5, <3>1 DEF IInv, VacantSlots
  <2>10. WorkersInOrder'
    <3>1. \A t \in Nat : Exited(t) => Exited(t)'
      BY <2>1, <2>6
    <3>2. \A w \in Workers : HasTask(w) =>
            stages'[Slot(wtid[w])] = stages[Slot(wtid[w])]
      <4> SUFFICES ASSUME NEW w \in Workers, HasTask(w)
                   PROVE  stages'[Slot(wtid[w])] = stages[Slot(wtid[w])]
        OBVIOUS
      <4>1. wtid[w] \in Published /\ wtid[w] # u
        BY <2>1, TaskId
      <4> QED
        BY <2>2, <2>3, <4>1
    <3> QED
      BY <1>1, <3>1, <3>2, WorkersKept
  <2> QED
    BY <2>5, <2>8, <2>9, <2>10 DEF IInv
<1> QED
  BY <1>3, <1>4

\* Between two batches no id moves.
LEMMA BatchInv ==
    ASSUME IInv, TypeOK', NEW p \in Pipes, NextBatch(p) \/ Drain(p) \/ PipeExit(p)
    PROVE  IInv'
<1> USE DEF counters, ctxs, workers, clients, monitor
<1>1. /\ UNCHANGED <<counters, stages, ctxs, pace, pdone, giving, workers,
                     clients, monitor>>
      /\ \A q \in Pipes : phase[q] = "exited" => phase'[q] = "exited"
  BY DEF NextBatch, Drain, PipeExit, IInv, TypeOK
<1>2. Published' = Published /\ Vacant' = Vacant
  BY <1>1, IdsKept
<1>3. CountersInOrder' /\ PipesInOrder'
  BY <1>1 DEF IInv, CountersInOrder, PipesInOrder, AtExit, AtEntry, Tid
<1>4. StopInOrder'
  BY <1>1 DEF IInv, StopInOrder
<1>5. ClientsInOrder'
  BY <1>1, <1>2 DEF IInv, ClientsInOrder
<1>6. PublishedSlots'
  BY <1>1, <1>2
  DEF IInv, PublishedSlots, PublishedSlot, HasTask, Entered, Exited
<1>7. VacantSlots'
  BY <1>1, <1>2 DEF IInv, VacantSlots, VacantSlot
<1>8. WorkersInOrder'
  BY <1>1 DEF IInv, WorkersInOrder, HasTask, Busy, Exited
<1> QED
  BY <1>3, <1>4, <1>5, <1>6, <1>7, <1>8 DEF IInv

-------------------------------------------------------------------------------
(* Steps of workers *)

\* A worker in its loop is at the slot of its task.
LEMMA BusyId ==
    ASSUME IInv, NEW w \in Workers, Busy(w)
    PROVE  LET u == wjob[w] IN
           /\ HasTask(w) /\ u = wtid[w] /\ u \in Published /\ u \in Nat
           /\ nCommitted < u /\ u < nCommitted + BufferSize /\ ~stop
           /\ Exited(u) /\ Entered(u) /\ u > mNext
           /\ Slot(u) \in Slots /\ sno[Slot(u)] = u
           /\ op[Slot(u)] > 0 /\ stages[Slot(u)] # AllOnes
           /\ w \notin avail
<1>1. HasTask(w) /\ wjob[w] = wtid[w]
  BY DEF IInv, WorkersInOrder
<1>2. /\ wtid[w] \in Published /\ wtid[w] \in Nat /\ ~stop
      /\ nCommitted < wtid[w] /\ wtid[w] < nCommitted + BufferSize
      /\ Exited(wtid[w]) /\ Entered(wtid[w]) /\ sno[Slot(wtid[w])] = wtid[w]
      /\ op[Slot(wtid[w])] > 0 /\ Slot(wtid[w]) \in Slots
  BY <1>1, TaskId, SlotInRing
<1>3. wtid[w] > mNext /\ stages[Slot(wtid[w])] # AllOnes /\ w \notin avail
  BY <1>1 DEF IInv, WorkersInOrder
<1> QED
  BY <1>1, <1>2, <1>3

\* What a step of a worker leaves alone, whatever it is.
LEMMA WorkerFrame ==
    ASSUME IInv, TypeOK', UNCHANGED <<counters, sno, pipes, clients, monitor>>
    PROVE  /\ CountersInOrder' /\ PipesInOrder' /\ ClientsInOrder'
           /\ Published' = Published /\ Vacant' = Vacant
           /\ wtid' = wtid /\ (~stop \/ UNCHANGED <<op, stages>>) => StopInOrder'
           /\ \A t : (Entered(t)' <=> Entered(t)) /\ (Exited(t)' <=> Exited(t))
<1> USE DEF counters, pipes, clients, monitor
<1>1. Published' = Published /\ Vacant' = Vacant
  BY IdsKept
<1>2. CountersInOrder' /\ PipesInOrder'
  BY DEF IInv, CountersInOrder, PipesInOrder, AtExit, AtEntry, Tid
<1>3. ClientsInOrder'
  BY <1>1 DEF IInv, ClientsInOrder
<1>4. wtid' = wtid /\ (~stop \/ UNCHANGED <<op, stages>>) => StopInOrder'
  BY DEF IInv, StopInOrder
<1>5. \A t : (Entered(t)' <=> Entered(t)) /\ (Exited(t)' <=> Exited(t))
  BY DEF Entered, Exited
<1> QED
  BY <1>1, <1>2, <1>3, <1>4, <1>5

\* A worker that looks for a task, or joins workers_available_, or leaves.
LEMMA WorkerIdleInv ==
    ASSUME IInv, TypeOK', NEW w \in Workers,
           Take(w) \/ Push(w) \/ WorkerExit(w)
    PROVE  IInv'
<1> USE DEF counters, ctxs, pipes, clients, monitor
<1>1. /\ CountersInOrder' /\ PipesInOrder' /\ ClientsInOrder' /\ StopInOrder'
      /\ Published' = Published /\ Vacant' = Vacant
      /\ \A t : (Entered(t)' <=> Entered(t)) /\ (Exited(t)' <=> Exited(t))
  BY WorkerFrame DEF Take, Push, WorkerExit
<1>2. \A x \in Workers : HasTask(x)' <=> HasTask(x)
  BY DEF Take, Push, WorkerExit, HasTask, IInv, WorkersInOrder, TypeOK
<1>3. wtid' = wtid
  BY DEF Take, Push, WorkerExit
<1>4. PublishedSlots'
  BY <1>1, <1>2, <1>3
  DEF Take, Push, WorkerExit, IInv, PublishedSlots, PublishedSlot
<1>5. VacantSlots'
  BY <1>1 DEF Take, Push, WorkerExit, IInv, VacantSlots, VacantSlot
<1>6. WorkersInOrder'
  <2>1. ASSUME Take(w) PROVE WorkersInOrder'
    <3>1. HasTask(w)
      BY <2>1 DEF Take, HasTask
    <3>2. wstage[w] = 1 /\ op[Slot(wtid[w])] > 0 /\ op[Slot(wtid[w])] \in Nat
      <4>1. wtid[w] \in Nat /\ op[Slot(wtid[w])] > 0
        BY <3>1, TaskId
      <4>2. Slot(wtid[w]) \in Slots
        BY <4>1, SlotInRing
      <4>3. wstage[w] = 1
        BY <2>1 DEF Take, IInv, WorkersInOrder
      <4> QED
        BY <4>1, <4>2, <4>3 DEF IInv, TypeOK
    <3>3. w \notin avail
      BY <3>1 DEF IInv, WorkersInOrder
    <3> QED
      BY <1>2, <2>1, <3>1, <3>2, <3>3
      DEF Take, IInv, WorkersInOrder, Busy, Exited, TypeOK
  <2>2. ASSUME Push(w) PROVE WorkersInOrder'
    <3>1. ~HasTask(w)
      BY <2>2 DEF Push, HasTask
    <3> QED
      BY <1>2, <2>2, <3>1
      DEF Push, IInv, WorkersInOrder, Busy, Exited, TypeOK
  <2>3. ASSUME WorkerExit(w) PROVE WorkersInOrder'
    BY <1>2, <2>3 DEF WorkerExit, IInv, WorkersInOrder, Busy, Exited, TypeOK
  <2> QED
    BY <2>1, <2>2, <2>3
<1> QED
  BY <1>1, <1>4, <1>5, <1>6 DEF IInv

LEMMA ExecInv ==
    ASSUME IInv, TypeOK', NEW w \in Workers, Exec(w)
    PROVE  IInv'
<1> USE DEF counters, pipes, clients, monitor
<1> DEFINE u == wjob[w]
<1>1. /\ HasTask(w) /\ u = wtid[w] /\ u \in Published /\ u \in Nat
      /\ Entered(u) /\ stages[Slot(u)] # AllOnes /\ Slot(u) \in Slots
      /\ ~stop /\ w \notin avail
  BY BusyId DEF Exec, Busy
<1>2. /\ CountersInOrder' /\ PipesInOrder' /\ ClientsInOrder' /\ StopInOrder'
      /\ \A t : (Entered(t)' <=> Entered(t)) /\ (Exited(t)' <=> Exited(t))
  BY <1>1, WorkerFrame DEF Exec
<1>3. \A x \in Workers : HasTask(x)' <=> HasTask(x)
  BY DEF Exec, HasTask, IInv, TypeOK
<1>4. /\ op'[Slot(u)] > op[Slot(u)]
      /\ \A r \in Slots \ {Slot(u)} : op'[r] = op[r]
  BY <1>1, HandleOp DEF Exec, IInv
<1>5. /\ PublishedSlots' /\ VacantSlots'
      /\ \A t \in Published \ {u} : op'[Slot(t)] = op[Slot(t)]
  BY <1>1, <1>2, <1>3, <1>4, HandleSlots DEF Exec
<1>6. WorkersInOrder'
  <2>1. \A x \in Workers : Busy(x)' <=> Busy(x)
    BY DEF Exec, Busy, IInv, TypeOK
  <2>2. \A x \in Workers \ {w} : Busy(x) =>
          wpc'[x] = wpc[x] /\ wjob[x] \in Published \ {u}
    <3>1. \A x \in Workers \ {w} : Busy(x) =>
            wjob[x] = wtid[x] /\ wjob[x] \in Published /\ HasTask(x)
      BY BusyId
    <3> QED
      BY <1>1, <3>1 DEF Exec, IInv, WorkersInOrder, TypeOK
  <2>3. wstage[w] < op'[Slot(u)]
    BY <1>1, <1>4 DEF Exec, IInv, WorkersInOrder, TypeOK
  <2>4. \A x \in Workers :
          /\ wpc'[x] = "exec" => wstage[x] <= op'[Slot(wjob[x])]
          /\ wpc'[x] = "store" => wstage[x] < op'[Slot(wjob[x])]
    <3> SUFFICES ASSUME NEW x \in Workers
                 PROVE  /\ wpc'[x] = "exec" => wstage[x] <= op'[Slot(wjob[x])]
                        /\ wpc'[x] = "store" => wstage[x] < op'[Slot(wjob[x])]
      OBVIOUS
    <3>1. CASE x = w
      BY <2>3, <3>1 DEF Exec, IInv, TypeOK
    <3>2. CASE x # w /\ Busy(x)
      BY <1>5, <2>2, <3>2 DEF IInv, WorkersInOrder
    <3>3. CASE x # w /\ ~Busy(x)
      BY <3>3 DEF Exec, IInv, TypeOK, Busy
    <3> QED
      BY <3>1, <3>2, <3>3
  <2> QED
    BY <1>1, <1>3, <2>1, <2>4
    DEF Exec, IInv, WorkersInOrder, Exited, TypeOK
<1> QED
  BY <1>2, <1>5, <1>6 DEF IInv

\* A worker stores a stage of its own task, which is finished if the stage is
\* AllOnes.
LEMMA StageSlots ==
    ASSUME IInv, TypeOK', NEW w \in Workers, Busy(w), NEW n \in Nat,
           stages' = [stages EXCEPT ![Slot(wjob[w])] = n],
           n = AllOnes => op[Slot(wjob[w])] = DONE,
           n = AllOnes \/ HasTask(w)',
           \A x \in Workers \ {w} : HasTask(x)' <=> HasTask(x),
           UNCHANGED <<nSubmitted, nCommitted, cpc, ctid, mNext, pdone, op,
                       sno, wtid>>
    PROVE  /\ PublishedSlots' /\ VacantSlots'
           /\ \A x \in Workers \ {w} : HasTask(x) =>
                stages'[Slot(wtid[x])] = stages[Slot(wtid[x])]
<1> DEFINE u == wjob[w]
<1>1. /\ HasTask(w) /\ u = wtid[w] /\ u \in Published /\ u \in Nat
      /\ nCommitted < u /\ u < nCommitted + BufferSize
      /\ Exited(u) /\ u > mNext /\ Slot(u) \in Slots
  BY BusyId
<1>2. Published' = Published /\ Vacant' = Vacant
  BY IdsKept
<1>3. \A t \in ((Published \union Vacant) \ {u}) \union {nCommitted} :
        Slot(t) # Slot(u) /\ Slot(t) \in Slots /\ t \in Nat
  BY <1>1, SlotsApart
<1>4. stages'[Slot(u)] = n /\ \A s \in Slots \ {Slot(u)} : stages'[s] = stages[s]
  BY <1>1 DEF IInv, TypeOK
<1>5. PublishedSlots'
  <2> SUFFICES ASSUME NEW t \in Published PROVE PublishedSlot(t)'
    BY <1>2 DEF PublishedSlots
  <2>1. PublishedSlot(t)
    BY DEF IInv, PublishedSlots
  <2>2. (Entered(t)' <=> Entered(t)) /\ (Exited(t)' <=> Exited(t))
    BY DEF Entered, Exited
  <2>3. CASE t = u
    <3>1. Exited(t) /\ ~(u <= mNext)
      BY <1>1, <2>3 DEF IInv, TypeOK
    <3>2. n # AllOnes => \E x \in Workers : HasTask(x)' /\ wtid'[x] = u
      BY <1>1
    <3> QED
      BY <1>4, <2>1, <2>2, <2>3, <3>1, <3>2 DEF PublishedSlot
  <2>4. CASE t # u
    <3>1. stages'[Slot(t)] = stages[Slot(t)]
      BY <1>3, <1>4, <2>4
    <3>2. (\E x \in Workers : HasTask(x) /\ wtid[x] = t)
            => (\E x \in Workers : HasTask(x)' /\ wtid'[x] = t)
      BY <1>1, <2>4
    <3> QED
      BY <2>1, <2>2, <3>1, <3>2 DEF PublishedSlot
  <2> QED
    BY <2>3, <2>4
<1>6. VacantSlots'
  <2>1. u \notin Vacant
    BY <1>1 DEF Vacant, Published, IInv, TypeOK
  <2>2. \A t \in Vacant : VacantSlot(t)'
    BY <1>3, <1>4, <2>1 DEF IInv, VacantSlots, VacantSlot
  <2> QED
    BY <1>2, <1>3, <1>4, <2>2 DEF IInv, VacantSlots
<1>7. \A x \in Workers \ {w} : HasTask(x) =>
        stages'[Slot(wtid[x])] = stages[Slot(wtid[x])]
  <2>1. \A x \in Workers \ {w} : HasTask(x) => wtid[x] \in Published \ {u}
    BY <1>1, TaskId DEF IInv, WorkersInOrder
  <2> QED
    BY <1>3, <1>4, <2>1
<1> QED
  BY <1>5, <1>6, <1>7

LEMMA StoreStageInv ==
    ASSUME IInv, TypeOK', NEW w \in Workers, StoreStage(w)
    PROVE  IInv'
<1> USE DEF counters, ctxs, pipes, clients, monitor
<1> DEFINE u == wjob[w]
<1>1. /\ HasTask(w) /\ u = wtid[w] /\ Slot(u) \in Slots /\ sno[Slot(u)] = u
      /\ ~stop /\ w \notin avail
  BY BusyId DEF StoreStage, Busy
<1>2. /\ wstage[w] \in Nat /\ wstage[w] < op[Slot(u)]
      /\ op[Slot(u)] \in Nat /\ op[Slot(u)] <= DONE
  BY <1>1 DEF StoreStage, IInv, WorkersInOrder, TypeOK
<1>3. wstage[w] # AllOnes
  BY <1>2, Constants
<1>4. /\ CountersInOrder' /\ PipesInOrder' /\ ClientsInOrder' /\ StopInOrder'
  BY <1>1, WorkerFrame DEF StoreStage
<1>5. \A x \in Workers : HasTask(x)' <=> HasTask(x)
  BY DEF StoreStage, HasTask, IInv, TypeOK
<1>6. stages' = [stages EXCEPT ![Slot(u)] = wstage[w]]
  BY <1>1 DEF StoreStage
<1>7. /\ PublishedSlots' /\ VacantSlots'
      /\ \A x \in Workers \ {w} : HasTask(x) =>
           stages'[Slot(wtid[x])] = stages[Slot(wtid[x])]
  BY <1>1, <1>2, <1>3, <1>5, <1>6, StageSlots DEF StoreStage, Busy
<1>8. WorkersInOrder'
  <2>1. \A x \in Workers : HasTask(x) => stages'[Slot(wtid[x])] # AllOnes
    BY <1>1, <1>3, <1>6, <1>7 DEF IInv, WorkersInOrder, TypeOK
  <2>2. wstage'[w] = wstage[w] + 1 /\ wstage'[w] <= op[Slot(u)]
    BY <1>2 DEF StoreStage, IInv, TypeOK
  <2>3. \A x \in Workers : Busy(x)' <=> Busy(x)
    BY DEF StoreStage, Busy, IInv, TypeOK
  <2> QED
    BY <1>1, <1>5, <2>1, <2>2, <2>3
    DEF StoreStage, IInv, WorkersInOrder, Exited, TypeOK
<1> QED
  BY <1>4, <1>7, <1>8 DEF IInv

LEMMA FinishInv ==
    ASSUME IInv, TypeOK', NEW w \in Workers, Finish(w)
    PROVE  IInv'
<1> USE DEF counters, ctxs, pipes, clients, monitor
<1> DEFINE u == wjob[w]
<1>1. /\ HasTask(w) /\ u = wtid[w] /\ sno[Slot(u)] = u
      /\ Exited(wjob[w]) /\ ~stop /\ w \notin avail
  BY BusyId DEF Finish, Busy
<1>2. /\ CountersInOrder' /\ PipesInOrder' /\ ClientsInOrder' /\ StopInOrder'
  BY <1>1, WorkerFrame DEF Finish
<1>3. ~HasTask(w)' /\ \A x \in Workers \ {w} : HasTask(x)' <=> HasTask(x)
  BY DEF Finish, HasTask, IInv, TypeOK
<1>4. stages' = [stages EXCEPT ![Slot(u)] = AllOnes]
  BY <1>1 DEF Finish
<1>5. /\ PublishedSlots' /\ VacantSlots'
      /\ \A x \in Workers \ {w} : HasTask(x) =>
           stages'[Slot(wtid[x])] = stages[Slot(wtid[x])]
  BY <1>3, <1>4, StageSlots, Constants DEF Finish, Busy
<1>6. WorkersInOrder'
  <2>1. ~Busy(w)' /\ \A x \in Workers \ {w} : Busy(x)' <=> Busy(x)
    BY DEF Finish, Busy, IInv, TypeOK
  <2> QED
    BY <1>1, <1>3, <1>5, <2>1
    DEF Finish, IInv, WorkersInOrder, Exited, TypeOK
<1> QED
  BY <1>2, <1>5, <1>6 DEF IInv

-------------------------------------------------------------------------------
(* Steps of the monitor and of the destructor *)

\* What holds of the slots, the pipes and the workers is not the monitor's to
\* change, while nCommitted and mNext stay.
LEMMA MonitorFrame ==
    ASSUME IInv, UNCHANGED <<nSubmitted, nCommitted, stages, ctxs, pipes,
                             workers, clients, mNext>>
    PROVE  /\ Published' = Published /\ Vacant' = Vacant
           /\ PipesInOrder' /\ PublishedSlots' /\ VacantSlots' /\ WorkersInOrder'
<1> USE DEF ctxs, pipes, workers, clients
<1>1. Published' = Published /\ Vacant' = Vacant
  BY IdsKept
<1>2. PipesInOrder'
  BY DEF IInv, PipesInOrder, AtExit, AtEntry, Tid
<1>3. PublishedSlots'
  BY <1>1 DEF IInv, PublishedSlots, PublishedSlot, HasTask, Entered, Exited
<1>4. VacantSlots'
  BY <1>1 DEF IInv, VacantSlots, VacantSlot
<1>5. WorkersInOrder'
  BY DEF IInv, WorkersInOrder, HasTask, Busy, Exited
<1> QED
  BY <1>1, <1>2, <1>3, <1>4, <1>5

LEMMA ReadCountersInv == IInv /\ TypeOK' /\ ReadCounters => IInv'
<1> SUFFICES ASSUME IInv, TypeOK', ReadCounters PROVE IInv'
  OBVIOUS
<1> USE DEF counters, ctxs, pipes, workers, clients
<1>1. /\ Published' = Published /\ PipesInOrder'
      /\ PublishedSlots' /\ VacantSlots' /\ WorkersInOrder'
  BY MonitorFrame DEF ReadCounters
<1>2. CountersInOrder'
  BY DEF ReadCounters, IInv, CountersInOrder, TypeOK
<1>3. StopInOrder'
  BY DEF ReadCounters, IInv, StopInOrder
<1>4. ClientsInOrder'
  BY <1>1 DEF ReadCounters, IInv, ClientsInOrder
<1> QED
  BY <1>1, <1>2, <1>3, <1>4 DEF IInv

LEMMA ScanInitedInv == IInv /\ TypeOK' /\ ScanInited => IInv'
<1> SUFFICES ASSUME IInv, TypeOK', ScanInited PROVE IInv'
  OBVIOUS
<1> USE DEF counters, ctxs, pipes, workers, clients
<1> DEFINE t == mInited + 1
<1>1. /\ Published' = Published /\ PipesInOrder'
      /\ PublishedSlots' /\ VacantSlots' /\ WorkersInOrder'
  BY MonitorFrame DEF ScanInited
<1>2. /\ t \in Nat /\ mInited \in Nat /\ nCommitted \in Nat /\ mSub \in Nat
      /\ nSubmitted \in Nat /\ mNext \in Nat /\ nInited \in Nat
  BY DEF IInv, TypeOK
<1>3. /\ t <= nSubmitted /\ nCommitted < t /\ stages[Slot(t)] = 0
      /\ mNext <= mInited
  BY <1>2 DEF ScanInited, InitedNext, IInv, CountersInOrder
<1>4. t <= nCommitted + BufferSize
  <2>1. CASE mInited = nCommitted
    BY <2>1, <1>2, Constants
  <2>2. CASE mInited # nCommitted
    <3>1. nCommitted < mInited
      BY <2>2, <1>2, <1>3
    <3>2. mInited < nCommitted + BufferSize
      BY <3>1, <1>2, InitedPublished
    <3> QED
      BY <3>2, <1>2, Constants
  <2> QED
    BY <2>1, <2>2
<1>5. ~Held(t)
  <2> SUFFICES ASSUME Held(t) PROVE FALSE
    OBVIOUS
  <2>1. CASE t < nCommitted + BufferSize
    <3>1. t \in Vacant
      BY <2>1, <1>2, <1>3, Constants DEF Vacant
    <3> QED
      BY <3>1, <1>3, Constants DEF IInv, VacantSlots, VacantSlot
  <2>2. CASE t = nCommitted + BufferSize
    <3>1. Slot(t) = Slot(nCommitted)
      BY <2>2, <1>2, SlotWraps
    <3> QED
      BY <3>1, <1>3, Constants DEF IInv, VacantSlots
  <2> QED
    BY <2>1, <2>2, <1>2, <1>4, Constants
<1>6. \A c \in Clients : cpc[c] # "idle" => ctid[c] > t
  <2>1. \A c \in Clients : cpc[c] # "idle" => ctid[c] > mInited /\ ctid[c] \in Nat
    BY DEF IInv, ClientsInOrder, TypeOK
  <2>2. \A c \in Clients : cpc[c] # "idle" => ctid[c] # t
    BY <1>5 DEF Held
  <2> QED
    BY <1>2, <2>1, <2>2
<1>7. CountersInOrder'
  <2>1. (mpc # "exited" => nInited <= t) /\ mNext <= t
    BY <1>2, <1>3 DEF IInv, CountersInOrder
  <2> QED
    BY <1>3, <2>1 DEF ScanInited, IInv, CountersInOrder
<1>8. StopInOrder'
  BY DEF ScanInited, IInv, StopInOrder
<1>9. ClientsInOrder'
  BY <1>1, <1>6 DEF ScanInited, IInv, ClientsInOrder
<1> QED
  BY <1>1, <1>7, <1>8, <1>9 DEF IInv

LEMMA AdvanceInitedInv == IInv /\ TypeOK' /\ AdvanceInited => IInv'
<1> SUFFICES ASSUME IInv, TypeOK', AdvanceInited PROVE IInv'
  OBVIOUS
<1> USE DEF counters, ctxs, pipes, workers, clients
<1>1. /\ Published' = Published /\ PipesInOrder'
      /\ PublishedSlots' /\ VacantSlots' /\ WorkersInOrder'
  BY MonitorFrame DEF AdvanceInited
<1>2. CountersInOrder'
  <2>1. \A p \in Pipes : pdone[p] <= mInited
    BY DEF AdvanceInited, IInv, CountersInOrder, TypeOK
  <2> QED
    BY <2>1 DEF AdvanceInited, IInv, CountersInOrder, TypeOK
<1>3. StopInOrder'
  BY DEF AdvanceInited, IInv, StopInOrder
<1>4. ClientsInOrder'
  BY <1>1 DEF AdvanceInited, IInv, ClientsInOrder
<1> QED
  BY <1>1, <1>2, <1>3, <1>4 DEF IInv

\* What the monitor finds finished has been through all pipes.
LEMMA ScanCommittedInv == IInv /\ TypeOK' /\ ScanCommitted => IInv'
<1> SUFFICES ASSUME IInv, TypeOK', ScanCommitted PROVE IInv'
  OBVIOUS
<1> USE DEF counters, ctxs, pipes, workers, clients
<1> DEFINE u == mNext + 1
<1>1. /\ u \in Nat /\ mNext \in Nat /\ mInited \in Nat /\ nCommitted \in Nat
      /\ u <= mInited /\ nCommitted < u /\ stages[Slot(u)] = AllOnes
  BY DEF ScanCommitted, CommittedNext, IInv, CountersInOrder, TypeOK
<1>2. u \in Published
  BY <1>1, InitedPublished
<1>3. Exited(u)
  BY <1>1, <1>2, Constants DEF IInv, PublishedSlots, PublishedSlot
<1>4. Published' = Published /\ Vacant' = Vacant
  BY IdsKept DEF ScanCommitted
<1>5. CountersInOrder'
  BY <1>1, <1>3 DEF ScanCommitted, IInv, CountersInOrder, Exited
<1>6. PipesInOrder'
  BY DEF ScanCommitted, IInv, PipesInOrder, AtExit, AtEntry, Tid
<1>7. StopInOrder'
  BY DEF ScanCommitted, IInv, StopInOrder
<1>8. ClientsInOrder'
  BY <1>4 DEF ScanCommitted, IInv, ClientsInOrder
<1>9. PublishedSlots'
  <2> SUFFICES ASSUME NEW t \in Published PROVE PublishedSlot(t)'
    BY <1>4 DEF PublishedSlots
  <2>1. PublishedSlot(t) /\ t \in Nat
    BY WindowIds DEF IInv, PublishedSlots
  <2>2. t <= mNext' => t <= mNext \/ t = u
    BY <1>1, <2>1 DEF ScanCommitted
  <2>3. (Entered(t)' <=> Entered(t)) /\ (Exited(t)' <=> Exited(t))
    BY DEF ScanCommitted, Entered, Exited
  <2> QED
    BY <1>1, <2>1, <2>2, <2>3 DEF PublishedSlot, ScanCommitted, HasTask
<1>10. VacantSlots'
  BY <1>4 DEF ScanCommitted, IInv, VacantSlots, VacantSlot
<1>11. WorkersInOrder'
  <2>1. \A w \in Workers : HasTask(w) => wtid[w] > u
    BY <1>1, TaskId DEF IInv, WorkersInOrder
  <2> QED
    BY <2>1 DEF ScanCommitted, IInv, WorkersInOrder, HasTask, Busy, Exited
<1> QED
  BY <1>5, <1>6, <1>7, <1>8, <1>9, <1>10, <1>11 DEF IInv

LEMMA PreStoreInv == IInv /\ TypeOK' /\ (NothingCommitted \/ StoreRoot) => IInv'
<1> SUFFICES ASSUME IInv, TypeOK', NothingCommitted \/ StoreRoot PROVE IInv'
  OBVIOUS
<1> USE DEF counters, ctxs, pipes, workers, clients
<1>1. /\ Published' = Published /\ PipesInOrder'
      /\ PublishedSlots' /\ VacantSlots' /\ WorkersInOrder'
  BY MonitorFrame DEF NothingCommitted, StoreRoot
<1>2. CountersInOrder'
  BY DEF NothingCommitted, StoreRoot, IInv, CountersInOrder
<1>3. StopInOrder'
  BY DEF NothingCommitted, StoreRoot, IInv, StopInOrder
<1>4. ClientsInOrder'
  BY <1>1 DEF NothingCommitted, StoreRoot, IInv, ClientsInOrder
<1> QED
  BY <1>1, <1>2, <1>3, <1>4 DEF IInv

\* n_committed_ moves the window: the slots it leaves are finished, and free.
LEMMA StoreCommittedInv == IInv /\ TypeOK' /\ StoreCommitted => IInv'
<1> SUFFICES ASSUME IInv, TypeOK', StoreCommitted PROVE IInv'
  OBVIOUS
<1> USE DEF ctxs, pipes, workers, clients
<1>1. /\ nCommitted \in Nat /\ mNext \in Nat /\ mInited \in Nat
      /\ nSubmitted \in Nat
      /\ nCommitted <= mNext /\ mNext <= mInited /\ nCommitted' = mNext
      /\ mNext <= nSubmitted
  BY DEF StoreCommitted, IInv, CountersInOrder, TypeOK
<1>2. \A t \in Nat : Held(t)' <=> Held(t)
  BY DEF Held, StoreCommitted
<1>3. Published' \subseteq Published
  BY <1>1, <1>2 DEF Published, StoreCommitted
<1>4. \A t \in nCommitted..mNext :
        stages[Slot(t)] = AllOnes /\ op[Slot(t)] = DONE
  <2> SUFFICES ASSUME NEW t \in nCommitted..mNext
               PROVE  stages[Slot(t)] = AllOnes /\ op[Slot(t)] = DONE
    OBVIOUS
  <2>1. CASE t = nCommitted
    BY <2>1 DEF IInv, VacantSlots
  <2>2. CASE t # nCommitted
    <3>1. t \in Nat /\ nCommitted < t /\ t <= mInited /\ t <= mNext
      BY <2>2, <1>1
    <3>2. PublishedSlot(t)
      BY <3>1, InitedPublished DEF IInv, PublishedSlots
    <3> QED
      BY <3>1, <3>2 DEF PublishedSlot
  <2> QED
    BY <2>1, <2>2
<1>5. CountersInOrder'
  BY <1>1 DEF StoreCommitted, IInv, CountersInOrder
<1>6. PipesInOrder'
  BY DEF StoreCommitted, IInv, PipesInOrder, AtExit, AtEntry, Tid
<1>7. StopInOrder'
  <2>1. stop => nCommitted' = nSubmitted
    BY <1>1 DEF IInv, StopInOrder
  <2> QED
    BY <2>1 DEF StoreCommitted, IInv, StopInOrder
<1>8. ClientsInOrder'
  <2>1. \A t \in Published : t \in Nat /\ t < nCommitted + BufferSize
    BY WindowIds
  <2>2. \A t \in Published' : t < nCommitted' + BufferSize
    BY <1>1, <1>3, <2>1, Constants
  <2>3. \A c \in Clients :
          cpc[c] = "publish" => ctid[c] < nCommitted' + BufferSize
    BY <1>1, Constants DEF IInv, ClientsInOrder, TypeOK
  <2> QED
    BY <2>2, <2>3 DEF StoreCommitted, IInv, ClientsInOrder
<1>9. PublishedSlots'
  BY <1>3
  DEF StoreCommitted, IInv, PublishedSlots, PublishedSlot, HasTask, Entered,
      Exited
<1>10. VacantSlots'
  <2>1. stages[Slot(mNext)] = AllOnes /\ op[Slot(mNext)] = DONE
    BY <1>1, <1>4
  <2>2. ASSUME NEW t \in Vacant' PROVE VacantSlot(t)'
    <3>1. /\ t \in Nat /\ mNext < t /\ t < mNext + BufferSize
          /\ t > nSubmitted \/ Held(t)
      BY <1>1, <1>2, Constants DEF Vacant, StoreCommitted
    <3>2. CASE t < nCommitted + BufferSize
      <4>1. t \in Vacant
        BY <3>1, <3>2, <1>1, Constants DEF Vacant
      <4> QED
        BY <4>1 DEF StoreCommitted, IInv, VacantSlots, VacantSlot
    <3>3. CASE t >= nCommitted + BufferSize
      <4> DEFINE u == t - BufferSize
      <4>1. u \in nCommitted..mNext /\ u \in Nat /\ t = u + BufferSize
        BY <3>1, <3>3, <1>1, Constants
      <4>2. Slot(t) = Slot(u)
        BY <4>1, SlotWraps
      <4>3. \A c \in Clients : cpc[c] = "publish" => ctid[c] # t
        BY <3>1, <3>3, <1>1, Constants DEF IInv, ClientsInOrder, TypeOK
      <4>4. stages[Slot(t)] = AllOnes /\ op[Slot(t)] = DONE
        BY <4>1, <4>2, <1>4
      <4> QED
        BY <4>3, <4>4 DEF StoreCommitted, VacantSlot
    <3> QED
      BY <3>1, <3>2, <3>3, <1>1, Constants
  <2> QED
    BY <1>1, <2>1, <2>2 DEF StoreCommitted, IInv, VacantSlots
<1>11. WorkersInOrder'
  BY DEF StoreCommitted, IInv, WorkersInOrder, HasTask, Busy, Exited
<1> QED
  BY <1>5, <1>6, <1>7, <1>8, <1>9, <1>10, <1>11 DEF IInv

LEMMA AppendBubblesInv == IInv /\ TypeOK' /\ AppendBubbles => IInv'
<1> SUFFICES ASSUME IInv, TypeOK', AppendBubbles PROVE IInv'
  OBVIOUS
<1> USE DEF counters, ctxs, pipes, workers, clients
<1>1. /\ Published' = Published /\ PipesInOrder'
      /\ PublishedSlots' /\ VacantSlots' /\ WorkersInOrder'
  BY MonitorFrame DEF AppendBubbles
<1>2. mInited \in Nat /\ Margin(mInited) \in Nat /\ nInited \in Nat
  BY RoundUpType DEF IInv, TypeOK
<1>3. nInited <= nInited' /\ stop
  BY <1>2 DEF AppendBubbles, IInv, CountersInOrder, StopInOrder
<1>4. CountersInOrder'
  <2>1. \A p \in Pipes : pdone[p] <= nInited'
    BY <1>3 DEF IInv, CountersInOrder, TypeOK
  <2> QED
    BY <2>1 DEF AppendBubbles, IInv, CountersInOrder
<1>5. StopInOrder'
  BY <1>3 DEF AppendBubbles, IInv, StopInOrder
<1>6. ClientsInOrder'
  BY <1>1 DEF AppendBubbles, IInv, ClientsInOrder
<1> QED
  BY <1>1, <1>4, <1>5, <1>6 DEF IInv

\* stop_ is set when every slot of the ring is finished.
LEMMA StopInv == IInv /\ TypeOK' /\ Stop => IInv'
<1> SUFFICES ASSUME IInv, TypeOK', Stop PROVE IInv'
  OBVIOUS
<1> USE DEF counters, ctxs, pipes, workers, clients, monitor
<1>1. /\ Published' = Published /\ PipesInOrder'
      /\ PublishedSlots' /\ VacantSlots' /\ WorkersInOrder'
  BY MonitorFrame DEF Stop
<1>2. /\ nCommitted = nSubmitted /\ nCommitted \in Nat
      /\ \A c \in Clients : cpc[c] = "idle"
  BY DEF Stop, IInv, CountersInOrder, TypeOK
<1>3. ASSUME NEW s \in Slots PROVE op[s] = DONE /\ stages[s] = AllOnes
  <2>1. PICK t \in nCommitted..(nCommitted + BufferSize - 1) : Slot(t) = s
    BY <1>2, SlotCovered
  <2>2. CASE t = nCommitted
    BY <2>1, <2>2 DEF IInv, VacantSlots
  <2>3. CASE t # nCommitted
    <3>1. t \in Vacant
      BY <1>2, <2>1, <2>3, Constants DEF Vacant
    <3> QED
      BY <1>2, <2>1, <3>1 DEF IInv, VacantSlots, VacantSlot
  <2> QED
    BY <2>2, <2>3
<1>4. CountersInOrder'
  BY DEF Stop, IInv, CountersInOrder
<1>5. StopInOrder'
  BY <1>2, <1>3 DEF Stop, IInv, StopInOrder
<1>6. ClientsInOrder'
  BY <1>1 DEF Stop, IInv, ClientsInOrder
<1> QED
  BY <1>1, <1>4, <1>5, <1>6 DEF IInv

\* When the destructor tells the workers to leave, none has a task.
LEMMA StopWorkersInv == IInv /\ TypeOK' /\ StopWorkers => IInv'
<1> SUFFICES ASSUME IInv, TypeOK', StopWorkers PROVE IInv'
  OBVIOUS
<1> USE DEF counters, ctxs, pipes, clients, monitor
<1>1. Published' = Published /\ Vacant' = Vacant
  BY IdsKept DEF StopWorkers
<1>2. Published = {}
  BY DEF StopWorkers, IInv, StopInOrder, TypeOK, Published
<1>3. \A w \in Workers : ~HasTask(w) /\ ~Busy(w)
  BY <1>2, TaskId DEF IInv, WorkersInOrder
<1>4. \A w \in Workers : wtid'[w] = NoTask /\ ~HasTask(w)'
  BY DEF StopWorkers, HasTask
<1>5. CountersInOrder' /\ PipesInOrder'
  BY DEF StopWorkers, IInv, CountersInOrder, PipesInOrder, AtExit, AtEntry, Tid
<1>6. StopInOrder'
  BY DEF StopWorkers, IInv, StopInOrder
<1>7. ClientsInOrder'
  BY <1>1 DEF StopWorkers, IInv, ClientsInOrder
<1>8. PublishedSlots'
  BY <1>1, <1>2 DEF PublishedSlots
<1>9. VacantSlots'
  BY <1>1 DEF StopWorkers, IInv, VacantSlots, VacantSlot
<1>10. WorkersInOrder'
  BY <1>3, <1>4 DEF StopWorkers, IInv, WorkersInOrder, Busy, Exited, TypeOK
<1> QED
  BY <1>5, <1>6, <1>7, <1>8, <1>9, <1>10 DEF IInv

-------------------------------------------------------------------------------
(* The invariant *)

LEMMA InitInv == Init => IInv
<1> SUFFICES ASSUME Init PROVE IInv
  OBVIOUS
<1>1. TypeOK
  BY InitType
<1>2. \A t : ~Held(t)
  BY DEF Init, Held
<1>3. Published = {} /\ \A t \in Vacant : t \in Nat
  BY Constants DEF Init, Published, Vacant
<1>4. \A s \in Slots : stages[s] = AllOnes /\ op[s] = DONE
  BY DEF Init
<1>5. CountersInOrder
  BY DEF Init, CountersInOrder
<1>6. PipesInOrder
  <2>1. \A p \in Pipes : NextPipe(p) \in Pipes
    BY NextPipeIs
  <2> QED
    BY <2>1 DEF Init, PipesInOrder
<1>7. \A w \in Workers :
        wtid[w] = 0 /\ wlast[w] = 0 /\ wpc[w] = "spin" /\ wstage[w] = 1
  BY DEF Init
<1>8. NoTask # 0
  BY DEF NoTask
<1>9. StopInOrder
  BY <1>7, <1>8 DEF Init, StopInOrder
<1>10. ClientsInOrder
  BY <1>3 DEF Init, ClientsInOrder
<1>11. PublishedSlots
  BY <1>3 DEF PublishedSlots
<1>12. VacantSlots
  <2>1. Slot(nCommitted) \in Slots
    <3>1. nCommitted \in Nat
      BY <1>1 DEF TypeOK
    <3> QED
      BY <3>1, SlotInRing
  <2>2. \A t \in Vacant : Slot(t) \in Slots
    BY <1>3, SlotInRing
  <2>3. \A c \in Clients : cpc[c] # "publish"
    BY DEF Init
  <2> QED
    BY <1>4, <2>1, <2>2, <2>3 DEF VacantSlots, VacantSlot
<1>13. WorkersInOrder
  <2>1. \A w \in Workers : ~HasTask(w) /\ ~Busy(w)
    BY <1>7 DEF HasTask, Busy
  <2>2. avail \subseteq Workers
    BY DEF Init
  <2> QED
    BY <1>7, <2>1, <2>2 DEF WorkersInOrder
<1> QED
  BY <1>1, <1>5, <1>6, <1>9, <1>10, <1>11, <1>12, <1>13 DEF IInv

LEMMA StutterInv == IInv /\ UNCHANGED vars => IInv'
<1> SUFFICES ASSUME IInv, UNCHANGED vars PROVE IInv'
  OBVIOUS
<1> USE DEF vars, counters, ctxs, pipes, workers, clients, monitor
<1>1. TypeOK'
  BY DEF IInv, TypeOK
<1>2. /\ Published' = Published /\ PipesInOrder'
      /\ PublishedSlots' /\ VacantSlots' /\ WorkersInOrder'
  BY MonitorFrame
<1>3. CountersInOrder' /\ StopInOrder'
  BY DEF IInv, CountersInOrder, StopInOrder
<1>4. ClientsInOrder'
  BY <1>2 DEF IInv, ClientsInOrder
<1> QED
  BY <1>1, <1>2, <1>3, <1>4 DEF IInv

LEMMA StepInv == IInv /\ [Next]_vars => IInv'
<1> SUFFICES ASSUME IInv, [Next]_vars PROVE IInv'
  OBVIOUS
<1>1. TypeOK'
  BY StepType DEF IInv
<1>2. ASSUME NEW c \in Clients, Claim(c) \/ Submitting(c) PROVE IInv'
  BY <1>1, <1>2, ClaimInv, WriteInv, PublishInv DEF Submitting
<1>3. ASSUME NEW p \in Pipes, Pipe(p) PROVE IInv'
  BY <1>1, <1>3, RunInv, PassStepInv, ExitRunInv, ExitGiveInv, ExitDoneInv,
     BatchInv DEF Pipe
<1>4. ASSUME NEW w \in Workers, Worker(w) PROVE IInv'
  BY <1>1, <1>4, WorkerIdleInv, ExecInv, StoreStageInv, FinishInv DEF Worker
<1>5. ASSUME Monitor PROVE IInv'
  BY <1>1, <1>5, ReadCountersInv, ScanInitedInv, AdvanceInitedInv,
     ScanCommittedInv, PreStoreInv, StoreCommittedInv, AppendBubblesInv
  DEF Monitor
<1> QED
  BY <1>1, <1>2, <1>3, <1>4, <1>5, StopInv, StopWorkersInv, StutterInv DEF Next

\* The inductive invariant holds: the ids of the window are where the
\* counters, the order of the pipes and the workers agree they are.
THEOREM Invariance == Spec => []IInv
<1>1. Init => IInv
  BY InitInv
<1>2. IInv /\ [Next]_vars => IInv'
  BY StepInv
<1> QED
  BY <1>1, <1>2, PTL DEF Spec

-------------------------------------------------------------------------------
(* What follows from the invariant *)

LEMMA IInvSlotExclusive == IInv => SlotExclusive
<1> SUFFICES ASSUME IInv, NEW c \in Clients, Writing(c)
             PROVE  LET s == Slot(ctid[c]) IN
                    /\ \A d \in Clients \ {c} : Writing(d) => Slot(ctid[d]) # s
                    /\ \A p \in Pipes : Ready(p) =>
                          /\ Slot(Tid(p)) # s
                          /\ AtEntry(p) /\ op[Slot(Tid(p))] # DONE =>
                                Slot(Tid(p) - 1) # s
                    /\ \A w \in Workers : HasTask(w) => Slot(wtid[w]) # s
                    /\ \A t \in (nCommitted + 1)..mInited : Slot(t) # s
  BY DEF SlotExclusive
<1> DEFINE u == ctid[c]
<1>1. TypeOK /\ nCommitted \in Nat /\ mInited \in Nat /\ nSubmitted \in Nat
  BY DEF IInv, TypeOK
<1>2. \A d \in Clients : Writing(d) =>
        /\ cpc[d] # "idle" /\ ctid[d] \in Nat
        /\ ctid[d] > nCommitted /\ ctid[d] < nCommitted + BufferSize
  <2> SUFFICES ASSUME NEW d \in Clients, Writing(d)
               PROVE  /\ cpc[d] # "idle" /\ ctid[d] \in Nat
                      /\ ctid[d] > nCommitted
                      /\ ctid[d] < nCommitted + BufferSize
    OBVIOUS
  <2>1. cpc[d] # "idle" /\ ~(ctid[d] >= nCommitted + BufferSize)
    BY DEF Writing, BufferFull
  <2> QED
    BY <1>1, <2>1, ClaimedId, Constants
<1>3. /\ u \in Nat /\ u > mInited /\ Held(u) /\ ~stop /\ mpc # "exited"
      /\ u > nCommitted /\ u < nCommitted + BufferSize
  BY <1>2, ClaimedId
<1>4. ASSUME NEW t \in Nat, t # u, nCommitted <= t, t < nCommitted + BufferSize
      PROVE  Slot(t) # Slot(u)
  BY <1>1, <1>3, <1>4, OtherSlot
<1>5. ASSUME NEW d \in Clients \ {c}, Writing(d) PROVE Slot(ctid[d]) # Slot(u)
  <2>1. /\ cpc[d] # "idle" /\ ctid[d] \in Nat /\ ctid[d] > nCommitted
        /\ ctid[d] < nCommitted + BufferSize
    BY <1>2, <1>5
  <2>2. ctid[d] # u
    BY <1>2, <2>1 DEF IInv, ClientsInOrder
  <2> QED
    BY <1>1, <1>4, <2>1, <2>2
<1>6. ASSUME NEW p \in Pipes, Ready(p)
      PROVE  Slot(Tid(p)) # Slot(u) /\ Slot(Tid(p) - 1) # Slot(u)
  <2>1. /\ Tid(p) \in Nat /\ Tid(p) > nCommitted /\ Tid(p) <= mInited
        /\ Tid(p) < nCommitted + BufferSize
    BY <1>3, <1>6, ReadyId
  <2>2. /\ Tid(p) # u /\ Tid(p) - 1 # u /\ Tid(p) - 1 \in Nat
        /\ nCommitted <= Tid(p) - 1 /\ Tid(p) - 1 < nCommitted + BufferSize
    BY <1>1, <1>3, <2>1, Constants
  <2>3. Slot(Tid(p)) # Slot(u)
    BY <1>1, <1>4, <2>1, <2>2
  <2>4. Slot(Tid(p) - 1) # Slot(u)
    BY <1>4, <2>2
  <2> QED
    BY <2>3, <2>4
<1>7. ASSUME NEW w \in Workers, HasTask(w) PROVE Slot(wtid[w]) # Slot(u)
  <2>1. /\ wtid[w] \in Nat /\ wtid[w] \in Published /\ wtid[w] > nCommitted
        /\ wtid[w] < nCommitted + BufferSize
    BY <1>7, TaskId
  <2>2. wtid[w] # u
    BY <1>3, <2>1 DEF Published
  <2> QED
    BY <1>1, <1>4, <2>1, <2>2
<1>8. ASSUME NEW t \in (nCommitted + 1)..mInited PROVE Slot(t) # Slot(u)
  <2>1. t \in Nat /\ nCommitted < t /\ t <= mInited
    BY <1>1, <1>8
  <2>2. t < nCommitted + BufferSize
    BY <2>1, InitedPublished
  <2> QED
    BY <1>1, <1>3, <1>4, <2>1, <2>2
<1> QED
  BY <1>5, <1>6, <1>7, <1>8

\* A client fills a context that no other thread is at, whichever pipe the
\* last task on it ended in.
THEOREM SlotExclusion == Spec => []SlotExclusive
<1>1. IInv => SlotExclusive
  BY IInvSlotExclusive
<1> QED
  BY <1>1, Invariance, PTL

LEMMA IInvTaskHasWorker == IInv => TaskHasWorker
<1> SUFFICES ASSUME IInv PROVE TaskHasWorker
  OBVIOUS
<1>1. ASSUME NEW p \in Pipes, NEW t \in (mNext + 1)..pdone[p],
             (t - 1) % NPipes = (p + 1) % NPipes
      PROVE  \/ stages[Slot(t)] = AllOnes
             \/ \E w \in Workers :
                  /\ wtid[w] = t /\ HasTask(w)
                  /\ \A x \in Workers \ {w} : HasTask(x) => wtid[x] # t
  <2>1. /\ mNext \in Nat /\ nCommitted \in Nat /\ mInited \in Nat
        /\ nInited \in Nat /\ pdone[p] \in Nat
    BY PipeTypes DEF IInv, TypeOK
  <2>2. /\ nCommitted <= mNext /\ pdone[p] <= nInited
        /\ mpc # "exited" => nInited <= mInited
    BY DEF IInv, CountersInOrder
  <2>3. t \in Nat /\ t >= 1 /\ nCommitted < t /\ t <= pdone[p] /\ t <= nInited
    BY <1>1, <2>1, <2>2
  <2>4. CASE stop
    BY <2>3, <2>4, SlotInRing DEF IInv, StopInOrder
  <2>5. CASE ~stop
    <3>1. t <= mInited
      BY <2>1, <2>2, <2>3, <2>5 DEF IInv, StopInOrder
    <3>2. PublishedSlot(t)
      BY <2>3, <3>1, InitedPublished DEF IInv, PublishedSlots
    <3>3. Pos(t, p) = NPipes - 1
      BY <1>1, <2>3, PosIs DEF Seat, NextPipe
    <3>4. \A q \in Pipes : Pos(t, q) <= Pos(t, p)
      <4> TAKE q \in Pipes
      <4>1. Pos(t, q) \in 0..(NPipes - 1)
        BY <2>3, PosIs
      <4> QED
        BY <3>3, <4>1, Constants
    <3>5. t \in 1..pdone[p]
      BY <2>1, <2>3
    <3>6. Exited(t)
      BY <3>4, <3>5 DEF IInv, PipesInOrder, Exited
    <3>7. stages[Slot(t)] # AllOnes =>
            \E w \in Workers : HasTask(w) /\ wtid[w] = t
      BY <3>2, <3>6 DEF PublishedSlot
    <3> QED
      BY <3>7 DEF IInv, WorkersInOrder
  <2> QED
    BY <2>4, <2>5
<1>2. \A w \in avail : ~HasTask(w)
  BY DEF IInv, WorkersInOrder
<1> QED
  BY <1>1, <1>2 DEF TaskHasWorker

\* EXIT hands every unfinished id to one worker, and an available worker has
\* no task that EXIT could overwrite, though each pipe is EXIT for some ids.
THEOREM TaskOwnership == Spec => []TaskHasWorker
<1>1. IInv => TaskHasWorker
  BY IInvTaskHasWorker
<1> QED
  BY <1>1, Invariance, PTL
===============================================================================
