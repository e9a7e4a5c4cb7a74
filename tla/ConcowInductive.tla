--------------------------- MODULE ConcowInductive ----------------------------
(***************************************************************************)
(* An inductive invariant of Concow, in named parts.  The window of ids    *)
(* nCommitted .. nCommitted + BufferSize - 1 has one id per slot, so each  *)
(* part speaks of an id and of the slot it has now.                        *)
(***************************************************************************)
EXTENDS Concow

\* A call of update() has claimed t and not published it yet.
Held(t) == \E c \in Clients : cpc[c] # "idle" /\ ctid[c] = t

\* The ids that are published and not committed.
Published == {t \in (nCommitted + 1)..nSubmitted : ~Held(t)}

\* The other ids of the window after nCommitted.
Vacant == {t \in (nCommitted + 1)..(nCommitted + BufferSize - 1) :
              t > nSubmitted \/ Held(t)}

\* The counters of the monitor and the pipes are in order: an id is
\* submitted, then inited, then goes through the pipes one by one, then is
\* found finished, then is committed.
CountersInOrder ==
    /\ nCommitted <= mNext /\ mNext <= pdone[NPipes] /\ mNext <= mInited
    /\ mInited <= nSubmitted /\ mSub <= nSubmitted
    /\ \A p, q \in Pipes : p <= q => pdone[q] <= pdone[p]
    /\ \A p \in Pipes : p > 0 => pace[p] = pdone[p - 1]
    /\ pdone[0] <= pace[0]
    /\ mpc # "exited" => pace[0] <= mInited

\* The monitor leaves only when nothing submitted is uncommitted.
StopInOrder ==
    /\ mStop => stop /\ mSub = nSubmitted
    /\ mpc \in {"top", "inited"} => mNext = nCommitted
    /\ mpc = "exited" => /\ stop /\ nCommitted = nSubmitted
                         /\ pace[0] < nSubmitted + BufferSize
    /\ stop => \A c \in Clients : cpc[c] = "idle"
    /\ \A p \in Pipes : phase[p] # "run" => stop
    /\ (\E w \in Workers : wtid[w] = NoTask) =>
         mpc = "exited" /\ \A p \in Pipes : phase[p] = "exited"

\* Claimed ids are distinct, not inited, and within the ring once a client
\* writes.
ClientsInOrder ==
    /\ \A c \in Clients : cpc[c] # "idle" => ctid[c] > mInited /\ ctid[c] <= nSubmitted
    /\ \A c, d \in Clients :
         c # d /\ cpc[c] # "idle" /\ cpc[d] # "idle" => ctid[c] # ctid[d]
    /\ \A c \in Clients : Writing(c) => ctid[c] < nCommitted + BufferSize
    /\ \A c \in Clients : cpc[c] = "checkpoint" => IsCheckpoint(ctid[c])
    /\ \A c \in Clients : cpc[c] \in {"write", "publish"} => ~IsCheckpoint(ctid[c])
    /\ \A t \in Published : t < nCommitted + BufferSize

\* What a published id's slot holds, by how far the id has come.
PublishedSlot(t) ==
    LET s == Slot(t) IN
    /\ sno[s] = t
    /\ t > pdone[0] => IF IsCheckpoint(t) THEN op[s] = DONE
                                          ELSE op[s] = 0 /\ waitChild[s] = 0
    /\ t <= pdone[0] => op[s] > 0
    /\ t > pdone[NPipes] => stages[s] = 0
    /\ t <= mNext => stages[s] = AllOnes
    /\ stages[s] = AllOnes => op[s] = DONE
    /\ t <= pdone[NPipes] /\ stages[s] # AllOnes =>
         \E w \in Workers : HasTask(w) /\ wtid[w] = t

PublishedSlots == \A t \in Published : PublishedSlot(t)

\* A slot without a published id is finished, until its client writes it.
VacantSlot(t) ==
    LET s == Slot(t) IN
    /\ stages[s] = AllOnes
    /\ IF \E c \in Clients : cpc[c] = "publish" /\ ctid[c] = t
       THEN op[s] = 0 /\ waitChild[s] = 0 /\ sno[s] = t
       ELSE op[s] = DONE

VacantSlots ==
    /\ stages[Slot(nCommitted)] = AllOnes /\ op[Slot(nCommitted)] = DONE
    /\ op[0] = DONE
    /\ \A t \in Vacant : VacantSlot(t)

\* A worker's task is one unfinished id that left the pipes, and its own.
WorkersInOrder ==
    /\ \A w \in Workers : HasTask(w) =>
         /\ wtid[w] > mNext /\ wtid[w] <= pdone[NPipes]
         /\ wtid[w] <= nSubmitted
         /\ stages[Slot(wtid[w])] # AllOnes
    /\ \A w, x \in Workers :
         w # x /\ HasTask(w) /\ HasTask(x) => wtid[w] # wtid[x]
    /\ \A w \in Workers : Running(w) => HasTask(w) /\ wjob[w] = wtid[w]
    /\ \A w \in Workers : wpc[w] = "push" =>
         wtid[w] \in {NoTask, wjob[w]} /\ wjob[w] <= pdone[NPipes]
    /\ \A w \in Workers : wpc[w] = "exited" => wtid[w] = NoTask
    /\ \A w \in avail : wpc[w] \in {"spin", "exited"} /\ ~HasTask(w)
    /\ \A w \in Workers : wlast[w] <= pdone[NPipes]
    /\ \A w \in Workers : wpc[w] = "spin" => wstage[w] = 1
    /\ \A w \in Workers :
         CASE wpc[w] = "exec"  -> wstage[w] <= op[Slot(wjob[w])]
           [] wpc[w] = "store" -> wstage[w] < op[Slot(wjob[w])]
           [] OTHER            -> TRUE

IInv ==
    /\ TypeOK
    /\ CountersInOrder
    /\ StopInOrder
    /\ ClientsInOrder
    /\ PublishedSlots
    /\ VacantSlots
    /\ WorkersInOrder

\* The root in a context that left ENTRY holds the updates up to its id, and
\* root_ holds a prefix: the committed one, until the monitor is about to
\* tell waiters of a longer one.
RootsInOrder ==
    /\ \A t \in nCommitted..pdone[0] :
         t <= nSubmitted => ctxRoot[Slot(t)] = UpdatesUpTo(t)
    /\ root = UpdatesUpTo(IF mpc = "root" THEN mNext ELSE nCommitted)

\* The two together: where every id is, and what its root holds.
RootInv == IInv /\ RootsInOrder
===============================================================================
