------------------------------ MODULE WorkPool ------------------------------
(***************************************************************************)
(* ThreadPoolLockFree access by access: the bounded ring of sequence-      *)
(* numbered cells (LockFreeQueue), the counting semaphore whose release    *)
(* skips the wakeup when it sees no waiter (Semaphore), the worker loop    *)
(* and the shutdown that wakes and joins the workers.                      *)
(***************************************************************************)
EXTENDS Integers, Sequences, FiniteSets

CONSTANTS
    Producers,    \* threads that call tryEnqueue
    Workers,
    Pools,        \* ways to use the pool: the tasks each producer submits, the workers
    Cap,          \* cells of the ring, a power of two
    NoTask

Task == UNION {{<<p, k>> : k \in 1 .. pl.tasks[p]} : p \in Producers, pl \in Pools}

ASSUME PoolAssumption ==
    /\ Pools \subseteq [tasks : [Producers -> Nat], workers : SUBSET Workers]
    /\ Cap \in Nat \ {0, 1}
    /\ IsFiniteSet(Producers) /\ IsFiniteSet(Workers)
    /\ NoTask \notin Task

Cells == 0 .. Cap - 1
Cell(pos) == pos % Cap

VARIABLES
    pool,                         \* the way it is used, one of Pools
    sequence, data, head, tail,   \* the ring
    count, waiters,               \* the semaphore
    stop,
    ppc, sent, ppos,              \* producers: step, tasks begun, position
    wpc, wpos, item,              \* workers: step, position, task
    spc,                          \* the thread in shutdown()
    accepted,                     \* tasks tryEnqueue returned SUCCESS for
    promised,                     \* those of them accepted before the stop
    ran                           \* the executions, oldest first

ringVars  == <<sequence, data, head, tail>>
semVars   == <<count, waiters>>
prodVars  == <<ppc, sent, ppos>>
workVars  == <<wpc, wpos, item>>
ghostVars == <<accepted, promised, ran>>
vars == <<ringVars, semVars, stop, prodVars, workVars, spc, ghostVars, pool>>

Mine(p) == <<p, sent[p]>>

Init ==
    /\ pool \in Pools
    /\ sequence = [c \in Cells |-> c]
    /\ data = [c \in Cells |-> NoTask]
    /\ head = 0 /\ tail = 0
    /\ count = 0 /\ waiters = 0
    /\ stop = FALSE
    /\ ppc = [p \in Producers |-> "idle"]
    /\ sent = [p \in Producers |-> 0]
    /\ ppos = [p \in Producers |-> 0]
    /\ wpc = [w \in Workers |-> IF w \in pool.workers THEN "acquire" ELSE "exit"]
    /\ wpos = [w \in Workers |-> 0]
    /\ item = [w \in Workers |-> NoTask]
    /\ spc = "run"
    /\ accepted = {} /\ promised = {} /\ ran = <<>>

----------------------------------------------------------------------------
(* tryEnqueue: the stop flag, tryPush, the semaphore's release.            *)

To(p, step) == ppc' = [ppc EXCEPT ![p] = step]

CheckStop(p) ==
    /\ ppc[p] = "idle" /\ sent[p] < pool.tasks[p]
    /\ sent' = [sent EXCEPT ![p] = @ + 1]
    /\ To(p, IF stop THEN "idle" ELSE "head")
    /\ UNCHANGED <<ringVars, semVars, stop, ppos, workVars, spc, ghostVars>>

LoadHead(p) ==
    /\ ppc[p] = "head"
    /\ ppos' = [ppos EXCEPT ![p] = head]
    /\ To(p, "cell")
    /\ UNCHANGED <<ringVars, semVars, stop, sent, workVars, spc, ghostVars>>

\* The cell is free for this lap, or of the lap before (full), or ahead.
LoadFree(p) ==
    /\ ppc[p] = "cell"
    /\ LET dif == sequence[Cell(ppos[p])] - ppos[p] IN
       To(p, IF dif = 0 THEN "claim" ELSE IF dif < 0 THEN "idle" ELSE "head")
    /\ UNCHANGED <<ringVars, semVars, stop, sent, ppos, workVars, spc, ghostVars>>

\* Slip: the head is stored instead of compared and swapped.
StoreHead(p) ==
    /\ ppc[p] = "claim"
    /\ head' = ppos[p] + 1
    /\ To(p, "write")
    /\ UNCHANGED <<sequence, data, tail, semVars, stop, sent, ppos, workVars, spc,
                   ghostVars>>

ClaimHead(p) ==
    /\ ppc[p] = "claim"
    /\ IF head = ppos[p]
       THEN head' = head + 1 /\ To(p, "write") /\ UNCHANGED ppos
       ELSE ppos' = [ppos EXCEPT ![p] = head] /\ To(p, "cell") /\ UNCHANGED head
    /\ UNCHANGED <<sequence, data, tail, semVars, stop, sent, workVars, spc, ghostVars>>

WriteData(p) ==
    /\ ppc[p] = "write"
    /\ data' = [data EXCEPT ![Cell(ppos[p])] = Mine(p)]
    /\ To(p, "publish")
    /\ UNCHANGED <<sequence, head, tail, semVars, stop, sent, ppos, workVars, spc,
                   ghostVars>>

Publish(p) ==
    /\ ppc[p] = "publish"
    /\ sequence' = [sequence EXCEPT ![Cell(ppos[p])] = ppos[p] + 1]
    /\ To(p, "add")
    /\ UNCHANGED <<data, head, tail, semVars, stop, sent, ppos, workVars, spc, ghostVars>>

AddPermit(p) ==
    /\ ppc[p] = "add"
    /\ count' = count + 1
    /\ accepted' = accepted \cup {Mine(p)}
    /\ To(p, "look")
    /\ UNCHANGED <<ringVars, waiters, stop, sent, ppos, workVars, spc, promised,
                   ran>>

\* No waiter announced: no wakeup is sent.
LookForWaiters(p) ==
    /\ ppc[p] = "look"
    /\ To(p, IF waiters # 0 THEN "notify" ELSE "idle")
    /\ UNCHANGED <<ringVars, semVars, stop, sent, ppos, workVars, spc, ghostVars>>

Parked == {w \in Workers : wpc[w] = "parked"}

\* notify_one: some parked worker compares the count again.
NotifyOne(p) ==
    /\ ppc[p] = "notify"
    /\ To(p, "idle")
    /\ \/ Parked = {} /\ UNCHANGED wpc
       \/ \E w \in Parked : wpc' = [wpc EXCEPT ![w] = "park"]
    /\ UNCHANGED <<ringVars, semVars, stop, sent, ppos, wpos, item, spc, ghostVars>>

Producer(p) ==
    \/ CheckStop(p) \/ LoadHead(p) \/ LoadFree(p) \/ ClaimHead(p)
    \/ WriteData(p) \/ Publish(p) \/ AddPermit(p) \/ LookForWaiters(p)
    \/ NotifyOne(p)

----------------------------------------------------------------------------
(* workerLoop: the semaphore's acquire, tryPop, the task, the stop flag.   *)

At(w, step) == wpc' = [wpc EXCEPT ![w] = step]

\* Slip: the stop flag is looked at before the ring.
StopFirst(w) ==
    /\ wpc[w] = "acquire" /\ count > 0
    /\ count' = count - 1
    /\ At(w, IF stop THEN "exit" ELSE "tail")
    /\ UNCHANGED <<ringVars, waiters, stop, prodVars, wpos, item, spc, ghostVars>>

\* The compare-and-swap loop takes a permit if there is one ...
TakePermit(w) ==
    /\ wpc[w] = "acquire" /\ count > 0
    /\ count' = count - 1
    /\ At(w, "tail")
    /\ UNCHANGED <<ringVars, waiters, stop, prodVars, wpos, item, spc, ghostVars>>

\* ... and leaves the fast path when it reads zero.
SeeNone(w) ==
    /\ wpc[w] = "acquire" /\ count = 0
    /\ At(w, "announce")
    /\ UNCHANGED <<ringVars, semVars, stop, prodVars, wpos, item, spc, ghostVars>>

\* Slip: the waiter parks on the count it has read and announces itself after.
AnnounceLate(w) ==
    /\ wpc[w] = "announce"
    /\ waiters' = waiters + 1
    /\ At(w, "parked")
    /\ UNCHANGED <<ringVars, count, stop, prodVars, wpos, item, spc, ghostVars>>

Announce(w) ==
    /\ wpc[w] = "announce"
    /\ waiters' = waiters + 1
    /\ At(w, "park")
    /\ UNCHANGED <<ringVars, count, stop, prodVars, wpos, item, spc, ghostVars>>

\* Parking compares the count with zero, and so does every wakeup.
Park(w) ==
    /\ wpc[w] = "park"
    /\ At(w, IF count = 0 THEN "parked" ELSE "leave")
    /\ UNCHANGED <<ringVars, semVars, stop, prodVars, wpos, item, spc, ghostVars>>

Leave(w) ==
    /\ wpc[w] = "leave"
    /\ waiters' = waiters - 1
    /\ At(w, "acquire")
    /\ UNCHANGED <<ringVars, count, stop, prodVars, wpos, item, spc, ghostVars>>

LoadTail(w) ==
    /\ wpc[w] = "tail"
    /\ wpos' = [wpos EXCEPT ![w] = tail]
    /\ At(w, "cell")
    /\ UNCHANGED <<ringVars, semVars, stop, prodVars, item, spc, ghostVars>>

\* Published for this lap, or not yet (empty), or taken by another.
LoadPublished(w) ==
    /\ wpc[w] = "cell"
    /\ LET dif == sequence[Cell(wpos[w])] - (wpos[w] + 1) IN
       At(w, IF dif = 0 THEN "claim" ELSE IF dif < 0 THEN "empty" ELSE "tail")
    /\ UNCHANGED <<ringVars, semVars, stop, prodVars, wpos, item, spc, ghostVars>>

\* Slip: the cell is freed before its data is read.
FreeOnClaim(w) ==
    /\ wpc[w] = "claim" /\ tail = wpos[w]
    /\ tail' = tail + 1
    /\ sequence' = [sequence EXCEPT ![Cell(wpos[w])] = wpos[w] + Cap]
    /\ At(w, "read")
    /\ UNCHANGED <<data, head, semVars, stop, prodVars, wpos, item, spc, ghostVars>>

ClaimTail(w) ==
    /\ wpc[w] = "claim"
    /\ IF tail = wpos[w]
       THEN tail' = tail + 1 /\ At(w, "read") /\ UNCHANGED wpos
       ELSE wpos' = [wpos EXCEPT ![w] = tail] /\ At(w, "cell") /\ UNCHANGED tail
    /\ UNCHANGED <<sequence, data, head, semVars, stop, prodVars, item, spc, ghostVars>>

ReadData(w) ==
    /\ wpc[w] = "read"
    /\ item' = [item EXCEPT ![w] = data[Cell(wpos[w])]]
    /\ At(w, "free")
    /\ UNCHANGED <<ringVars, semVars, stop, prodVars, wpos, spc, ghostVars>>

FreeCell(w) ==
    /\ wpc[w] = "free"
    /\ sequence' = [sequence EXCEPT ![Cell(wpos[w])] = wpos[w] + Cap]
    /\ At(w, "execute")
    /\ UNCHANGED <<data, head, tail, semVars, stop, prodVars, wpos, item, spc, ghostVars>>

Execute(w) ==
    /\ wpc[w] = "execute"
    /\ ran' = Append(ran, item[w])
    /\ item' = [item EXCEPT ![w] = NoTask]
    /\ At(w, "acquire")
    /\ UNCHANGED <<ringVars, semVars, stop, prodVars, wpos, spc, accepted,
                   promised>>

\* Only a worker that finds no task looks at the stop flag.
Empty(w) ==
    /\ wpc[w] = "empty"
    /\ At(w, IF stop THEN "exit" ELSE "acquire")
    /\ UNCHANGED <<ringVars, semVars, stop, prodVars, wpos, item, spc, ghostVars>>

Worker(w) ==
    \/ TakePermit(w) \/ SeeNone(w) \/ Announce(w) \/ Park(w) \/ Leave(w)
    \/ LoadTail(w) \/ LoadPublished(w) \/ ClaimTail(w) \/ ReadData(w)
    \/ FreeCell(w) \/ Execute(w) \/ Empty(w)

----------------------------------------------------------------------------
(* shutdown().                                                             *)

ProducersDone == \A p \in Producers : ppc[p] = "idle" /\ sent[p] = pool.tasks[p]

SetStop ==
    /\ spc = "run"
    /\ stop' = TRUE
    /\ promised' = accepted
    /\ spc' = "add"
    /\ UNCHANGED <<ringVars, semVars, prodVars, workVars, accepted, ran>>

\* Slip: one permit for all the workers.
OnePermit   == 1
StopPermits == Cardinality(pool.workers)

AddPermits ==
    /\ spc = "add"
    /\ count' = count + StopPermits
    /\ spc' = "look"
    /\ UNCHANGED <<ringVars, waiters, stop, prodVars, workVars, ghostVars>>

\* With one worker release(1) notifies one waiter: the only one there is.
NotifyAll ==
    /\ spc = "look"
    /\ spc' = "join"
    /\ wpc' = [w \in Workers |-> IF waiters # 0 /\ w \in Parked THEN "park" ELSE wpc[w]]
    /\ UNCHANGED <<ringVars, semVars, stop, prodVars, wpos, item, ghostVars>>

Join ==
    /\ spc = "join"
    /\ \A w \in Workers : wpc[w] = "exit"
    /\ spc' = "done"
    /\ UNCHANGED <<ringVars, semVars, stop, prodVars, workVars, ghostVars>>

Finished == spc = "done" /\ ProducersDone /\ UNCHANGED vars

ProducerStep(p) == Producer(p) /\ UNCHANGED pool
WorkerStep(w) == Worker(w) /\ UNCHANGED pool
StopStep == (AddPermits \/ NotifyAll \/ Join) /\ UNCHANGED pool

Next ==
    \/ \E p \in Producers : ProducerStep(p)
    \/ \E w \in Workers : WorkerStep(w)
    \/ SetStop /\ UNCHANGED pool
    \/ StopStep
    \/ Finished

Spec == Init /\ [][Next]_vars

\* Threads are scheduled and tasks return; the stop may never come.
Fairness ==
    /\ \A p \in Producers : WF_vars(ProducerStep(p))
    /\ \A w \in Workers : WF_vars(WorkerStep(w))
    /\ WF_vars(StopStep)

FairSpec == Spec /\ Fairness

----------------------------------------------------------------------------
(* Safety.                                                                 *)

RanSet == {ran[i] : i \in 1 .. Len(ran)}

\* Every variable keeps to its type; positions never pass one another.
TypeOK ==
    /\ sequence \in [Cells -> Nat]
    /\ data \in [Cells -> Task \cup {NoTask}]
    /\ tail \in Nat /\ head \in tail .. tail + Cap
    /\ count \in Nat /\ waiters \in 0 .. Cardinality(Workers)
    /\ stop \in BOOLEAN
    /\ ppc \in [Producers -> {"idle", "head", "cell", "claim", "write", "publish",
                              "add", "look", "notify"}]
    /\ sent \in [Producers -> Nat] /\ ppos \in [Producers -> Nat]
    /\ wpc \in [Workers -> {"acquire", "announce", "park", "parked", "leave", "tail",
                            "cell", "claim", "read", "free", "execute", "empty",
                            "exit"}]
    /\ wpos \in [Workers -> Nat] /\ item \in [Workers -> Task \cup {NoTask}]
    /\ spc \in {"run", "add", "look", "join", "done"}
    /\ accepted \subseteq Task /\ promised \subseteq accepted /\ ran \in Seq(Task)

\* A cell's data has one user at a time: no thread writes or reads it while
\* another does (the sequence number hands it over).
NoDataRace ==
    LET Writing(p) == ppc[p] \in {"write", "publish"}
        Reading(w) == wpc[w] \in {"read", "free"}
    IN /\ \A p, q \in Producers : Writing(p) /\ Writing(q) /\ p # q
            => Cell(ppos[p]) # Cell(ppos[q])
       /\ \A v, w \in Workers : Reading(v) /\ Reading(w) /\ v # w
            => Cell(wpos[v]) # Cell(wpos[w])
       /\ \A p \in Producers, w \in Workers : Writing(p) /\ Reading(w)
            => Cell(ppos[p]) # Cell(wpos[w])

\* The ring as a queue: the tasks at the positions claimed by a producer and
\* not yet by a worker, those still being written included.
TaskAt(pos) ==
    LET owners == {p \in Producers : /\ ppc[p] \in {"write", "publish"}
                                     /\ ppos[p] = pos}
    IN IF owners # {} THEN Mine(CHOOSE p \in owners : TRUE) ELSE data[Cell(pos)]

Contents == [i \in 1 .. head - tail |-> TaskAt(tail + i - 1)]

Queue == INSTANCE Fifo WITH Elements <- Task, Capacity <- Cap, contents <- Contents

\* With many producers and workers the ring is a bounded first-in-first-out
\* queue: nothing is overwritten, repeated or overtaken.
ImplementsFifo == Queue!Spec

\* Each task runs at most once, and only a task that was submitted.
RunsOnce ==
    /\ \A i, j \in 1 .. Len(ran) : ran[i] = ran[j] => i = j
    /\ \A i \in 1 .. Len(ran) : ran[i][1] \in Producers /\ ran[i][2] <= sent[ran[i][1]]

\* The wakeup is never lost, and no permit waits for a worker that is busy:
\* while a worker sleeps, every permit has an awake worker on its way to it or
\* the wakeup of its own release still to come.
NoLostWakeup ==
    LET coming == {w \in Workers : wpc[w] \in {"acquire", "announce", "park", "leave"}}
        waking == {p \in Producers : ppc[p] \in {"look", "notify"}}
    IN Parked # {} /\ spc # "look"
         => count <= Cardinality(coming) + Cardinality(waking)

\* How the scheduler and the Monte Carlo driver use the pool.
OneProducer == Cardinality({p \in Producers : pool.tasks[p] > 0}) = 1

\* When shutdown() returns, every task that one producer had accepted before it
\* began has run, whatever the producer did meanwhile.
Drained == OneProducer /\ spc = "done" => promised \subseteq RanSet

\* "Signals workers when tasks available": no accepted task waits in the ring
\* while every worker sleeps and every producer is done.
NoneStranded ==
    ProducersDone /\ (\A w \in pool.workers : wpc[w] = "parked") => RanSet = accepted

----------------------------------------------------------------------------
(* Liveness.                                                               *)

\* With one producer, a task that was accepted runs, or a shutdown overtook it.
AcceptedRun ==
    \A t \in Task : t \in accepted /\ OneProducer ~> t \in RanSet \/ stop

\* With one producer, shutdown() returns.
StopReturns == stop /\ OneProducer ~> spc = "done"

=============================================================================
