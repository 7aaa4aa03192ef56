------------------------- MODULE TaskDispatchProofs -------------------------
(***************************************************************************)
(* Theorems about the scheduler, for every table, number of workers, pools *)
(* and contexts, and in every mode.                                        *)
(***************************************************************************)
EXTENDS TaskDispatchRefines, TLAPS, FiniteSetTheorems

RangeOf(s)  == {s[i] : i \in 1 .. Len(s)}
Distinct(s) == \A i, j \in 1 .. Len(s) : s[i] = s[j] => i = j

\* Pushing a context that is not in the ring adds it and repeats nothing.
LEMMA PushRange ==
    ASSUME NEW S, NEW s \in Seq(S), NEW c \in S, Distinct(s), c \notin RangeOf(s)
    PROVE  /\ Append(s, c) \in Seq(S)
           /\ RangeOf(Append(s, c)) = RangeOf(s) \cup {c}
           /\ Distinct(Append(s, c))
  BY DEF RangeOf, Distinct

\* Popping takes the oldest context out and no other.
LEMMA PopRange ==
    ASSUME NEW S, NEW s \in Seq(S), s # <<>>, Distinct(s)
    PROVE  /\ Head(s) \in S /\ Head(s) \in RangeOf(s)
           /\ Tail(s) \in Seq(S)
           /\ RangeOf(Tail(s)) = RangeOf(s) \ {Head(s)}
           /\ Distinct(Tail(s))
<1>1. Len(s) \in Nat /\ Len(s) > 0 /\ Head(s) = s[1] /\ Head(s) \in S
  OBVIOUS
<1>2. /\ Tail(s) \in Seq(S)
      /\ Len(Tail(s)) = Len(s) - 1
      /\ \A i \in 1 .. Len(Tail(s)) : Tail(s)[i] = s[i + 1]
  OBVIOUS
<1>3. Distinct(Tail(s))
  BY <1>1, <1>2 DEF Distinct
<1>4. RangeOf(Tail(s)) \subseteq RangeOf(s) \ {Head(s)}
  BY <1>1, <1>2 DEF Distinct, RangeOf
<1>5. ASSUME NEW c \in RangeOf(s), c # Head(s)
      PROVE  c \in RangeOf(Tail(s))
  <2>1. PICK i \in 1 .. Len(s) : c = s[i]
    BY DEF RangeOf
  <2>2. i - 1 \in 1 .. Len(Tail(s)) /\ Tail(s)[i - 1] = c
    BY <1>1, <1>2, <1>5, <2>1
  <2> QED
    BY <2>2 DEF RangeOf
<1>6. RangeOf(Tail(s)) = RangeOf(s) \ {Head(s)}
  BY <1>4, <1>5
<1>7. Head(s) \in RangeOf(s)
  BY <1>1 DEF RangeOf
<1> QED
  BY <1>1, <1>2, <1>3, <1>6, <1>7

\* The row the walk has reached is a row of the table.
LEMMA CurrentRow ==
    ASSUME TableAssumption, TypeOK
    PROVE  /\ Slot \in Seq(Entries)
           /\ Len(Slot) \in Nat
           /\ dpc \notin {"idle", "ended"} => Current \in Entries
<1>1. 1 + (cycle % Len(Slots)) \in 1 .. Len(Slots)
  BY DEF TableAssumption, TypeOK
<1>2. Slot \in Seq(Entries)
  BY <1>1 DEF TableAssumption, Slot
<1> QED
  BY <1>2 DEF TypeOK, Current

----------------------------------------------------------------------------
(* Type correctness.                                                       *)

Assumptions ==
    TableAssumption /\ GroupAssumption /\ PoolAssumption /\ ModeAssumption

\* The pool of a row is one of the configured ones.
LEMMA PoolOfRow ==
    ASSUME PoolAssumption, NEW e \in Entries
    PROVE  PoolFor(e) \in Pools
  BY DEF PoolAssumption, PoolFor, Pools

\* A slot keeps its length while the cycle does not change.
LEMMA NextRowType ==
    ASSUME TableAssumption, TypeOK, dpc \notin {"idle", "ended"}, NextRow
    PROVE  /\ cycle' \in 0 .. Pattern - 1
           /\ pos' \in Nat \ {0}
           /\ dpc' \in {"visit", "idle"}
           /\ dpc' = "visit" => pos' <= Len(Slot')
           /\ dpc' = "idle" => pos' = 1
<1>1. CASE pos < Len(Slot)
  BY <1>1 DEF NextRow, TypeOK, Slot
<1>2. CASE ~(pos < Len(Slot))
  BY <1>2 DEF NextRow, TypeOK, TableAssumption
<1> QED
  BY <1>1, <1>2

\* No step leaves the types.
LEMMA TypeStep ==
    ASSUME Assumptions, TypeOK, Places, [Next]_vars
    PROVE  TypeOK'
<1> USE DEF Assumptions
<1>a. Len(Slot) \in Nat /\ (dpc \notin {"idle", "ended"} => Current \in Entries)
  BY CurrentRow
<1>1. CASE BeginCycle
  <2>1. /\ cycle' \in 0 .. Pattern - 1
        /\ dpc' \in {"visit", "idle"}
        /\ dpc' = "visit" => pos <= Len(Slot) /\ cycle' = cycle
    BY <1>1, <1>a DEF BeginCycle, TypeOK, Places, DispatchPlace, WorkerPlace, RingPlace, TableAssumption
  <2> QED
    BY <1>1, <2>1 DEF BeginCycle, TypeOK, Slot, stopVars, workerVars
<1>2. CASE PassOver
  BY <1>2, <1>a, NextRowType, PoolOfRow DEF PassOver, TypeOK, Slot, stopVars, workerVars
<1>3. CASE CheckRunning
  BY <1>3, <1>a, NextRowType, PoolOfRow DEF CheckRunning, Flagged, GivenUp, TypeOK, Slot, stopVars, workerVars
<1>4. CASE Acquire
  <2>1. free' \subseteq Ctxs /\ dctx' \in Ctxs \cup {NoCtx}
    BY <1>4 DEF Acquire, TypeOK, Avail
  <2>2. /\ cycle' \in 0 .. Pattern - 1
        /\ pos' \in Nat \ {0}
        /\ dpc' \in {"visit", "idle", "mark"}
        /\ dpc' # "idle" => pos' <= Len(Slot')
    BY <1>4, NextRowType DEF Acquire, TypeOK, Slot
  <2> QED
    BY <1>4, <2>1, <2>2 DEF Acquire, TypeOK, stopVars, workerVars
<1>5. CASE MarkDispatched
  BY <1>5, <1>a, NextRowType, PoolOfRow DEF MarkDispatched, Marked, TypeOK, Slot, stopVars, workerVars
<1>6. CASE EnqueueStopCheck
  BY <1>6, <1>a, NextRowType, PoolOfRow DEF EnqueueStopCheck, TypeOK, Slot, stopVars, workerVars
<1>7. CASE Push
  <2>1. PoolFor(Current) \in Pools
    BY <1>7, <1>a, PoolOfRow DEF Push
  <2>2. dctx \in Ctxs /\ queue[PoolFor(Current)] \in Seq(Ctxs)
    BY <1>7, <2>1 DEF Push, TypeOK, Places, DispatchPlace, WorkerPlace, RingPlace
  <2>3. Append(queue[PoolFor(Current)], dctx) \in Seq(Ctxs)
    BY <2>2
  <2>4. queue' \in [Pools -> Seq(Ctxs)]
    BY <1>7, <2>3 DEF Push, TypeOK
  <2> QED
    BY <1>7, <2>4 DEF Push, TypeOK, Slot, stopVars, workerVars
<1>8. CASE Signal
  <2>1. permits' \in [Pools -> Nat]
    BY <1>8, <1>a, PoolOfRow DEF Signal, Wakeup, TypeOK
  <2> QED
    BY <1>8, <2>1, NextRowType DEF Signal, Wakeup, TypeOK, Slot, stopVars, workerVars
<1>9. CASE ReleaseRefused
  <2>1. dctx \in Ctxs
    BY <1>9 DEF ReleaseRefused, Freed, TypeOK, Places, DispatchPlace, WorkerPlace, RingPlace
  <2> QED
    BY <1>9, <2>1 DEF ReleaseRefused, Freed, TypeOK, Slot, stopVars, workerVars
<1>10. CASE Unmark
  BY <1>10, <1>a, NextRowType, PoolOfRow DEF Unmark, Cleared, TypeOK, Slot, stopVars, workerVars
<1>11. CASE DispatchEnd
  BY <1>11, <1>a, NextRowType, PoolOfRow DEF DispatchEnd, TypeOK, Slot, stopVars, workerVars
<1>12. ASSUME NEW e \in Lockable, ToggleLock(e)
      PROVE  TypeOK'
  BY <1>12 DEF ToggleLock, TypeOK, Slot, stopVars, workerVars
<1>13. ASSUME NEW w \in Workers, AcquirePermit(w)
      PROVE  TypeOK'
  BY <1>13 DEF AcquirePermit, TypeOK, Places, DispatchPlace, WorkerPlace, RingPlace, Slot, Running, Waiting, stopVars, dispatchVars
<1>14. ASSUME NEW w \in Workers, Pop(w)
      PROVE  TypeOK'
  <2>1. WorkerPool[w] \in Pools
    BY DEF PoolAssumption
  <2>2. queue[WorkerPool[w]] # <<>> =>
          /\ Head(queue[WorkerPool[w]]) \in Ctxs
          /\ Tail(queue[WorkerPool[w]]) \in Seq(Ctxs)
    BY <2>1 DEF TypeOK
  <2>3. /\ wctx' \in [Workers -> Ctxs \cup {NoCtx}]
        /\ queue' \in [Pools -> Seq(Ctxs)]
    <3>1. CASE queue[WorkerPool[w]] # <<>>
      <4>1. /\ wctx' = [wctx EXCEPT ![w] = Head(queue[WorkerPool[w]])]
            /\ queue' = [queue EXCEPT ![WorkerPool[w]] = Tail(@)]
        BY <1>14, <3>1 DEF Pop, HasWork
      <4> QED
        BY <2>1, <2>2, <3>1, <4>1 DEF TypeOK
    <3>2. CASE queue[WorkerPool[w]] = <<>>
      BY <1>14, <3>2 DEF Pop, HasWork, TypeOK
    <3> QED
      BY <3>1, <3>2
  <2>4. wpc' \in [Workers -> Running \cup {"wait", "pop", "release", "report",
                                          "exit"}]
    BY <1>14 DEF Pop, HasWork, TypeOK, Running, Waiting
  <2> QED
    BY <1>14, <2>3, <2>4, SMTT(30) DEF Pop, HasWork, TypeOK, Slot, Running, Waiting, stopVars, dispatchVars
<1>15. ASSUME NEW w \in Workers, ReadPhase(w)
      PROVE  TypeOK'
  <2>1. Group(w) \in Groups
    BY <1>15 DEF ReadPhase, Places, DispatchPlace, WorkerPlace, RingPlace, Waiting, Running, Group, Sequenced, GroupAssumption
  <2>2. wcur' \in [Workers -> Int]
    BY <1>15, <2>1 DEF ReadPhase, TypeOK
  <2> QED
    BY <1>15, <2>2, ZenonT(40) DEF ReadPhase, TypeOK, Slot, Running, Waiting, stopVars, dispatchVars
<1>16. ASSUME NEW w \in Workers, ReadAbort(w)
      PROVE  TypeOK'
  <2>1. wcur' \in [Workers -> Int]
    BY <1>16 DEF ReadAbort, TypeOK
  <2> QED
    BY <1>16, <2>1, ZenonT(40) DEF ReadAbort, TypeOK, Slot, Running, Waiting, stopVars, dispatchVars
<1>17. ASSUME NEW w \in Workers, Park(w)
      PROVE  TypeOK'
  <2>1. wcur' \in [Workers -> Int]
    BY <1>17 DEF Park, TypeOK
  <2> QED
    BY <1>17, <2>1, ZenonT(40) DEF Park, TypeOK, Slot, Running, Waiting, stopVars, dispatchVars
<1>18. ASSUME NEW w \in Workers, Execute(w)
      PROVE  TypeOK'
  BY <1>18 DEF Execute, TypeOK, Slot, Running, Waiting, stopVars, dispatchVars
<1>19. ASSUME NEW w \in Workers, AdvancePhase(w)
      PROVE  TypeOK'
  <2>1. Group(w) \in Groups
    BY <1>19 DEF AdvancePhase, Places, DispatchPlace, WorkerPlace, RingPlace, Running, Group, Sequenced, GroupAssumption
  <2>2. counter' \in [Groups -> Int]
    BY <1>19, <2>1 DEF AdvancePhase, NextPhase, TypeOK
  <2> QED
    BY <1>19, <2>2, SMTT(30) DEF AdvancePhase, TypeOK, Slot, Running, Waiting, stopVars, dispatchVars
<1>20. ASSUME NEW w \in Workers, Notify(w)
      PROVE  TypeOK'
  BY <1>20 DEF Notify, TypeOK, Places, DispatchPlace, WorkerPlace, RingPlace, Slot, Running, Waiting, stopVars, dispatchVars
<1>21. ASSUME NEW w \in Workers, MarkCompleted(w)
      PROVE  TypeOK'
  BY <1>21 DEF MarkCompleted, TypeOK, Places, DispatchPlace, WorkerPlace, RingPlace, Slot, Running, Waiting, stopVars, dispatchVars
<1>22. ASSUME NEW w \in Workers, ReleaseCtx(w)
      PROVE  TypeOK'
  BY <1>22 DEF ReleaseCtx, Freed, TypeOK, Places, DispatchPlace, WorkerPlace, RingPlace, Slot, Running, Waiting, stopVars, dispatchVars
<1>23. ASSUME NEW w \in Workers, Report(w)
      PROVE  TypeOK'
  BY <1>23 DEF Report, TypeOK, Places, DispatchPlace, WorkerPlace, RingPlace, Slot, Running, Waiting, stopVars, dispatchVars
<1>24. CASE RaiseStop
  BY <1>24 DEF RaiseStop, TypeOK, Places, DispatchPlace, WorkerPlace, RingPlace, Slot, stopVars, dispatchVars, workerVars
<1>25. CASE DriveCounter
  <2>1. counter' \in [Groups -> Int] /\ sidx' \in Nat
    BY <1>25, SMTT(30) DEF DriveCounter, SEQ_SHUTDOWN, TypeOK
  <2> QED
    BY <1>25, <2>1 DEF DriveCounter, TypeOK, Slot, stopVars, dispatchVars, workerVars
<1>26. CASE WakeWaiters
  <2>1. /\ wpc' \in [Workers -> Running \cup {"wait", "pop", "release", "report", "exit"}]
        /\ sidx' \in Nat
    BY <1>26 DEF WakeWaiters, TypeOK, Running, Waiting
  <2> QED
    BY <1>26, <2>1 DEF WakeWaiters, TypeOK, Slot, dispatchVars
<1>27. CASE CountersDriven
  BY <1>27 DEF CountersDriven, TypeOK, Places, DispatchPlace, WorkerPlace, RingPlace, Slot, stopVars, dispatchVars, workerVars
<1>28. CASE StopPool
  BY <1>28 DEF StopPool, TypeOK, Places, DispatchPlace, WorkerPlace, RingPlace, Slot, stopVars, dispatchVars, workerVars
<1>29. CASE ReleaseWorkers
  <2>1. Cardinality({w \in Workers : WorkerPool[w] = sidx}) \in Nat
    BY FS_Subset, FS_CardinalityType DEF PoolAssumption
  <2>2. permits' \in [Pools -> Nat]
    <3>1. ASSUME NEW p \in Pools
          PROVE  permits'[p] \in Nat
      BY <1>29, <2>1 DEF ReleaseWorkers, StopPermits, TypeOK
    <3> QED
      BY <1>29, <3>1 DEF ReleaseWorkers, StopPermits, TypeOK
  <2> QED
    BY <1>29, <2>2 DEF ReleaseWorkers, StopPermits, TypeOK, Slot, dispatchVars, workerVars
<1>30. CASE JoinWorkers
  BY <1>30 DEF JoinWorkers, TypeOK, Places, DispatchPlace, WorkerPlace, RingPlace, Slot, stopVars, dispatchVars, workerVars
<1>31. CASE UNCHANGED vars
  BY <1>31, SMTT(30) DEF TypeOK, Slot, vars, stopVars, dispatchVars, workerVars
<1> QED
  BY <1>1, <1>2, <1>3, <1>4, <1>5, <1>6, <1>7, <1>8, <1>9, <1>10, <1>11, <1>12, <1>13, <1>14, <1>15, <1>16, <1>17, <1>18, <1>19, <1>20, <1>21, <1>22, <1>23, <1>24, <1>25, <1>26, <1>27, <1>28, <1>29, <1>30, <1>31
     DEF Next, Dispatcher, Worker, Shutdown, Stopped

----------------------------------------------------------------------------
(* Contexts: every one in one place.                                       *)

\* A context in the hand, in a ring cell or with a worker is nowhere else.
LEMMA Apart ==
    ASSUME CtxConservation
    PROVE  /\ dctx # NoCtx => /\ dctx \notin free
                              /\ \A w \in Workers : wctx[w] # dctx
                              /\ \A p \in Pools : \A i \in 1 .. Len(queue[p]) :
                                   queue[p][i] # dctx
           /\ \A w \in Workers : wctx[w] # NoCtx =>
                /\ wctx[w] \notin free
                /\ \A p \in Pools : \A i \in 1 .. Len(queue[p]) :
                     queue[p][i] # wctx[w]
           /\ \A p \in Pools : \A i \in 1 .. Len(queue[p]) :
                queue[p][i] \notin free
<1>1. \A p \in Pools : \A i \in 1 .. Len(queue[p]) : queue[p][i] \in Queued
  BY DEF Queued, QueueRange
<1>2. \A w \in Workers : wctx[w] # NoCtx => wctx[w] \in Held
  BY DEF Held
<1> QED
  BY <1>1, <1>2 DEF CtxConservation, InHand

\* A worker that neither moves nor has its context touched keeps its place.
LEMMA WorkerSame ==
    ASSUME NEW v \in Workers, WorkerPlace(v), wpc'[v] = wpc[v], wctx'[v] = wctx[v],
           wctx[v] # NoCtx => ctxEntry'[wctx[v]] = ctxEntry[wctx[v]]
    PROVE  WorkerPlace(v)'
  BY DEF WorkerPlace, Running, Waiting, Entry, Sequenced

\* Nor does a ring that is not touched.
LEMMA RingSame ==
    ASSUME NEW p \in Pools, RingPlace(p), queue'[p] = queue[p],
           \A i \in 1 .. Len(queue[p]) :
             ctxEntry'[queue[p][i]] = ctxEntry[queue[p][i]]
    PROVE  RingPlace(p)'
  BY DEF RingPlace

\* A step of one worker that moves no context leaves every other place alone.
LEMMA OneWorkerMoves ==
    ASSUME NEW w \in Workers, Places, WorkerPlace(w)',
           UNCHANGED <<dpc, cycle, pos, dctx, ctxEntry, queue, wctx>>,
           \A v \in Workers : v # w => wpc'[v] = wpc[v]
    PROVE  Places'
<1>1. DispatchPlace'
  BY DEF Places, DispatchPlace, Current, Slot
<1>2. \A v \in Workers : WorkerPlace(v)'
  <2>1. ASSUME NEW v \in Workers, v # w PROVE WorkerPlace(v)'
    BY <2>1, WorkerSame DEF Places
  <2> QED
    BY <2>1
<1>3. \A p \in Pools : RingPlace(p)'
  BY RingSame DEF Places
<1> QED
  BY <1>1, <1>2, <1>3 DEF Places

\* Nor does a step of the dispatch thread that moves no context.
LEMMA DispatchMoves ==
    ASSUME Places, DispatchPlace', UNCHANGED <<ctxEntry, queue, wctx, wpc>>
    PROVE  Places'
<1>1. \A v \in Workers : WorkerPlace(v)'
  BY WorkerSame DEF Places
<1>2. \A p \in Pools : RingPlace(p)'
  BY RingSame DEF Places
<1> QED
  BY <1>1, <1>2 DEF Places

\* Nor does a step of another thread.
LEMMA NobodyMoves ==
    ASSUME Places,
           UNCHANGED <<dpc, cycle, pos, dctx, ctxEntry, queue, wctx, wpc>>
    PROVE  Places'
<1>1. DispatchPlace'
  BY DEF Places, DispatchPlace, Current, Slot
<1> QED
  BY <1>1, DispatchMoves

\* No step puts a thread at a step without its context.
LEMMA PlacesStep ==
    ASSUME Assumptions, TypeOK, Places, CtxConservation, [Next]_vars
    PROVE  Places'
<1> USE DEF Assumptions
<1>a. Len(Slot) \in Nat /\ (dpc \notin {"idle", "ended"} => Current \in Entries)
  BY CurrentRow
<1>1. CASE BeginCycle
  <2>1. DispatchPlace'
    BY <1>1, <1>a, NextRowType DEF BeginCycle, Places, DispatchPlace, TypeOK, Current, Slot
  <2> QED
    BY <1>1, <2>1, DispatchMoves DEF BeginCycle, workerVars
<1>2. CASE PassOver
  <2>1. DispatchPlace'
    BY <1>2, <1>a, NextRowType DEF PassOver, Places, DispatchPlace, TypeOK, Current, Slot
  <2> QED
    BY <1>2, <2>1, DispatchMoves DEF PassOver, workerVars
<1>3. CASE CheckRunning
  <2>1. DispatchPlace'
    BY <1>3, <1>a, NextRowType DEF CheckRunning, Flagged, GivenUp, Places, DispatchPlace, TypeOK, Current, Slot
  <2> QED
    BY <1>3, <2>1, DispatchMoves DEF CheckRunning, Flagged, GivenUp, workerVars
<1>4. CASE Acquire
  <2>1. DispatchPlace'
    <3>1. CASE Avail(Current) = {} /\ NextRow /\ UNCHANGED <<dctx, free>>
      BY <1>4, <3>1, NextRowType DEF Acquire, Places, DispatchPlace
    <3>2. ASSUME NEW c \in Avail(Current), dctx' = c, dpc' = "mark"
          PROVE  DispatchPlace'
      BY <1>4, <3>2 DEF DispatchPlace, Avail, TypeOK, PoolAssumption
    <3> QED
      BY <1>4, <3>1, <3>2 DEF Acquire
  <2> QED
    BY <1>4, <2>1 DEF Acquire, Places, WorkerPlace, RingPlace, Entry, workerVars
<1>5. CASE MarkDispatched
  <2>1. dctx \in Ctxs /\ ctxEntry'[dctx] = Current /\ Current' = Current
    BY <1>5 DEF MarkDispatched, Marked, Places, DispatchPlace, TypeOK, Current, Slot
  <2>2. \A c \in Ctxs : c # dctx => ctxEntry'[c] = ctxEntry[c]
    BY <1>5 DEF MarkDispatched, Marked, TypeOK
  <2>3. DispatchPlace'
    BY <1>5, <2>1 DEF MarkDispatched, Marked, Places, DispatchPlace
  <2>4. ASSUME NEW w \in Workers PROVE WorkerPlace(w)'
    BY <1>5, <2>1, <2>2, Apart, WorkerSame DEF MarkDispatched, Marked, Places, DispatchPlace, TypeOK, workerVars
  <2>5. ASSUME NEW p \in Pools PROVE RingPlace(p)'
    <3>1. \A i \in 1 .. Len(queue[p]) : queue[p][i] \in Ctxs /\ queue[p][i] # dctx
      BY <2>1, Apart DEF TypeOK, PoolAssumption
    <3> QED
      BY <1>5, <2>2, <3>1, RingSame DEF MarkDispatched, Marked, Places
  <2> QED
    BY <2>3, <2>4, <2>5 DEF Places
<1>6. CASE EnqueueStopCheck
  <2>1. DispatchPlace'
    BY <1>6, <1>a, NextRowType DEF EnqueueStopCheck, Places, DispatchPlace, TypeOK, Current, Slot
  <2> QED
    BY <1>6, <2>1, DispatchMoves DEF EnqueueStopCheck, workerVars
<1>7. CASE Push
  <2>1. PoolFor(Current) \in Pools /\ dctx \in Ctxs /\ ctxEntry[dctx] \in Entries
    BY <1>7, <1>a, PoolOfRow DEF Push, Places, DispatchPlace, TypeOK
  <2>2. DispatchPlace'
    BY <1>7 DEF Push, Places, DispatchPlace, Current, Slot
  <2>3. \A w \in Workers : WorkerPlace(w)'
    BY <1>7, WorkerSame DEF Push, Places, workerVars
  <2>4. ASSUME NEW p \in Pools PROVE RingPlace(p)'
    <3>1. CASE queue'[p] = queue[p]
      BY <1>7, <3>1, RingSame DEF Push, Places
    <3>2. CASE queue'[p] = Append(queue[p], dctx)
      <4>1. queue[p] \in Seq(Ctxs)
        BY DEF TypeOK
      <4>2. \A i \in 1 .. Len(queue'[p]) :
              \/ i \in 1 .. Len(queue[p]) /\ queue'[p][i] = queue[p][i]
              \/ queue'[p][i] = dctx
        BY <2>1, <3>2, <4>1
      <4> QED
        <5>1. ctxEntry' = ctxEntry /\ RingPlace(p)
          BY <1>7 DEF Push, Places
        <5>2. ASSUME NEW i \in 1 .. Len(queue'[p])
              PROVE  ctxEntry[queue'[p][i]] \in Entries
          BY <2>1, <4>2, <5>1, <5>2 DEF RingPlace
        <5> QED
          BY <5>1, <5>2 DEF RingPlace
    <3>3. queue \in [Pools -> Seq(Ctxs)]
      BY DEF TypeOK
    <3>4. \/ queue' = queue
          \/ queue' = [queue EXCEPT ![PoolFor(Current)] = Append(@, dctx)]
      BY <1>7 DEF Push
    <3>5. queue'[p] = queue[p] \/ queue'[p] = Append(queue[p], dctx)
      BY <2>1, <3>3, <3>4
    <3> QED
      BY <3>1, <3>2, <3>5
  <2> QED
    BY <2>2, <2>3, <2>4 DEF Places
<1>8. CASE Signal
  <2>1. DispatchPlace'
    BY <1>8, <1>a, NextRowType DEF Signal, Wakeup, Places, DispatchPlace, TypeOK, Current, Slot
  <2> QED
    BY <1>8, <2>1, DispatchMoves DEF Signal, Wakeup, workerVars
<1>9. CASE ReleaseRefused
  <2>1. dctx \in Ctxs
    BY <1>9 DEF ReleaseRefused, Freed, Places, DispatchPlace, TypeOK
  <2>2. \A c \in Ctxs : c # dctx => ctxEntry'[c] = ctxEntry[c]
    BY <1>9 DEF ReleaseRefused, Freed, TypeOK
  <2>3. DispatchPlace'
    BY <1>9 DEF ReleaseRefused, Freed, Places, DispatchPlace
  <2>4. ASSUME NEW w \in Workers PROVE WorkerPlace(w)'
    BY <1>9, <2>1, <2>2, Apart, WorkerSame DEF ReleaseRefused, Freed, Places, DispatchPlace, TypeOK, workerVars
  <2>5. ASSUME NEW p \in Pools PROVE RingPlace(p)'
    <3>1. \A i \in 1 .. Len(queue[p]) : queue[p][i] \in Ctxs /\ queue[p][i] # dctx
      BY <2>1, Apart DEF TypeOK, PoolAssumption
    <3> QED
      BY <1>9, <2>2, <3>1, RingSame DEF ReleaseRefused, Freed, Places
  <2> QED
    BY <2>3, <2>4, <2>5 DEF Places
<1>10. CASE Unmark
  <2>1. DispatchPlace'
    BY <1>10, <1>a, NextRowType DEF Unmark, Cleared, Places, DispatchPlace, TypeOK, Current, Slot
  <2> QED
    BY <1>10, <2>1, DispatchMoves DEF Unmark, Cleared, workerVars
<1>11. CASE DispatchEnd
  <2>1. DispatchPlace'
    BY <1>11, <1>a, NextRowType DEF DispatchEnd, Places, DispatchPlace, TypeOK, Current, Slot
  <2> QED
    BY <1>11, <2>1, DispatchMoves DEF DispatchEnd, workerVars
<1>12. ASSUME NEW e \in Lockable, ToggleLock(e)
      PROVE  Places'
  BY <1>12, NobodyMoves DEF ToggleLock, dispatchVars, workerVars
<1>13. ASSUME NEW w \in Workers, AcquirePermit(w)
      PROVE  Places'
  <2>1. /\ UNCHANGED <<dpc, cycle, pos, dctx, ctxEntry, queue, wctx>>
        /\ \A v \in Workers : v # w => wpc'[v] = wpc[v]
        /\ WorkerPlace(w) /\ wpc[w] = "wait" /\ wpc'[w] = "pop"
    BY <1>13 DEF AcquirePermit, Places, TypeOK, dispatchVars
  <2>2. WorkerPlace(w)'
    BY <2>1 DEF WorkerPlace, Running, Waiting, Entry, Sequenced
  <2> QED
    BY <2>1, <2>2, OneWorkerMoves
<1>14. ASSUME NEW w \in Workers, Pop(w)
      PROVE  Places'
  <2> DEFINE pool == WorkerPool[w]
  <2>1. pool \in Pools /\ queue[pool] \in Seq(Ctxs)
    BY DEF PoolAssumption, TypeOK
  <2>2. DispatchPlace'
    BY <1>14 DEF Pop, HasWork, Places, DispatchPlace, Current, Slot, dispatchVars
  <2>3. CASE queue[pool] = <<>>
    <3>1. /\ UNCHANGED <<dpc, cycle, pos, dctx, ctxEntry, queue, wctx>>
          /\ wpc[w] = "pop"
          /\ wpc' = [wpc EXCEPT ![w] = IF poolStop[pool] THEN "exit" ELSE "wait"]
      BY <1>14, <2>3 DEF Pop, HasWork, dispatchVars
    <3>2. /\ wpc'[w] \in {"exit", "wait"} /\ WorkerPlace(w)
          /\ \A v \in Workers : v # w => wpc'[v] = wpc[v]
      BY <3>1 DEF Places, TypeOK
    <3>3. WorkerPlace(w)'
      BY <3>1, <3>2 DEF WorkerPlace, Running, Waiting, Entry
    <3> QED
      BY <3>1, <3>2, <3>3, OneWorkerMoves
  <2>4. CASE queue[pool] # <<>>
    <3> DEFINE c == Head(queue[pool])
    <3>1. /\ c \in Ctxs /\ c = queue[pool][1] /\ 1 \in 1 .. Len(queue[pool])
          /\ Len(Tail(queue[pool])) = Len(queue[pool]) - 1
          /\ \A i \in 1 .. Len(Tail(queue[pool])) :
               Tail(queue[pool])[i] = queue[pool][i + 1]
      BY <2>1, <2>4
    <3>2. ctxEntry[c] \in Entries
      BY <2>1, <3>1 DEF Places, RingPlace
    <3>3. /\ wctx' = [wctx EXCEPT ![w] = c]
          /\ queue' = [queue EXCEPT ![pool] = Tail(@)]
          /\ wpc' = [wpc EXCEPT ![w] = IF Sequenced(ctxEntry[c])
                                        THEN "phase" ELSE "exec"]
          /\ ctxEntry' = ctxEntry
      BY <1>14, <2>4 DEF Pop, HasWork
    <3> HIDE DEF c
    <3>4. WorkerPlace(w)'
      BY <3>1, <3>2, <3>3 DEF WorkerPlace, Running, Waiting, TypeOK, Entry, Sequenced, PoolAssumption
    <3>5. \A v \in Workers \ {w} : WorkerPlace(v)'
      BY <3>3, WorkerSame DEF Places, TypeOK
    <3>6. RingPlace(pool)'
      <4>1. queue'[pool] = Tail(queue[pool])
        BY <2>1, <3>3 DEF TypeOK
      <4>2. \A i \in 1 .. Len(Tail(queue[pool])) : i + 1 \in 1 .. Len(queue[pool])
        BY <2>1, <3>1
      <4> QED
        BY <2>1, <3>1, <3>3, <4>1, <4>2 DEF Places, RingPlace
    <3>7. \A p \in Pools \ {pool} : RingPlace(p)'
      BY <3>3, RingSame DEF Places, TypeOK
    <3> QED
      BY <2>2, <3>4, <3>5, <3>6, <3>7 DEF Places
  <2> QED
    BY <2>3, <2>4
<1>15. ASSUME NEW w \in Workers, ReadPhase(w)
      PROVE  Places'
  <2>1. /\ UNCHANGED <<dpc, cycle, pos, dctx, ctxEntry, queue, wctx>>
        /\ \A v \in Workers : v # w => wpc'[v] = wpc[v]
        /\ WorkerPlace(w) /\ wpc[w] = "phase" /\ wpc'[w] \in {"exec", "abort"}
    BY <1>15 DEF ReadPhase, Places, TypeOK, dispatchVars
  <2>2. WorkerPlace(w)'
    BY <2>1 DEF WorkerPlace, Running, Waiting, Entry, Sequenced
  <2> QED
    BY <2>1, <2>2, OneWorkerMoves
<1>16. ASSUME NEW w \in Workers, ReadAbort(w)
      PROVE  Places'
  <2>1. /\ UNCHANGED <<dpc, cycle, pos, dctx, ctxEntry, queue, wctx>>
        /\ \A v \in Workers : v # w => wpc'[v] = wpc[v]
        /\ WorkerPlace(w) /\ wpc[w] = "abort" /\ wpc'[w] \in {"mark", "park"}
    BY <1>16 DEF ReadAbort, Places, TypeOK, dispatchVars
  <2>2. WorkerPlace(w)'
    BY <2>1 DEF WorkerPlace, Running, Waiting, Entry, Sequenced
  <2> QED
    BY <2>1, <2>2, OneWorkerMoves
<1>17. ASSUME NEW w \in Workers, Park(w)
      PROVE  Places'
  <2>1. /\ UNCHANGED <<dpc, cycle, pos, dctx, ctxEntry, queue, wctx>>
        /\ \A v \in Workers : v # w => wpc'[v] = wpc[v]
        /\ WorkerPlace(w) /\ wpc[w] = "park" /\ wpc'[w] \in {"parked", "phase"}
    BY <1>17 DEF Park, Places, TypeOK, dispatchVars
  <2>2. WorkerPlace(w)'
    BY <2>1 DEF WorkerPlace, Running, Waiting, Entry, Sequenced
  <2> QED
    BY <2>1, <2>2, OneWorkerMoves
<1>18. ASSUME NEW w \in Workers, Execute(w)
      PROVE  Places'
  <2>1. /\ UNCHANGED <<dpc, cycle, pos, dctx, ctxEntry, queue, wctx>>
        /\ \A v \in Workers : v # w => wpc'[v] = wpc[v]
        /\ WorkerPlace(w) /\ wpc[w] = "exec"
        /\ wpc'[w] = IF Sequenced(Entry(w)) THEN "advance" ELSE "mark"
    BY <1>18 DEF Execute, Places, TypeOK, dispatchVars
  <2>2. WorkerPlace(w)'
    BY <2>1 DEF WorkerPlace, Running, Waiting, Entry, Sequenced
  <2> QED
    BY <2>1, <2>2, OneWorkerMoves
<1>19. ASSUME NEW w \in Workers, AdvancePhase(w)
      PROVE  Places'
  <2>1. /\ UNCHANGED <<dpc, cycle, pos, dctx, ctxEntry, queue, wctx>>
        /\ \A v \in Workers : v # w => wpc'[v] = wpc[v]
        /\ WorkerPlace(w) /\ wpc[w] = "advance" /\ wpc'[w] = "notify"
    BY <1>19 DEF AdvancePhase, Places, TypeOK, dispatchVars
  <2>2. WorkerPlace(w)'
    BY <2>1 DEF WorkerPlace, Running, Waiting, Entry, Sequenced
  <2> QED
    BY <2>1, <2>2, OneWorkerMoves
<1>20. ASSUME NEW w \in Workers, Notify(w)
      PROVE  Places'
  <2>1. DispatchPlace' /\ \A p \in Pools : RingPlace(p)'
    BY <1>20, RingSame DEF Notify, Places, DispatchPlace, Current, Slot, dispatchVars
  <2>2. ASSUME NEW v \in Workers PROVE WorkerPlace(v)'
    <3>1. CASE v = w
      BY <1>20, <3>1 DEF Notify, Places, WorkerPlace, Running, Waiting, Entry
    <3>2. CASE v # w /\ v \in Woken(Group(w))
      BY <1>20, <3>2 DEF Notify, Places, WorkerPlace, Running, Waiting, Entry, Woken
    <3>3. CASE v # w /\ v \notin Woken(Group(w))
      BY <1>20, <3>3, WorkerSame DEF Notify, Places
    <3> QED
      BY <3>1, <3>2, <3>3
  <2> QED
    BY <2>1, <2>2 DEF Places
<1>21. ASSUME NEW w \in Workers, MarkCompleted(w)
      PROVE  Places'
  <2>1. /\ UNCHANGED <<dpc, cycle, pos, dctx, ctxEntry, queue, wctx>>
        /\ \A v \in Workers : v # w => wpc'[v] = wpc[v]
        /\ WorkerPlace(w) /\ wpc[w] = "mark" /\ wpc'[w] = "release"
    BY <1>21 DEF MarkCompleted, Places, TypeOK, dispatchVars
  <2>2. WorkerPlace(w)'
    BY <2>1 DEF WorkerPlace, Running, Waiting, Entry, Sequenced
  <2> QED
    BY <2>1, <2>2, OneWorkerMoves
<1>22. ASSUME NEW w \in Workers, ReleaseCtx(w)
      PROVE  Places'
  <2>1. wctx[w] \in Ctxs
    BY <1>22 DEF ReleaseCtx, Freed, Places, WorkerPlace, TypeOK
  <2>2. \A c \in Ctxs : c # wctx[w] => ctxEntry'[c] = ctxEntry[c]
    BY <1>22 DEF ReleaseCtx, Freed, TypeOK
  <2>3. DispatchPlace'
    BY <1>22, <2>1, <2>2, Apart
       DEF ReleaseCtx, Freed, Places, DispatchPlace, Current, Slot, dispatchVars, TypeOK
  <2>4. WorkerPlace(w)'
    BY <1>22 DEF ReleaseCtx, Freed, Places, WorkerPlace, Running, Waiting, Entry, TypeOK
  <2>5. ASSUME NEW v \in Workers \ {w} PROVE WorkerPlace(v)'
    <3>1. wctx[v] # NoCtx => wctx[v] \in Ctxs /\ wctx[v] # wctx[w]
      BY <2>1 DEF CtxConservation, TypeOK
    <3> QED
      BY <1>22, <2>2, <3>1, WorkerSame DEF ReleaseCtx, Freed, Places, TypeOK
  <2>6. ASSUME NEW p \in Pools PROVE RingPlace(p)'
    <3>1. \A i \in 1 .. Len(queue[p]) : queue[p][i] \in Ctxs /\ queue[p][i] # wctx[w]
      <4>1. wctx[w] # NoCtx
        BY <2>1 DEF PoolAssumption
      <4>2. queue[p] \in Seq(Ctxs)
        BY DEF TypeOK
      <4> QED
        BY <4>1, <4>2, Apart
    <3> QED
      BY <1>22, <2>2, <3>1, RingSame DEF ReleaseCtx, Freed, Places
  <2> QED
    BY <2>3, <2>4, <2>5, <2>6 DEF Places
<1>23. ASSUME NEW w \in Workers, Report(w)
      PROVE  Places'
  <2>1. /\ UNCHANGED <<dpc, cycle, pos, dctx, ctxEntry, queue, wctx>>
        /\ \A v \in Workers : v # w => wpc'[v] = wpc[v]
        /\ WorkerPlace(w) /\ wpc[w] = "report" /\ wpc'[w] = "wait"
    BY <1>23 DEF Report, Places, TypeOK, dispatchVars
  <2>2. WorkerPlace(w)'
    BY <2>1 DEF WorkerPlace, Running, Waiting, Entry, Sequenced
  <2> QED
    BY <2>1, <2>2, OneWorkerMoves
<1>24. CASE RaiseStop
  BY <1>24, NobodyMoves DEF RaiseStop, dispatchVars, workerVars
<1>25. CASE DriveCounter
  BY <1>25, NobodyMoves DEF DriveCounter, dispatchVars, workerVars
<1>26. CASE WakeWaiters
  <2>1. DispatchPlace' /\ \A p \in Pools : RingPlace(p)'
    BY <1>26, RingSame DEF WakeWaiters, Places, DispatchPlace, Current, Slot, dispatchVars
  <2>2. ASSUME NEW v \in Workers PROVE WorkerPlace(v)'
    <3>1. CASE v \in Woken(GroupOf[sidx])
      BY <1>26, <3>1 DEF WakeWaiters, Places, WorkerPlace, Running, Waiting, Entry, Woken
    <3>2. CASE v \notin Woken(GroupOf[sidx])
      BY <1>26, <3>2, WorkerSame DEF WakeWaiters, Places
    <3> QED
      BY <3>1, <3>2
  <2> QED
    BY <2>1, <2>2 DEF Places
<1>27. CASE CountersDriven
  BY <1>27, NobodyMoves DEF CountersDriven, dispatchVars, workerVars
<1>28. CASE StopPool
  BY <1>28, NobodyMoves DEF StopPool, dispatchVars, workerVars
<1>29. CASE ReleaseWorkers
  BY <1>29, NobodyMoves DEF ReleaseWorkers, StopPermits, dispatchVars, workerVars
<1>30. CASE JoinWorkers
  BY <1>30, NobodyMoves DEF JoinWorkers, dispatchVars, workerVars
<1>31. CASE UNCHANGED vars
  BY <1>31, NobodyMoves DEF vars, dispatchVars, workerVars
<1> QED
  BY <1>1, <1>2, <1>3, <1>4, <1>5, <1>6, <1>7, <1>8, <1>9, <1>10, <1>11, <1>12, <1>13, <1>14, <1>15, <1>16, <1>17, <1>18, <1>19, <1>20, <1>21, <1>22, <1>23, <1>24, <1>25, <1>26, <1>27, <1>28, <1>29, <1>30, <1>31
     DEF Next, Dispatcher, Worker, Shutdown, Stopped

\* Where nothing moves, nothing is lost.
LEMMA ConservationSame ==
    ASSUME CtxConservation, UNCHANGED <<free, dctx, queue, wctx>>
    PROVE  CtxConservation'
<1>1. InHand' = InHand /\ Held' = Held
  BY DEF InHand, Held
<1>2. \A p \in Pools : QueueRange(p)' = QueueRange(p)
  BY DEF QueueRange
<1>3. Queued' = Queued
  BY <1>2 DEF Queued
<1> QED
  BY <1>1, <1>2, <1>3 DEF CtxConservation

\* The contexts a worker takes or gives back join or leave the held ones.
LEMMA HeldTake ==
    ASSUME NEW w \in Workers, NEW c \in Ctxs, PoolAssumption, TypeOK,
           wctx[w] = NoCtx, wctx' = [wctx EXCEPT ![w] = c]
    PROVE  Held' = Held \cup {c}
<1>1. ASSUME NEW d \in Held' PROVE d \in Held \cup {c}
  BY <1>1 DEF Held, TypeOK
<1>2. c # NoCtx /\ c \in Held'
  BY DEF Held, TypeOK, PoolAssumption
<1>3. ASSUME NEW d \in Held PROVE d \in Held'
  BY <1>3 DEF Held, TypeOK
<1> QED
  BY <1>1, <1>2, <1>3

\* A worker that lets its context go takes it out of the held ones.
LEMMA HeldGive ==
    ASSUME NEW w \in Workers, TypeOK, CtxConservation,
           wctx[w] # NoCtx, wctx' = [wctx EXCEPT ![w] = NoCtx]
    PROVE  Held' = Held \ {wctx[w]}
<1>1. ASSUME NEW d \in Held' PROVE d \in Held /\ d # wctx[w]
  BY <1>1 DEF Held, TypeOK, CtxConservation
<1>2. ASSUME NEW d \in Held, d # wctx[w] PROVE d \in Held'
  BY <1>2 DEF Held, TypeOK
<1> QED
  BY <1>1, <1>2

\* A push or a pop changes the queued contexts by the one it moves.
LEMMA QueuedPush ==
    ASSUME NEW p \in Pools, NEW c \in Ctxs, TypeOK, CtxConservation,
           c \notin Queued, queue' = [queue EXCEPT ![p] = Append(@, c)]
    PROVE  /\ Queued' = Queued \cup {c}
           /\ QueueRange(p)' = QueueRange(p) \cup {c}
           /\ \A q \in Pools : Distinct(queue[q])'
           /\ \A q \in Pools \ {p} : QueueRange(q)' = QueueRange(q)
<1>1. /\ queue[p] \in Seq(Ctxs)
      /\ queue'[p] = Append(queue[p], c)
      /\ \A q \in Pools \ {p} : queue'[q] = queue[q]
  BY DEF TypeOK
<1>2. \A q \in Pools : QueueRange(q) = RangeOf(queue[q]) /\ Distinct(queue[q])
  BY DEF QueueRange, RangeOf, Distinct, CtxConservation
<1>3. c \notin RangeOf(queue[p])
  BY <1>2 DEF Queued
<1>4. RangeOf(queue'[p]) = RangeOf(queue[p]) \cup {c} /\ Distinct(queue'[p])
  BY <1>1, <1>2, <1>3, PushRange
<1>5. QueueRange(p)' = QueueRange(p) \cup {c}
  BY <1>2, <1>4 DEF QueueRange, RangeOf
<1>6. \A q \in Pools \ {p} : QueueRange(q)' = QueueRange(q)
  BY <1>1 DEF QueueRange
<1>7. Queued' = Queued \cup {c}
  BY <1>5, <1>6 DEF Queued
<1>8. \A q \in Pools : Distinct(queue[q])'
  BY <1>1, <1>2, <1>4
<1> QED
  BY <1>5, <1>6, <1>7, <1>8

\* Popping a ring takes its head, and only it, out of the queued contexts.
LEMMA QueuedPop ==
    ASSUME NEW p \in Pools, TypeOK, CtxConservation, queue[p] # <<>>,
           queue' = [queue EXCEPT ![p] = Tail(@)]
    PROVE  /\ Head(queue[p]) \in Ctxs
           /\ Head(queue[p]) \in QueueRange(p)
           /\ Head(queue[p]) \in Queued
           /\ Queued' = Queued \ {Head(queue[p])}
           /\ QueueRange(p)' = QueueRange(p) \ {Head(queue[p])}
           /\ \A q \in Pools : Distinct(queue[q])'
           /\ \A q \in Pools \ {p} : QueueRange(q)' = QueueRange(q)
<1> DEFINE c == Head(queue[p])
<1>1. /\ queue[p] \in Seq(Ctxs)
      /\ queue'[p] = Tail(queue[p])
      /\ \A q \in Pools \ {p} : queue'[q] = queue[q]
  BY DEF TypeOK
<1>2. \A q \in Pools : QueueRange(q) = RangeOf(queue[q]) /\ Distinct(queue[q])
  BY DEF QueueRange, RangeOf, Distinct, CtxConservation
<1>3. /\ c \in Ctxs /\ c \in RangeOf(queue[p])
      /\ RangeOf(queue'[p]) = RangeOf(queue[p]) \ {c}
      /\ Distinct(queue'[p])
  BY <1>1, <1>2, PopRange
<1>4. QueueRange(p)' = QueueRange(p) \ {c}
  BY <1>2, <1>3 DEF QueueRange, RangeOf
<1>5. \A q \in Pools \ {p} : QueueRange(q)' = QueueRange(q)
  BY <1>1 DEF QueueRange
<1>6. \A q \in Pools \ {p} : c \notin QueueRange(q)
  BY <1>2, <1>3 DEF CtxConservation
<1>7. c \in QueueRange(p) /\ c \in Queued
  BY <1>2, <1>3 DEF Queued
<1> HIDE DEF c
<1>8. Queued' = Queued \ {c}
  BY <1>4, <1>5, <1>6 DEF Queued
<1>9. \A q \in Pools : Distinct(queue[q])'
  BY <1>1, <1>2, <1>3
<1> QED
  BY <1>3, <1>4, <1>5, <1>7, <1>8, <1>9 DEF c

\* The parts of conservation after a step.
LEMMA ConservationParts ==
    ASSUME Ctxs = free' \cup InHand' \cup Queued' \cup Held',
           free' \cap (InHand' \cup Queued' \cup Held') = {},
           InHand' \cap (Queued' \cup Held') = {},
           Queued' \cap Held' = {},
           \A p \in Pools : Distinct(queue[p])',
           \A v, w \in Workers : wctx'[v] = wctx'[w] /\ wctx'[v] # NoCtx => v = w,
           \A p \in Pools : \A c \in QueueRange(p)' : CtxPool[c] = p,
           \A w \in Workers : wctx'[w] # NoCtx => CtxPool[wctx'[w]] = WorkerPool[w]
    PROVE  CtxConservation'
  BY DEF CtxConservation, Distinct

\* No step loses a context, doubles it or moves it to another pool.
LEMMA ConservationStep ==
    ASSUME Assumptions, TypeOK, Places, HandPool, CtxConservation, [Next]_vars
    PROVE  CtxConservation'
<1> USE DEF Assumptions
<1>1. CASE UNCHANGED <<free, dctx, queue, wctx>>
  BY <1>1, ConservationSame
<1>2. CASE Acquire
  <2>1. dctx = NoCtx
    BY <1>2 DEF Acquire, Places, DispatchPlace
  <2>2. CASE UNCHANGED <<free, dctx>>
    BY <1>2, <2>2, ConservationSame DEF Acquire, workerVars
  <2>3. ASSUME NEW c \in Avail(Current), free' = free \ {c}, dctx' = c
        PROVE  CtxConservation'
    <3>1. InHand = {} /\ InHand' = {c} /\ c \in free /\ c # NoCtx
      BY <2>1, <2>3 DEF InHand, Avail, TypeOK, PoolAssumption
    <3>2. Queued' = Queued /\ Held' = Held
      BY <1>2 DEF Acquire, Queued, QueueRange, Held, workerVars
    <3>3. \A p \in Pools : QueueRange(p)' = QueueRange(p) /\ queue'[p] = queue[p]
      BY <1>2 DEF Acquire, QueueRange
    <3> QED
      BY <1>2, <2>3, <3>1, <3>2, <3>3 DEF CtxConservation, Acquire, workerVars
  <2> QED
    BY <1>2, <2>2, <2>3 DEF Acquire
<1>3. CASE Push
  <2>0. PICK pool \in Pools : pool = PoolFor(Current)
    BY <1>3, CurrentRow, PoolOfRow DEF Push
  <2>1. dctx \in Ctxs /\ dctx # NoCtx /\ CtxPool[dctx] = pool
    BY <1>3, <2>0 DEF Push, Places, DispatchPlace, TypeOK, HandPool
  <2>2. CASE UNCHANGED <<queue, dctx>>
    BY <1>3, <2>2, ConservationSame DEF Push, workerVars
  <2>3. CASE /\ queue' = [queue EXCEPT ![pool] = Append(@, dctx)]
             /\ dctx' = NoCtx
    <3>1. InHand = {dctx} /\ InHand' = {} /\ dctx \notin Queued /\ dctx \notin free
      BY <2>1, <2>3 DEF InHand, CtxConservation
    <3>2. Held' = Held
      BY <1>3 DEF Push, Held, workerVars
    <3>3. /\ Queued' = Queued \cup {dctx}
          /\ QueueRange(pool)' = QueueRange(pool) \cup {dctx}
          /\ \A q \in Pools : Distinct(queue[q])'
          /\ \A q \in Pools \ {pool} : QueueRange(q)' = QueueRange(q)
      BY <2>1, <2>3, <3>1, QueuedPush
    <3>4. ASSUME NEW p \in Pools, NEW c \in QueueRange(p)'
          PROVE  CtxPool[c] = p
      <4>1. CASE p = pool
        <5>1. c \in QueueRange(pool) \/ c = dctx
          BY <3>3, <4>1
        <5> QED
          BY <2>1, <4>1, <5>1 DEF CtxConservation
      <4>2. CASE p # pool
        BY <3>3, <4>2 DEF CtxConservation
      <4> QED
        BY <4>1, <4>2
    <3>5. free' = free /\ wctx' = wctx
      BY <1>3 DEF Push, workerVars
    <3>6. /\ Ctxs = free' \cup InHand' \cup Queued' \cup Held'
          /\ free' \cap (InHand' \cup Queued' \cup Held') = {}
          /\ InHand' \cap (Queued' \cup Held') = {}
          /\ Queued' \cap Held' = {}
      BY <3>1, <3>2, <3>3, <3>5 DEF CtxConservation
    <3>7. /\ \A v, w \in Workers : wctx'[v] = wctx'[w] /\ wctx'[v] # NoCtx => v = w
          /\ \A w \in Workers : wctx'[w] # NoCtx => CtxPool[wctx'[w]] = WorkerPool[w]
      BY <3>5 DEF CtxConservation
    <3> QED
      BY <3>3, <3>4, <3>6, <3>7, ConservationParts
  <2> QED
    BY <1>3, <2>0, <2>2, <2>3 DEF Push
<1>4. CASE ReleaseRefused
  <2>1. dctx \in Ctxs /\ dctx # NoCtx /\ dctx' = NoCtx /\ free' = free \cup {dctx}
    BY <1>4 DEF ReleaseRefused, Freed, Places, DispatchPlace, TypeOK
  <2>2. InHand = {dctx} /\ InHand' = {}
    BY <2>1 DEF InHand
  <2>3. Queued' = Queued /\ Held' = Held
    BY <1>4 DEF ReleaseRefused, Freed, Queued, QueueRange, Held, workerVars
  <2>4. \A p \in Pools : QueueRange(p)' = QueueRange(p) /\ queue'[p] = queue[p]
    BY <1>4 DEF ReleaseRefused, Freed, QueueRange
  <2> QED
    BY <1>4, <2>1, <2>2, <2>3, <2>4 DEF CtxConservation, ReleaseRefused, Freed, workerVars
<1>5. ASSUME NEW w \in Workers, Pop(w)
      PROVE  CtxConservation'
  <2> DEFINE pool == WorkerPool[w]  c == Head(queue[pool])
  <2>1. pool \in Pools /\ wctx[w] = NoCtx /\ free' = free /\ dctx' = dctx
    BY <1>5 DEF Pop, HasWork, PoolAssumption, Places, WorkerPlace, Running, Waiting, dispatchVars
  <2>2. CASE UNCHANGED <<wctx, queue>>
    BY <1>5, <2>1, <2>2, ConservationSame
  <2>3. CASE /\ queue[pool] # <<>>
             /\ wctx' = [wctx EXCEPT ![w] = c]
             /\ queue' = [queue EXCEPT ![pool] = Tail(@)]
    <3>1. /\ c \in Ctxs /\ c \in QueueRange(pool) /\ c \in Queued
          /\ Queued' = Queued \ {c}
          /\ QueueRange(pool)' = QueueRange(pool) \ {c}
          /\ \A q \in Pools : Distinct(queue[q])'
          /\ \A q \in Pools \ {pool} : QueueRange(q)' = QueueRange(q)
      BY <2>1, <2>3, QueuedPop
    <3> HIDE DEF c
    <3>2. Held' = Held \cup {c}
      BY <2>1, <2>3, <3>1, HeldTake
    <3>3. InHand' = InHand
      BY <2>1 DEF InHand
    <3>4. /\ Ctxs = free' \cup InHand' \cup Queued' \cup Held'
          /\ free' \cap (InHand' \cup Queued' \cup Held') = {}
          /\ InHand' \cap (Queued' \cup Held') = {}
          /\ Queued' \cap Held' = {}
      BY <2>1, <3>1, <3>2, <3>3 DEF CtxConservation
    <3>5. \A v \in Workers : wctx[v] # c
      <4>1. c \notin Held /\ c # NoCtx
        BY <3>1 DEF CtxConservation, PoolAssumption
      <4> QED
        BY <4>1 DEF Held
    <3>6. \A u, v \in Workers : wctx'[u] = wctx'[v] /\ wctx'[u] # NoCtx => u = v
      BY <2>3, <3>5 DEF CtxConservation, TypeOK
    <3>7. \A v \in Workers : wctx'[v] # NoCtx => CtxPool[wctx'[v]] = WorkerPool[v]
      BY <2>1, <2>3, <3>1 DEF CtxConservation, TypeOK
    <3>8. \A p \in Pools : \A d \in QueueRange(p)' : CtxPool[d] = p
      BY <3>1 DEF CtxConservation
    <3> QED
      BY <3>1, <3>4, <3>6, <3>7, <3>8, ConservationParts
  <2> QED
    BY <1>5, <2>2, <2>3 DEF Pop, HasWork
<1>6. ASSUME NEW w \in Workers, ReleaseCtx(w)
      PROVE  CtxConservation'
  <2>1. /\ wctx[w] \in Ctxs /\ wctx[w] # NoCtx
        /\ free' = free \cup {wctx[w]} /\ wctx' = [wctx EXCEPT ![w] = NoCtx]
        /\ UNCHANGED <<dctx, queue>>
    BY <1>6 DEF ReleaseCtx, Freed, Places, WorkerPlace, TypeOK, dispatchVars
  <2>2. Held' = Held \ {wctx[w]} /\ wctx[w] \in Held
    BY <2>1, HeldGive DEF Held
  <2>3. InHand' = InHand /\ Queued' = Queued
    BY <2>1 DEF InHand, Queued, QueueRange
  <2>4. /\ Ctxs = free' \cup InHand' \cup Queued' \cup Held'
        /\ free' \cap (InHand' \cup Queued' \cup Held') = {}
        /\ InHand' \cap (Queued' \cup Held') = {}
        /\ Queued' \cap Held' = {}
    BY <2>1, <2>2, <2>3 DEF CtxConservation
  <2>5. \A u, v \in Workers : wctx'[u] = wctx'[v] /\ wctx'[u] # NoCtx => u = v
    BY <2>1 DEF CtxConservation, TypeOK
  <2>6. \A v \in Workers : wctx'[v] # NoCtx => CtxPool[wctx'[v]] = WorkerPool[v]
    BY <2>1 DEF CtxConservation, TypeOK
  <2>7. \A p \in Pools : Distinct(queue[p])' /\ QueueRange(p)' = QueueRange(p)
    BY <2>1 DEF CtxConservation, Distinct, QueueRange
  <2> QED
    <3>1. \A p \in Pools : \A c \in QueueRange(p)' : CtxPool[c] = p
      BY <2>7 DEF CtxConservation
    <3> QED
      BY <2>4, <2>5, <2>6, <2>7, <3>1, ConservationParts
<1> QED
  BY <1>1, <1>2, <1>3, <1>4, <1>5, <1>6
     DEF Next, Dispatcher, Worker, Shutdown, Stopped, vars, dispatchVars, workerVars,
         BeginCycle, PassOver, CheckRunning, Flagged, GivenUp, MarkDispatched, Marked, EnqueueStopCheck,
         Signal, Wakeup, Unmark, Cleared, DispatchEnd, ToggleLock, AcquirePermit, ReadPhase,
         ReadAbort, Park, Execute, AdvancePhase, Notify, MarkCompleted, Report,
         RaiseStop, DriveCounter, WakeWaiters, CountersDriven, StopPool,
         ReleaseWorkers, StopPermits, JoinWorkers

\* The hand's context stays of the row's pool.
LEMMA HandPoolStep ==
    ASSUME Assumptions, TypeOK, Places, HandPool, [Next]_vars
    PROVE  HandPool'
<1> USE DEF Assumptions
<1>1. CASE UNCHANGED <<dctx, cycle, pos>>
  BY <1>1 DEF HandPool, PoolFor, Current, Slot
<1>2. CASE BeginCycle \/ PassOver \/ CheckRunning \/ Signal \/ Unmark
  BY <1>2 DEF BeginCycle, PassOver, CheckRunning, Flagged, GivenUp, Signal, Wakeup, Unmark, Cleared, HandPool,
              Places, DispatchPlace
<1>3. CASE Acquire
  <2>1. dctx = NoCtx
    BY <1>3 DEF Acquire, Places, DispatchPlace
  <2>2. CASE UNCHANGED dctx
    BY <2>1, <2>2 DEF HandPool
  <2>3. ASSUME NEW c \in Avail(Current), dctx' = c, UNCHANGED <<pos, cycle>>
        PROVE  HandPool'
    BY <2>3 DEF HandPool, Avail, PoolFor, Current, Slot
  <2> QED
    BY <1>3, <2>2, <2>3 DEF Acquire
<1>4. CASE Push \/ ReleaseRefused
  BY <1>1, <1>4 DEF Push, ReleaseRefused, Freed, HandPool
<1> QED
  BY <1>1, <1>2, <1>3, <1>4
     DEF Next, Dispatcher, Worker, Shutdown, Stopped, vars, dispatchVars,
         MarkDispatched, Marked, EnqueueStopCheck, DispatchEnd, ToggleLock,
         AcquirePermit, Pop, HasWork, ReadPhase, ReadAbort, Park, Execute, AdvancePhase,
         Notify, MarkCompleted, ReleaseCtx, Freed, Report, RaiseStop, DriveCounter,
         WakeWaiters, CountersDriven, StopPool, ReleaseWorkers, StopPermits, JoinWorkers

----------------------------------------------------------------------------
(* Runs in flight.                                                         *)

\* While no thread crosses a dispatch or a completion mark, the runs of the
\* workers and of the dispatch thread are what they were.
LEMMA OnWorkersSame ==
    ASSUME wctx' = wctx,
           \A v \in Workers : wpc'[v] \in Running <=> wpc[v] \in Running
    PROVE  OnWorkers' = OnWorkers
  BY DEF OnWorkers, Running, Waiting

\* The dispatch thread keeps the run on its pad until it lets the context go.
LEMMA OnPadSame ==
    ASSUME dctx' = dctx,
           dpc' \in {"enqueue", "push"} <=> dpc \in {"enqueue", "push"}
    PROVE  OnPad' = OnPad
  BY DEF OnPad

\* A run in flight is held by a thread or queued: what is neither is not one.
LEMMA FlightPlaces ==
    ASSUME Assumptions, TypeOK, Places, CtxConservation
    PROVE  /\ InFlight \subseteq Queued \cup Held \cup InHand
           /\ InFlight \subseteq Ctxs
           /\ dpc \notin {"enqueue", "push"} => dctx \notin InFlight
           /\ \A w \in Workers : wpc[w] = "release" => wctx[w] \notin InFlight
<1>1. OnWorkers \subseteq Held
  BY DEF OnWorkers, Held, Places, WorkerPlace
<1>2. OnPad \subseteq InHand
  BY DEF OnPad, InHand, Places, DispatchPlace
<1>3. InFlight \subseteq Queued \cup Held \cup InHand
  BY <1>1, <1>2 DEF InFlight
<1>4. InFlight \subseteq Ctxs
  BY <1>3 DEF CtxConservation
<1>5. ASSUME dpc \notin {"enqueue", "push"} PROVE dctx \notin InFlight
  <2>1. CASE dctx = NoCtx
    BY <1>4, <2>1 DEF Assumptions, PoolAssumption
  <2>2. CASE dctx # NoCtx
    <3>1. OnPad = {}
      BY <1>5 DEF OnPad
    <3>2. dctx \in InHand
      BY <2>2 DEF InHand
    <3> QED
      BY <1>1, <3>1, <3>2 DEF InFlight, CtxConservation
  <2> QED
    BY <2>1, <2>2
<1>6. ASSUME NEW w \in Workers, wpc[w] = "release" PROVE wctx[w] \notin InFlight
  <2>1. wctx[w] \in Held /\ wctx[w] # NoCtx
    BY <1>6 DEF Held, Places, WorkerPlace
  <2>2. wctx[w] \notin OnWorkers
    <3>1. \A v \in Workers : wctx[v] = wctx[w] => v = w
      BY <2>1 DEF CtxConservation
    <3> QED
      BY <1>6, <3>1 DEF OnWorkers, Running, Waiting
  <2> QED
    BY <1>2, <2>1, <2>2 DEF InFlight, CtxConservation
<1> QED
  BY <1>3, <1>4, <1>5, <1>6

Crossing ==
    \/ MarkDispatched
    \/ dpc \in {"enqueue", "push"} /\ dpc' = "release"
    \/ \E w \in Workers : MarkCompleted(w)

\* Between the two marks of a run only its place changes.
LEMMA FlightSame ==
    ASSUME Assumptions, TypeOK, Places, CtxConservation, [Next]_vars, ~Crossing
    PROVE  /\ InFlight' = InFlight
           /\ \A c \in InFlight : ctxEntry'[c] = ctxEntry[c]
<1> USE DEF Assumptions
<1> DEFINE Same == /\ InFlight' = InFlight
                   /\ \A c \in InFlight : ctxEntry'[c] = ctxEntry[c]
<1>1. CASE /\ UNCHANGED <<queue, wctx, dctx, ctxEntry>>
           /\ dpc' \in {"enqueue", "push"} <=> dpc \in {"enqueue", "push"}
           /\ \A v \in Workers : wpc'[v] \in Running <=> wpc[v] \in Running
  <2>1. Queued' = Queued
    BY <1>1 DEF Queued, QueueRange
  <2>2. OnWorkers' = OnWorkers
    BY <1>1, OnWorkersSame
  <2>3. OnPad' = OnPad
    BY <1>1, OnPadSame
  <2> QED
    BY <1>1, <2>1, <2>2, <2>3 DEF InFlight
<1>2. ASSUME BeginCycle \/ PassOver \/ CheckRunning \/ Signal \/ Unmark
      PROVE  Same
  BY <1>2, <1>1 DEF BeginCycle, PassOver, CheckRunning, Flagged, GivenUp, Signal, Wakeup, Unmark, Cleared, NextRow, workerVars
<1>3. ASSUME Acquire PROVE Same
  <2>1. OnPad' = {} /\ OnPad = {}
    BY <1>3 DEF Acquire, NextRow, OnPad, Avail
  <2> QED
    BY <1>3, <2>1, OnWorkersSame DEF Acquire, workerVars, InFlight, Queued, QueueRange
<1>4. ASSUME EnqueueStopCheck PROVE Same
  BY <1>4, <1>1 DEF EnqueueStopCheck, workerVars, Crossing
<1>5. ASSUME Push PROVE Same
  <2>1. PICK pool \in Pools : pool = PoolFor(Current)
    BY <1>5, CurrentRow, PoolOfRow DEF Push
  <2>2. /\ queue' = [queue EXCEPT ![pool] = Append(@, dctx)]
        /\ dctx' = NoCtx /\ dpc' = "signal" /\ dctx \in Ctxs /\ dctx # NoCtx
    BY <1>5, <2>1 DEF Push, Crossing, Places, DispatchPlace, TypeOK
  <2>3. dctx \notin Queued
    BY <2>2 DEF InHand, CtxConservation
  <2>4. Queued' = Queued \cup {dctx}
    BY <2>2, <2>3, QueuedPush
  <2>5. OnPad = {dctx} /\ OnPad' = {}
    BY <1>5, <2>2 DEF Push, OnPad
  <2>6. OnWorkers' = OnWorkers /\ ctxEntry' = ctxEntry
    BY <1>5, OnWorkersSame DEF Push, workerVars
  <2> QED
    BY <2>4, <2>5, <2>6 DEF InFlight
<1>6. ASSUME ReleaseRefused PROVE Same
  <2>1. dctx \in Ctxs /\ dctx \notin InFlight
    BY <1>6, FlightPlaces DEF ReleaseRefused, Freed, Places, DispatchPlace, TypeOK
  <2>2. \A c \in InFlight : ctxEntry'[c] = ctxEntry[c]
    BY <1>6, <2>1, FlightPlaces DEF ReleaseRefused, Freed, TypeOK
  <2>3. OnPad' = {} /\ OnPad = {}
    BY <1>6 DEF ReleaseRefused, Freed, OnPad
  <2> QED
    BY <1>6, <2>2, <2>3, OnWorkersSame
       DEF ReleaseRefused, Freed, workerVars, InFlight, Queued, QueueRange
<1>7. ASSUME DispatchEnd \/ RaiseStop \/ DriveCounter \/ CountersDriven \/ StopPool
               \/ ReleaseWorkers \/ JoinWorkers \/ UNCHANGED vars
               \/ (\E e \in Lockable : ToggleLock(e))
      PROVE  Same
  BY <1>7, <1>1 DEF DispatchEnd, RaiseStop, DriveCounter, CountersDriven, StopPool,
     ReleaseWorkers, StopPermits, JoinWorkers, ToggleLock, vars, workerVars, dispatchVars
<1>8. ASSUME WakeWaiters PROVE Same
  BY <1>8, <1>1 DEF WakeWaiters, Woken, Running, Waiting, dispatchVars
<1>9. ASSUME NEW w \in Workers,
             \/ AcquirePermit(w) \/ ReadPhase(w) \/ ReadAbort(w) \/ Park(w)
             \/ Execute(w) \/ AdvancePhase(w) \/ Report(w)
      PROVE  Same
  <2>1. /\ UNCHANGED <<queue, wctx, dctx, ctxEntry, dpc>>
        /\ \A v \in Workers : v # w => wpc'[v] = wpc[v]
    BY <1>9 DEF AcquirePermit, ReadPhase, ReadAbort, Park, Execute, AdvancePhase,
       Report, dispatchVars, TypeOK
  <2>2. ASSUME AcquirePermit(w) PROVE wpc'[w] \in Running <=> wpc[w] \in Running
    BY <2>2 DEF AcquirePermit, Running, Waiting, TypeOK
  <2>3. ASSUME ReadPhase(w) PROVE wpc'[w] \in Running <=> wpc[w] \in Running
    BY <2>3 DEF ReadPhase, Running, Waiting, TypeOK
  <2>4. ASSUME ReadAbort(w) PROVE wpc'[w] \in Running <=> wpc[w] \in Running
    BY <2>4 DEF ReadAbort, Running, Waiting, TypeOK
  <2>5. ASSUME Park(w) PROVE wpc'[w] \in Running <=> wpc[w] \in Running
    BY <2>5 DEF Park, Running, Waiting, TypeOK
  <2>6. ASSUME Execute(w) PROVE wpc'[w] \in Running <=> wpc[w] \in Running
    BY <2>6 DEF Execute, Running, Waiting, TypeOK
  <2>7. ASSUME AdvancePhase(w) PROVE wpc'[w] \in Running <=> wpc[w] \in Running
    BY <2>7 DEF AdvancePhase, Running, Waiting, TypeOK
  <2>8. ASSUME Report(w) PROVE wpc'[w] \in Running <=> wpc[w] \in Running
    BY <2>8 DEF Report, Running, Waiting, TypeOK
  <2>9. wpc'[w] \in Running <=> wpc[w] \in Running
    BY <1>9, <2>2, <2>3, <2>4, <2>5, <2>6, <2>7, <2>8
  <2>10. \A v \in Workers : wpc'[v] \in Running <=> wpc[v] \in Running
    BY <2>1, <2>9
  <2> QED
    BY <1>1, <2>1, <2>10
<1>10. ASSUME NEW w \in Workers, Notify(w) PROVE Same
  BY <1>10, <1>1 DEF Notify, Woken, Running, Waiting, dispatchVars
<1>11. ASSUME NEW w \in Workers, Pop(w) PROVE Same
  <2>1. CASE UNCHANGED <<wctx, queue>>
    BY <1>11, <2>1, <1>1, QueuedPop DEF Pop, HasWork, Running, Waiting, dispatchVars, TypeOK
  <2> DEFINE pool == WorkerPool[w]  c == Head(queue[pool])
  <2>2. CASE /\ queue[pool] # <<>>
             /\ wctx' = [wctx EXCEPT ![w] = c]
             /\ queue' = [queue EXCEPT ![pool] = Tail(@)]
             /\ wpc' = [wpc EXCEPT ![w] = IF Sequenced(ctxEntry[c])
                                          THEN "phase" ELSE "exec"]
    <3>1. Queued' = Queued \ {c} /\ c \in Queued /\ c \in Ctxs
      BY <2>2, QueuedPop DEF PoolAssumption
    <3> HIDE DEF c
    <3>2. /\ wpc[w] = "pop" /\ wpc'[w] \in Running /\ wctx'[w] = c
          /\ \A v \in Workers : v # w => wpc'[v] = wpc[v] /\ wctx'[v] = wctx[v]
      BY <1>11, <2>2 DEF Pop, HasWork, TypeOK, Running, Waiting
    <3>3. OnWorkers' = OnWorkers \cup {c}
      <4>1. ASSUME NEW d \in OnWorkers' PROVE d \in OnWorkers \cup {c}
        BY <3>2, <4>1 DEF OnWorkers, Running, Waiting
      <4>2. ASSUME NEW d \in OnWorkers PROVE d \in OnWorkers'
        <5>1. PICK v \in Workers : wpc[v] \in Running /\ d = wctx[v]
          BY <4>2 DEF OnWorkers
        <5>2. v # w
          BY <3>2, <5>1 DEF Running, Waiting
        <5> QED
          BY <3>2, <5>1, <5>2 DEF OnWorkers, Running, Waiting
      <4>3. c \in OnWorkers'
        BY <3>2 DEF OnWorkers, Running, Waiting
      <4> QED
        BY <4>1, <4>2, <4>3
    <3>4. OnPad' = OnPad /\ ctxEntry' = ctxEntry
      BY <1>11, OnPadSame DEF Pop, HasWork, dispatchVars
    <3> QED
      BY <3>1, <3>3, <3>4 DEF InFlight
  <2> QED
    BY <1>11, <2>1, <2>2 DEF Pop, HasWork
<1>12. ASSUME NEW w \in Workers, ReleaseCtx(w) PROVE Same
  <2>1. /\ wctx[w] \in Ctxs /\ wctx[w] \notin InFlight
        /\ wpc[w] = "release" /\ wpc'[w] \notin Running
        /\ \A v \in Workers : v # w => wpc'[v] = wpc[v] /\ wctx'[v] = wctx[v]
    BY <1>12, FlightPlaces
       DEF ReleaseCtx, Freed, Places, WorkerPlace, TypeOK, Running, Waiting
  <2>2. \A c \in InFlight : ctxEntry'[c] = ctxEntry[c]
    BY <1>12, <2>1, FlightPlaces DEF ReleaseCtx, Freed, TypeOK
  <2>3. OnWorkers' = OnWorkers
    <3>1. ASSUME NEW d \in OnWorkers' PROVE d \in OnWorkers
      <4>1. PICK v \in Workers : wpc'[v] \in Running /\ d = wctx'[v]
        BY <3>1 DEF OnWorkers, Running, Waiting
      <4> QED
        BY <2>1, <4>1 DEF OnWorkers
    <3>2. ASSUME NEW d \in OnWorkers PROVE d \in OnWorkers'
      <4>1. PICK v \in Workers : wpc[v] \in Running /\ d = wctx[v]
        BY <3>2 DEF OnWorkers
      <4>2. v # w
        BY <2>1, <4>1 DEF Running, Waiting
      <4> QED
        BY <2>1, <4>1, <4>2 DEF OnWorkers, Running, Waiting
    <3> QED
      BY <3>1, <3>2
  <2>4. OnPad' = OnPad
    BY <1>12, OnPadSame DEF ReleaseCtx, Freed, dispatchVars
  <2> QED
    BY <1>12, <2>2, <2>3, <2>4 DEF ReleaseCtx, Freed, InFlight, Queued, QueueRange
<1> QED
  BY <1>2, <1>3, <1>4, <1>5, <1>6, <1>7, <1>8, <1>9, <1>10, <1>11, <1>12
     DEF Next, Dispatcher, Worker, Shutdown, Stopped, Crossing

\* The dispatch mark puts one run in flight.
LEMMA Launch ==
    ASSUME Assumptions, TypeOK, Places, CtxConservation, MarkDispatched
    PROVE  /\ InFlight' = InFlight \cup {dctx}
           /\ dctx \notin InFlight
           /\ ctxEntry'[dctx] = Current
           /\ \A c \in InFlight : ctxEntry'[c] = ctxEntry[c]
<1>1. dctx \in Ctxs /\ dctx \notin InFlight
  BY FlightPlaces DEF MarkDispatched, Marked, Places, DispatchPlace, TypeOK
<1>2. ctxEntry'[dctx] = Current /\ \A c \in InFlight : ctxEntry'[c] = ctxEntry[c]
  BY <1>1, FlightPlaces DEF MarkDispatched, Marked, TypeOK
<1>3. OnPad' = {dctx} /\ OnPad = {}
  BY DEF MarkDispatched, Marked, OnPad
<1>4. Queued' = Queued /\ OnWorkers' = OnWorkers
  BY OnWorkersSame DEF MarkDispatched, Marked, Queued, QueueRange, workerVars
<1> QED
  BY <1>1, <1>2, <1>3, <1>4 DEF InFlight

\* A refused enqueue takes it out again.
LEMMA Refused ==
    ASSUME Assumptions, TypeOK, Places, CtxConservation,
           EnqueueStopCheck \/ Push, dpc' = "release"
    PROVE  /\ InFlight' = InFlight \ {dctx}
           /\ dctx \in InFlight /\ ctxEntry[dctx] = Current
           /\ UNCHANGED <<ctxEntry, isRunning, violation, pos, cycle>>
<1>1. dpc \in {"enqueue", "push"} /\ UNCHANGED <<ctxEntry, isRunning, violation, pos, cycle>>
  BY DEF EnqueueStopCheck, Push
<1>2. dctx \in Ctxs /\ dctx # NoCtx /\ ctxEntry[dctx] = Current
  BY <1>1 DEF Places, DispatchPlace, TypeOK
<1>3. OnPad = {dctx} /\ OnPad' = {}
  BY <1>1 DEF OnPad
<1>4. UNCHANGED <<queue, dctx, wctx, wpc>>
  BY DEF EnqueueStopCheck, Push, workerVars
<1>5. Queued' = Queued
  BY <1>4 DEF Queued, QueueRange
<1>6. OnWorkers' = OnWorkers
  BY <1>4, OnWorkersSame
<1>7. dctx \notin Queued /\ dctx \notin OnWorkers
  <2>1. dctx \in InHand
    BY <1>2 DEF InHand
  <2>2. OnWorkers \subseteq Held
    BY DEF OnWorkers, Held, Places, WorkerPlace
  <2> QED
    BY <2>1, <2>2 DEF CtxConservation
<1> QED
  BY <1>1, <1>2, <1>3, <1>5, <1>6, <1>7 DEF InFlight

\* The completion mark ends one run.
LEMMA Landed ==
    ASSUME Assumptions, TypeOK, Places, CtxConservation,
           NEW w \in Workers, MarkCompleted(w)
    PROVE  /\ InFlight' = InFlight \ {wctx[w]}
           /\ wctx[w] \in InFlight /\ Entry(w) \in Entries
           /\ UNCHANGED <<ctxEntry, violation, dpc, pos, cycle>>
<1>1. /\ wpc[w] = "mark" /\ wpc'[w] = "release"
      /\ \A v \in Workers \ {w} : wpc'[v] = wpc[v]
      /\ UNCHANGED <<ctxEntry, violation, dpc, dctx, pos, cycle, wctx, queue>>
  BY DEF MarkCompleted, TypeOK, dispatchVars
<1>2. wctx[w] # NoCtx /\ Entry(w) \in Entries
  BY <1>1 DEF Places, WorkerPlace, Running
<1>3. wctx[w] \in Held /\ wctx[w] \in OnWorkers
  BY <1>1, <1>2 DEF Held, OnWorkers, Running
<1>4. OnWorkers' = OnWorkers \ {wctx[w]}
  <2>1. ASSUME NEW d \in OnWorkers' PROVE d \in OnWorkers \ {wctx[w]}
    <3>1. PICK v \in Workers : wpc'[v] \in Running /\ d = wctx[v]
      BY <1>1, <2>1 DEF OnWorkers, Running, Waiting
    <3>2. v # w
      BY <1>1, <3>1 DEF Running, Waiting
    <3> QED
      BY <1>1, <1>2, <3>1, <3>2 DEF OnWorkers, CtxConservation
  <2>2. ASSUME NEW d \in OnWorkers, d # wctx[w] PROVE d \in OnWorkers'
    <3>1. PICK v \in Workers : wpc[v] \in Running /\ d = wctx[v]
      BY <2>2 DEF OnWorkers
    <3>2. v # w
      BY <2>2, <3>1
    <3> QED
      BY <1>1, <3>1, <3>2 DEF OnWorkers, Running, Waiting
  <2> QED
    BY <2>1, <2>2
<1>5. Queued' = Queued /\ OnPad' = OnPad
  BY <1>1 DEF Queued, QueueRange, OnPad
<1>6. wctx[w] \notin Queued /\ wctx[w] \notin OnPad
  BY <1>3 DEF CtxConservation, OnPad, InHand, Places, DispatchPlace
<1> QED
  BY <1>1, <1>2, <1>3, <1>4, <1>5, <1>6 DEF InFlight

\* The flag of a row only changes at a mark.
LEMMA FlagSame ==
    ASSUME [Next]_vars, ~Crossing, ~Unmark
    PROVE  isRunning' = isRunning
  BY DEF Next, Dispatcher, Worker, Shutdown, Stopped, Crossing, vars, stopVars,
         dispatchVars, workerVars, BeginCycle, PassOver, CheckRunning, Flagged, GivenUp, Acquire,
         EnqueueStopCheck, Push, Signal, Wakeup, ReleaseRefused, Freed, DispatchEnd,
         ToggleLock, AcquirePermit, Pop, HasWork, ReadPhase, ReadAbort, Park, Execute,
         AdvancePhase, Notify, ReleaseCtx, Report, RaiseStop, DriveCounter,
         WakeWaiters, CountersDriven, StopPool, ReleaseWorkers, StopPermits, JoinWorkers

\* Where the dispatch thread stands only changes by its own steps.
LEMMA StandSame ==
    ASSUME [Next]_vars, ~Dispatcher
    PROVE  /\ UNCHANGED <<pos, cycle, violation>>
           /\ dpc' # dpc => dpc' = "ended"
  BY DEF Next, Worker, Shutdown, Stopped, vars, stopVars,
         dispatchVars, workerVars, DispatchEnd,
         ToggleLock, AcquirePermit, Pop, HasWork, ReadPhase, ReadAbort, Park, Execute,
         AdvancePhase, Notify, MarkCompleted, ReleaseCtx, Freed, Report, RaiseStop,
         DriveCounter, WakeWaiters, CountersDriven, StopPool, ReleaseWorkers, StopPermits,
         JoinWorkers

\* A refused run stays in the undoing until its flag is cleared.
LEMMA UndoingStays ==
    ASSUME [Next]_vars, NEW e \in Entries, Undoing(e), ~Unmark
    PROVE  Undoing(e)'
<1>1. CASE ~Dispatcher
  BY <1>1, StandSame DEF Undoing, Current, Slot, Next, DispatchEnd, vars, dispatchVars,
     ToggleLock, Worker, Shutdown, Stopped,
     AcquirePermit, Pop, HasWork, ReadPhase, ReadAbort, Park, Execute,
     AdvancePhase, Notify, MarkCompleted, ReleaseCtx, Freed, Report, RaiseStop,
     DriveCounter, WakeWaiters, CountersDriven, StopPool, ReleaseWorkers, StopPermits, JoinWorkers
<1>2. CASE ReleaseRefused
  BY <1>2 DEF ReleaseRefused, Freed, Undoing, Current, Slot
<1>3. CASE Dispatcher /\ ~ReleaseRefused
  BY <1>3 DEF Dispatcher, Undoing, BeginCycle, PassOver, CheckRunning, Flagged, GivenUp, Acquire,
     MarkDispatched, Marked, EnqueueStopCheck, Push, Signal, Wakeup
<1> QED
  BY <1>1, <1>2, <1>3

\* No step leaves a flag up without a run.
LEMMA FlagStep ==
    ASSUME Assumptions, TypeOK, Places, CtxConservation, FlagHasRun, [Next]_vars
    PROVE  FlagHasRun'
<1> USE DEF Assumptions
<1> SUFFICES ASSUME NEW e \in Entries, isRunning'[e]
             PROVE  RunsOf(e)' # {} \/ Undoing(e)'
  BY DEF FlagHasRun
<1>1. CASE ~Crossing
  <2>1. RunsOf(e)' = RunsOf(e)
    BY <1>1, FlightSame DEF RunsOf
  <2>2. CASE Unmark
    <3>1. isRunning[e] /\ e # Current
      BY <2>2 DEF Unmark, Cleared, TypeOK
    <3>2. RunsOf(e) # {}
      BY <3>1 DEF FlagHasRun, Undoing
    <3> QED
      BY <2>1, <3>2
  <2>3. CASE ~Unmark
    BY <1>1, <2>1, <2>3, FlagSame, UndoingStays DEF FlagHasRun
  <2> QED
    BY <2>2, <2>3
<1>2. CASE MarkDispatched
  <2>1. CASE e = Current
    BY <1>2, <2>1, Launch DEF RunsOf
  <2>2. CASE e # Current
    <3>1. isRunning[e] /\ ~Undoing(e)
      BY <1>2, <2>2 DEF MarkDispatched, Marked, TypeOK, Undoing
    <3>2. PICK c \in InFlight : ctxEntry[c] = e
      BY <3>1 DEF FlagHasRun, RunsOf
    <3> QED
      BY <1>2, <3>2, Launch DEF RunsOf
  <2> QED
    BY <2>1, <2>2
<1>3. CASE dpc \in {"enqueue", "push"} /\ dpc' = "release"
  <2>1. EnqueueStopCheck \/ Push
    BY <1>3, StandSame DEF Dispatcher, BeginCycle, PassOver, CheckRunning, Flagged, GivenUp, Acquire,
       MarkDispatched, Marked, Signal, Wakeup, ReleaseRefused, Freed, Unmark, Cleared
  <2>2. CASE e = Current
    BY <1>3, <2>1, <2>2, Refused DEF Undoing, Current, Slot
  <2>3. CASE e # Current
    <3>1. isRunning[e] /\ ~Undoing(e)
      BY <1>3, <2>1, Refused DEF Undoing
    <3>2. PICK c \in InFlight : ctxEntry[c] = e
      BY <3>1 DEF FlagHasRun, RunsOf
    <3> QED
      BY <1>3, <2>1, <2>3, <3>2, Refused DEF RunsOf
  <2> QED
    BY <2>2, <2>3
<1>4. ASSUME NEW w \in Workers, MarkCompleted(w)
      PROVE  RunsOf(e)' # {} \/ Undoing(e)'
  <2>1. isRunning[e] /\ e # Entry(w)
    BY <1>4, Landed DEF MarkCompleted, TypeOK
  <2>2. Undoing(e) => Undoing(e)'
    BY <1>4, Landed DEF Undoing, Current, Slot
  <2>3. CASE RunsOf(e) # {}
    <3>1. PICK c \in InFlight : ctxEntry[c] = e
      BY <2>3 DEF RunsOf
    <3> QED
      BY <1>4, <2>1, <3>1, Landed DEF RunsOf, Entry
  <2> QED
    BY <2>1, <2>2, <2>3 DEF FlagHasRun
<1> QED
  BY <1>1, <1>2, <1>3, <1>4 DEF Crossing

----------------------------------------------------------------------------
(* One run per row.                                                        *)

\* The violation flag never goes down.
LEMMA TrustedStep ==
    ASSUME [Next]_vars, ModeAssumption, TypeOK, Trusted'
    PROVE  Trusted
<1>1. CASE CheckRunning
  BY <1>1 DEF CheckRunning, Flagged, GivenUp, Trusted
<1>2. CASE ~CheckRunning
  BY <1>2 DEF Trusted, Next, Dispatcher, Worker, Shutdown, Stopped, vars,
     stopVars, dispatchVars, workerVars, BeginCycle, PassOver, Acquire,
     MarkDispatched, Marked, EnqueueStopCheck, Push, Signal, Wakeup, ReleaseRefused, Freed, Unmark, Cleared,
     DispatchEnd, ToggleLock, AcquirePermit, Pop, HasWork, ReadPhase, ReadAbort, Park,
     Execute, AdvancePhase, Notify, MarkCompleted, ReleaseCtx, Report,
     RaiseStop, DriveCounter, WakeWaiters, CountersDriven, StopPool,
     ReleaseWorkers, StopPermits, JoinWorkers
<1> QED
  BY <1>1, <1>2

\* No step lets two runs of a row fly while the flags can be trusted.
LEMMA SingleFlightStep ==
    ASSUME Assumptions, TypeOK, Places, CtxConservation, SingleFlight, [Next]_vars
    PROVE  SingleFlight'
<1> USE DEF Assumptions
<1> SUFFICES ASSUME Trusted'
             PROVE  /\ \A c, d \in InFlight' : ctxEntry'[c] = ctxEntry'[d] => c = d
                    /\ \A c \in InFlight' : /\ ctxEntry'[c] \in Entries
                                            /\ isRunning'[ctxEntry'[c]]
                    /\ dpc' \in {"acquire", "mark"} => ~isRunning'[Current']
                    /\ dpc' \in {"release", "unmark"} =>
                         \A c \in InFlight' : ctxEntry'[c] # Current'
  BY DEF SingleFlight
<1>1. Trusted
  BY TrustedStep
<1>2. /\ \A c, d \in InFlight : ctxEntry[c] = ctxEntry[d] => c = d
      /\ \A c \in InFlight : ctxEntry[c] \in Entries /\ isRunning[ctxEntry[c]]
      /\ dpc \in {"acquire", "mark"} => ~isRunning[Current]
      /\ dpc \in {"release", "unmark"} => \A c \in InFlight : ctxEntry[c] # Current
  BY <1>1 DEF SingleFlight
<1>3. dpc \notin {"idle", "ended"} => Current \in Entries
  BY CurrentRow
<1>4. CASE ~Crossing
  <2>1. InFlight' = InFlight /\ \A c \in InFlight : ctxEntry'[c] = ctxEntry[c]
    BY <1>4, FlightSame
  <2>2. \A c, d \in InFlight' : ctxEntry'[c] = ctxEntry'[d] => c = d
    BY <1>2, <2>1
  <2>3. CASE Unmark
    <3>1. /\ \A f \in Entries : f # Current => isRunning'[f] = isRunning[f]
          /\ dpc' \notin {"acquire", "mark", "release", "unmark"}
      BY <2>3 DEF Unmark, Cleared, TypeOK, NextRow
    <3>2. \A c \in InFlight' : ctxEntry'[c] \in Entries /\ isRunning'[ctxEntry'[c]]
      BY <1>2, <2>1, <2>3, <3>1 DEF Unmark, Cleared
    <3> QED
      BY <2>2, <3>1, <3>2
  <2>4. CASE ~Unmark
    <3>1. isRunning' = isRunning
      BY <1>4, <2>4, FlagSame
    <3>2. CASE dpc' \in {"acquire", "mark", "release", "unmark"}
      <4>1. CASE ~Dispatcher
        <5>1. dpc' = dpc /\ Current' = Current
          BY <3>2, <4>1, StandSame DEF Current, Slot
        <5> QED
          BY <1>2, <2>1, <2>2, <3>1, <5>1
      <4>2. CASE CheckRunning
        <5>1. dpc' = "acquire" /\ UNCHANGED <<pos, cycle>>
              /\ ~(isRunning[Current] /\ SkipOnBusy)
          BY <3>2, <4>2 DEF CheckRunning, Flagged, GivenUp, NextRow
        <5>2. ~isRunning[Current] /\ Current' = Current
          BY <4>2, <5>1 DEF CheckRunning, Flagged, GivenUp, Trusted, Current, Slot
        <5> QED
          BY <1>2, <2>1, <2>2, <3>1, <5>1, <5>2
      <4>3. CASE Acquire
        <5>1. dpc = "acquire" /\ dpc' = "mark" /\ UNCHANGED <<pos, cycle>>
          BY <3>2, <4>3 DEF Acquire, NextRow
        <5> QED
          BY <1>2, <2>1, <2>2, <3>1, <5>1 DEF Current, Slot
      <4>4. CASE ReleaseRefused
        <5>1. dpc = "release" /\ dpc' = "unmark" /\ UNCHANGED <<pos, cycle>>
          BY <4>4 DEF ReleaseRefused, Freed
        <5> QED
          BY <1>2, <2>1, <2>2, <3>1, <5>1 DEF Current, Slot
      <4>5. CASE \/ BeginCycle \/ PassOver \/ Signal
                 \/ (EnqueueStopCheck \/ Push) /\ dpc' # "release"
        BY <3>2, <4>5 DEF BeginCycle, PassOver, Signal, Wakeup, EnqueueStopCheck, Push, NextRow
      <4> QED
        BY <1>4, <2>4, <4>1, <4>2, <4>3, <4>4, <4>5
           DEF Dispatcher, Crossing, EnqueueStopCheck, Push
    <3>3. CASE dpc' \notin {"acquire", "mark", "release", "unmark"}
      BY <1>2, <2>1, <2>2, <3>1, <3>3
    <3> QED
      BY <3>2, <3>3
  <2> QED
    BY <2>3, <2>4
<1>5. CASE MarkDispatched
  <2>1. dpc = "mark" /\ dpc' = "enqueue" /\ Current \in Entries
    BY <1>3, <1>5 DEF MarkDispatched, Marked
  <2>2. /\ isRunning'[Current] = TRUE
        /\ \A f \in Entries : isRunning[f] => isRunning'[f]
    BY <1>5, <2>1 DEF MarkDispatched, Marked, TypeOK
  <2>3. \A c \in InFlight : ctxEntry[c] # Current
    BY <1>2, <2>1
  <2> QED
    BY <1>2, <1>5, <2>1, <2>2, <2>3, Launch, ZenonT(40)
<1>6. CASE dpc \in {"enqueue", "push"} /\ dpc' = "release"
  <2>1. EnqueueStopCheck \/ Push
    BY <1>6, StandSame DEF Dispatcher, BeginCycle, PassOver, CheckRunning, Flagged, GivenUp, Acquire,
       MarkDispatched, Marked, Signal, Wakeup, ReleaseRefused, Freed, Unmark, Cleared
  <2>2. /\ InFlight' = InFlight \ {dctx}
        /\ dctx \in InFlight /\ ctxEntry[dctx] = Current
        /\ UNCHANGED <<ctxEntry, isRunning, violation, pos, cycle>>
    BY <1>6, <2>1, Refused
  <2>3. Current' = Current
    BY <2>2 DEF Current, Slot
  <2> QED
    BY <1>2, <1>6, <2>2, <2>3
<1>7. ASSUME NEW w \in Workers, MarkCompleted(w)
      PROVE  /\ \A c, d \in InFlight' : ctxEntry'[c] = ctxEntry'[d] => c = d
             /\ \A c \in InFlight' : /\ ctxEntry'[c] \in Entries
                                     /\ isRunning'[ctxEntry'[c]]
             /\ dpc' \in {"acquire", "mark"} => ~isRunning'[Current']
             /\ dpc' \in {"release", "unmark"} =>
                  \A c \in InFlight' : ctxEntry'[c] # Current'
  <2>1. /\ InFlight' = InFlight \ {wctx[w]}
        /\ wctx[w] \in InFlight /\ Entry(w) \in Entries
        /\ UNCHANGED <<ctxEntry, violation, dpc, pos, cycle>>
    BY <1>7, Landed
  <2>2. /\ \A f \in Entries : f # Entry(w) => isRunning'[f] = isRunning[f]
        /\ isRunning'[Entry(w)] = FALSE
    BY <1>7, <2>1 DEF MarkCompleted, TypeOK
  <2>3. Current' = Current
    BY <2>1 DEF Current, Slot
  <2>4. \A c \in InFlight' : ctxEntry[c] # Entry(w)
    BY <1>2, <2>1 DEF Entry
  <2> QED
    BY <1>2, <1>3, <2>1, <2>2, <2>3, <2>4, ZenonT(40)
<1> QED
  BY <1>4, <1>5, <1>6, <1>7 DEF Crossing

----------------------------------------------------------------------------
(* The theorems.                                                           *)

\* The invariant: types, the place of every context, and the runs they are.
IInv ==
    /\ TypeOK
    /\ Places
    /\ HandPool
    /\ CtxConservation
    /\ FlagHasRun
    /\ SingleFlight

\* The scheduler starts in the invariant: every context free, every row idle.
LEMMA InitIInv ==
    ASSUME Assumptions, Init
    PROVE  IInv
<1> USE DEF Assumptions
<1>1. Slot \in Seq(Entries)
  <2>1. 1 + (cycle % Len(Slots)) \in 1 .. Len(Slots)
    BY DEF Init, TableAssumption
  <2> QED
    BY <2>1 DEF TableAssumption, Slot
<1>2. TypeOK
  <2>1. /\ cycle \in 0 .. Pattern - 1 /\ pos \in Nat \ {0} /\ sidx \in Nat
        /\ queue \in [Pools -> Seq(Ctxs)]
        /\ ctxEntry \in [Ctxs -> Entries \cup {0}]
        /\ counter \in [Groups -> Int] /\ wcur \in [Workers -> Int]
        /\ permits \in [Pools -> Nat]
    BY DEF Init, TableAssumption
  <2>2. /\ wpc \in [Workers -> Running \cup {"wait", "pop", "release", "report",
                                            "exit"}]
        /\ wctx \in [Workers -> Ctxs \cup {NoCtx}]
        /\ dctx \in Ctxs \cup {NoCtx} /\ free \subseteq Ctxs /\ failed \subseteq Workers
        /\ dpc = "idle" /\ spc = "run"
    BY DEF Init
  <2>3. /\ locked \in [Entries -> BOOLEAN] /\ isRunning \in [Entries -> BOOLEAN]
        /\ errors \in [Pools -> BOOLEAN] /\ poolStop \in [Pools -> BOOLEAN]
        /\ violation \in BOOLEAN /\ stopping \in BOOLEAN
    BY DEF Init
  <2> QED
    BY <2>1, <2>2, <2>3 DEF TypeOK
<1>3. Places
  BY DEF Init, Places, DispatchPlace, WorkerPlace, RingPlace, Running, Waiting
<1>4. HandPool
  BY DEF Init, HandPool
<1>5. Queued = {} /\ Held = {} /\ InHand = {}
  BY DEF Init, Queued, QueueRange, Held, InHand
<1>6. CtxConservation
  BY <1>5 DEF Init, CtxConservation, QueueRange
<1>7. FlagHasRun
  BY DEF Init, FlagHasRun
<1>8. InFlight = {}
  <2>1. OnWorkers = {} /\ OnPad = {}
    BY DEF Init, OnWorkers, OnPad, Running, Waiting
  <2> QED
    BY <1>5, <2>1 DEF InFlight
<1>9. SingleFlight
  BY <1>8 DEF Init, SingleFlight
<1> QED
  BY <1>2, <1>3, <1>4, <1>6, <1>7, <1>9 DEF IInv

\* No step of any thread leaves the invariant.
LEMMA StepIInv ==
    ASSUME Assumptions, IInv, [Next]_vars
    PROVE  IInv'
  BY TypeStep, PlacesStep, HandPoolStep, ConservationStep, FlagStep,
     SingleFlightStep DEF IInv

\* What the assumptions on the constants say, together.
LEMMA Given == Assumptions
  BY TableAssumption, GroupAssumption, PoolAssumption, ModeAssumption DEF Assumptions

\* The inductive invariant holds in every state the scheduler reaches.
THEOREM Invariance == Spec => []IInv
<1>1. Init => IInv
  BY Given, InitIInv
<1>2. IInv /\ [Next]_vars => IInv'
  BY Given, StepIInv
<1> QED
  BY <1>1, <1>2, PTL DEF Spec

\* Every variable keeps to the values the code can give it.
THEOREM TypeCorrect == Spec => []TypeOK
<1>1. IInv => TypeOK
  BY DEF IInv
<1> QED
  BY <1>1, Invariance, PTL

\* Contexts are neither lost nor doubled, and stay in the pool they were
\* preallocated for, whatever is dropped, refused, aborted or shut down.
THEOREM Conservation == Spec => []CtxConservation
<1>1. IInv => CtxConservation
  BY DEF IInv
<1> QED
  BY <1>1, Invariance, PTL

\* A row reads as running only while a run of it is in flight.
THEOREM FlagNeverStale == Spec => []FlagHasRun
<1>1. IInv => FlagHasRun
  BY DEF IInv
<1> QED
  BY <1>1, Invariance, PTL

\* Two runs of a row are never in flight together in skip mode, and in the
\* other modes not before the violation flag is up.
THEOREM NoDoubleRun == Spec => []OneRunInFlight
<1>1. IInv => OneRunInFlight
  BY DEF IInv, SingleFlight, OneRunInFlight, Trusted
<1> QED
  BY <1>1, Invariance, PTL

\* And just as long a run in flight is always flagged.
THEOREM FlagNeverMissing == Spec => []RunIsFlagged
<1>1. IInv => RunIsFlagged
  BY DEF IInv, SingleFlight, RunIsFlagged, RunsOf, Trusted
<1> QED
  BY <1>1, Invariance, PTL

----------------------------------------------------------------------------
(* The end of shutdown().                                                  *)

\* When the dispatch thread has ended first: a worker leaves only when its pool
\* has stopped and its ring is empty, and a pool is left when its workers have.
StopInv ==
    JoinFirst =>
      /\ spc # "run" => dpc = "ended"
      /\ \A p \in Pools : poolStop[p] => spc # "run"
      /\ \A w \in Workers : wpc[w] = "exit" =>
           poolStop[WorkerPool[w]] /\ queue[WorkerPool[w]] = <<>>
      /\ spc \in {"stop", "permit", "join"} =>
           \A w \in Workers : WorkerPool[w] < sidx => wpc[w] = "exit"
      /\ spc = "done" => \A w \in Workers : wpc[w] = "exit"

\* A worker that has left stays away, and a step of the workers fills no ring.
LEMMA WorkerLeaves ==
    ASSUME Assumptions, TypeOK, NEW w \in Workers, Worker(w)
    PROVE  /\ UNCHANGED <<dpc, spc, sidx, poolStop>>
           /\ \A v \in Workers : wpc[v] = "exit" => wpc'[v] = "exit"
           /\ \A p \in Pools : queue[p] = <<>> => queue'[p] = <<>>
           /\ \A v \in Workers : wpc'[v] = "exit" =>
                \/ wpc[v] = "exit"
                \/ poolStop[WorkerPool[v]] /\ queue'[WorkerPool[v]] = <<>>
<1> USE DEF Assumptions
<1>1. CASE Pop(w)
  <2>1. UNCHANGED <<dpc, spc, sidx, poolStop>>
    BY <1>1 DEF Pop, dispatchVars, stopVars
  <2>2. WorkerPool[w] \in Pools
    BY DEF PoolAssumption
  <2>3. /\ \A v \in Workers : v # w => wpc'[v] = wpc[v]
        /\ wpc[w] = "pop"
    BY <1>1 DEF Pop, TypeOK
  <2>4. CASE HasWork(WorkerPool[w])
    <3>1. /\ queue' = [queue EXCEPT ![WorkerPool[w]] = Tail(@)]
          /\ wpc'[w] # "exit"
      BY <1>1, <2>4 DEF Pop, TypeOK
    <3> QED BY <2>1, <2>3, <2>4, <3>1 DEF HasWork, TypeOK
  <2>5. CASE ~HasWork(WorkerPool[w])
    <3>1. /\ queue' = queue /\ queue[WorkerPool[w]] = <<>>
          /\ wpc'[w] = "exit" => poolStop[WorkerPool[w]]
      BY <1>1, <2>5 DEF Pop, HasWork, TypeOK
    <3> QED BY <2>1, <2>3, <3>1
  <2> QED BY <2>4, <2>5
<1>2. CASE ~Pop(w)
  <2>1. UNCHANGED <<dpc, spc, sidx, poolStop, queue>>
    BY <1>2 DEF Worker, AcquirePermit, ReadPhase, ReadAbort, Park, Execute, AdvancePhase,
       Notify, MarkCompleted, ReleaseCtx, Report, dispatchVars, stopVars
  <2>2. \A v \in Workers : wpc'[v] = "exit" <=> wpc[v] = "exit"
    <3>1. CASE Notify(w)
      BY <3>1 DEF Notify, Woken, TypeOK
    <3>2. CASE AcquirePermit(w) \/ ReadPhase(w) \/ ReadAbort(w) \/ Park(w)
      BY <3>2 DEF AcquirePermit, ReadPhase, ReadAbort, Park, TypeOK
    <3>3. CASE Execute(w) \/ AdvancePhase(w)
      BY <3>3 DEF Execute, AdvancePhase, TypeOK
    <3>4. CASE MarkCompleted(w)
      BY <3>4 DEF MarkCompleted, TypeOK
    <3>5. CASE ReleaseCtx(w)
      BY <3>5 DEF ReleaseCtx, TypeOK
    <3>6. CASE Report(w)
      BY <3>6 DEF Report, TypeOK
    <3> QED BY <1>2, <3>1, <3>2, <3>3, <3>4, <3>5, <3>6 DEF Worker
  <2> QED BY <2>1, <2>2
<1> QED BY <1>1, <1>2

\* No step takes a pool out of the order in which it is shut down.
LEMMA StopStep ==
    ASSUME Assumptions, TypeOK, StopInv, [Next]_vars
    PROVE  StopInv'
<1> USE DEF Assumptions
<1>a. \A w \in Workers : WorkerPool[w] \in Pools
  BY DEF PoolAssumption
<1> SUFFICES ASSUME JoinFirst PROVE StopInv'
  BY DEF StopInv
<1>1. CASE Dispatcher \/ DispatchEnd
  <2>1. UNCHANGED <<spc, sidx, poolStop, wpc>> /\ dpc # "ended"
    BY <1>1 DEF Dispatcher, DispatchEnd, BeginCycle, PassOver, CheckRunning, Acquire,
       MarkDispatched, EnqueueStopCheck, Push, Signal, ReleaseRefused, Unmark, stopVars, workerVars
  <2>2. spc = "run"
    BY <2>1 DEF StopInv
  <2>3. \A p \in Pools : ~poolStop[p]
    BY <2>2 DEF StopInv
  <2>4. \A w \in Workers : wpc[w] # "exit"
    BY <2>3, <1>a DEF StopInv
  <2> QED BY <2>1, <2>2, <2>3, <2>4 DEF StopInv
<1>2. ASSUME NEW e \in Lockable, ToggleLock(e) PROVE StopInv'
  BY <1>2 DEF ToggleLock, StopInv, stopVars, workerVars
<1>3. ASSUME NEW w \in Workers, Worker(w) PROVE StopInv'
  BY <1>3, <1>a, WorkerLeaves DEF StopInv
<1>4. CASE RaiseStop
  BY <1>4 DEF RaiseStop, StopInv, TypeOK, Pools, PoolAssumption, dispatchVars, workerVars
<1>5. CASE DriveCounter
  BY <1>5 DEF DriveCounter, StopInv, dispatchVars, workerVars
<1>6. CASE WakeWaiters
  <2>1. \A v \in Workers : wpc'[v] = "exit" <=> wpc[v] = "exit"
    BY <1>6 DEF WakeWaiters, Woken, TypeOK
  <2> QED BY <1>6, <2>1 DEF WakeWaiters, StopInv, dispatchVars
<1>7. CASE CountersDriven
  BY <1>7, <1>a DEF CountersDriven, StopInv, dispatchVars, workerVars, Pools
<1>8. CASE StopPool
  <2>1. CASE sidx \in Pools
    BY <1>8, <2>1 DEF StopPool, StopInv, TypeOK, dispatchVars, workerVars
  <2>2. CASE sidx \notin Pools
    <3>1. \A w \in Workers : WorkerPool[w] < sidx
      BY <2>2, <1>a DEF Pools, TypeOK, PoolAssumption
    <3> QED BY <1>8, <2>2, <3>1 DEF StopPool, StopInv, dispatchVars, workerVars
  <2> QED BY <2>1, <2>2
<1>9. CASE ReleaseWorkers
  BY <1>9 DEF ReleaseWorkers, StopInv, dispatchVars, workerVars
<1>10. CASE JoinWorkers
  BY <1>10, <1>a DEF JoinWorkers, StopInv, TypeOK, Pools, dispatchVars, workerVars
<1>11. CASE UNCHANGED vars
  BY <1>11 DEF StopInv, vars, dispatchVars, workerVars, stopVars
<1> QED
  BY <1>1, <1>2, <1>3, <1>4, <1>5, <1>6, <1>7, <1>8, <1>9, <1>10, <1>11
     DEF Next, Shutdown, Stopped

\* Each pool has a worker: 0 threads are resolved to the number of cores.
PoolsHaveWorkers == \A p \in Pools : \E w \in Workers : WorkerPool[w] = p

\* When shutdown() returns after the dispatch thread ended, every ring is
\* empty, every context is back and no row reads as running.
THEOREM StopIsClean == PoolsHaveWorkers => (Spec => []CleanStop)
<1> SUFFICES ASSUME PoolsHaveWorkers PROVE Spec => []CleanStop
  OBVIOUS
<1>1. Init => IInv /\ StopInv
  <2>1. Init => StopInv
    BY Given DEF Init, StopInv, Assumptions, PoolAssumption
  <2> QED BY <2>1, Given, InitIInv
<1>2. IInv /\ StopInv /\ [Next]_vars => (IInv /\ StopInv)'
  BY Given, StepIInv, StopStep DEF IInv
<1>3. IInv /\ StopInv => CleanStop
  <2> SUFFICES ASSUME IInv, StopInv, spc = "done", JoinFirst
               PROVE  /\ \A p \in Pools : queue[p] = <<>>
                      /\ free = Ctxs
                      /\ \A e \in Entries : ~isRunning[e]
    BY DEF CleanStop
  <2>1. dpc = "ended" /\ \A w \in Workers : wpc[w] = "exit"
    BY DEF StopInv
  <2>2. \A p \in Pools : queue[p] = <<>>
    BY <2>1 DEF StopInv, PoolsHaveWorkers
  <2>3. dctx = NoCtx
    BY <2>1 DEF IInv, Places, DispatchPlace
  <2>4. \A w \in Workers : wctx[w] = NoCtx
    BY <2>1 DEF IInv, Places, WorkerPlace, Running, Waiting
  <2>5. Queued = {}
    BY <2>2 DEF Queued, QueueRange
  <2>6. InHand = {} /\ Held = {}
    BY <2>3, <2>4 DEF InHand, Held
  <2>7. free = Ctxs
    BY <2>5, <2>6 DEF IInv, CtxConservation
  <2>8. OnWorkers = {} /\ OnPad = {}
    BY <2>1 DEF OnWorkers, OnPad, Running, Waiting
  <2>9. \A e \in Entries : RunsOf(e) = {} /\ ~Undoing(e)
    BY <2>1, <2>5, <2>8 DEF RunsOf, InFlight, Undoing
  <2> QED BY <2>2, <2>7, <2>9 DEF IInv, FlagHasRun
<1> QED
  BY <1>1, <1>2, <1>3, PTL DEF Spec

----------------------------------------------------------------------------
(* Phases: what is left of a group in a frame.                             *)

\* The rows of the slot that the walk has still to dispatch in this frame.
FirstToCome == IF dpc \in {"visit", "acquire", "mark"} THEN pos ELSE pos + 1

ToCome ==
    IF dpc \in {"idle", "ended"} THEN {}
    ELSE {e \in Entries : Due(e) /\ \E i \in FirstToCome .. Len(Slot) : Slot[i] = e}

\* The rows that have a run not yet counted, and those of a group that are still
\* to be counted in this frame.
Uncounted == {ctxEntry[c] : c \in Unfinished}
Left(g)   == {e \in Members(g) : e \in ToCome \cup Uncounted}

RunPool == \A c \in InFlight : PoolFor(ctxEntry[c]) = CtxPool[c]

\* Until shutdown() or, in the executive's order, even then.
Orderly == JoinFirst \/ ~stopping

DropInv ==
    /\ stopping <=> spc # "run"
    /\ \A p \in Pools : poolStop[p] => stopping
    /\ JoinFirst /\ stopping => dpc = "ended"
    /\ Orderly => dpc \notin {"release", "unmark"}

FrameInv ==
    /\ dpc \in {"acquire", "mark", "enqueue", "push", "signal"} => Due(Current)
    /\ \A e \in ToCome : Sequenced(e) => ~isRunning[e]
    /\ \A e \in Entries : locked[e] => e \in Lockable

\* The counter says how many rows of the frame are counted, and is back at one
\* when all are.
CountInv ==
    ~stopping => \A g \in Groups :
      counter[g] = IF Left(g) = {} THEN 1
                   ELSE 1 + Cardinality(Members(g)) - Cardinality(Left(g))

\* It never says more than the rows that were counted with nothing left before
\* them.
PassInv ==
    Orderly => \A g \in Groups : Left(g) # {} =>
      \E D \in SUBSET (Members(g) \ Left(g)) :
        /\ counter[g] <= 1 + Cardinality(D)
        /\ \A h \in D : Lower(h) \cap Left(g) = {}

\* A row that executes has nothing left before it.
ExecInv ==
    Orderly => \A w \in Workers :
      wpc[w] \in {"exec", "advance"} /\ Sequenced(Entry(w)) =>
        Lower(Entry(w)) \cap Left(Group(w)) = {}

----------------------------------------------------------------------------
(* Rows that have a run not yet counted.                                   *)


Counting == {"notify", "mark"}
CountedCtxs == {wctx[w] : w \in {v \in Workers : wpc[v] \in Counting}}

\* A worker's run ends: it is counted, aborted, or is not of a group.
Ending(w) == wpc[w] \in Running \ Counting /\ wpc'[w] \in Counting

Turned == dpc \in {"enqueue", "push"} /\ dpc' = "release"

\* A set that can be told apart by members of a finite one is no larger.
LEMMA OneEach ==
    ASSUME NEW S, NEW T, IsFiniteSet(T), NEW f \in [S -> T],
           \A a, b \in S : f[a] = f[b] => a = b
    PROVE  IsFiniteSet(S) /\ Cardinality(S) <= Cardinality(T)
<1>1. f \in Injection(S, T) BY DEF Injection, IsInjective
<1> QED BY <1>1, FS_Injection

\* Only an ending run joins the counted ones, only a marked one leaves them.
LEMMA CountedSame ==
    ASSUME TypeOK,
           \A v \in Workers : wpc'[v] \in Counting <=> wpc[v] \in Counting,
           \A v \in Workers : wpc[v] \in Counting => wctx'[v] = wctx[v]
    PROVE  CountedCtxs' = CountedCtxs
  BY DEF CountedCtxs

\* A run is unfinished while it is in flight and not counted.
LEMMA UnfinishedIs ==
    Unfinished = InFlight \ CountedCtxs
  BY DEF Unfinished, CountedCtxs, Counting

\* A step in which no run is dispatched, turned away or ended.
LEMMA UnfinishedSame ==
    ASSUME Assumptions, TypeOK, Places, CtxConservation, [Next]_vars,
           ~MarkDispatched, ~Turned, \A w \in Workers : ~Ending(w)
    PROVE  /\ Unfinished' = Unfinished
           /\ \A c \in Unfinished : ctxEntry'[c] = ctxEntry[c]
<1>1. CASE \E w \in Workers : MarkCompleted(w)
  <2>1. PICK w \in Workers : MarkCompleted(w) BY <1>1
  <2>2. /\ InFlight' = InFlight \ {wctx[w]} /\ ctxEntry' = ctxEntry
    BY <2>1, Landed
  <2>3. /\ wpc[w] = "mark" /\ wpc'[w] = "release" /\ wctx' = wctx
        /\ \A v \in Workers : v # w => wpc'[v] = wpc[v]
    BY <2>1 DEF MarkCompleted, TypeOK
  <2>4. wctx[w] # NoCtx
    BY <2>3 DEF Places, WorkerPlace, Running
  <2>5. CountedCtxs' = CountedCtxs \ {wctx[w]}
    <3>1. \A v \in Workers : v # w => wctx[v] # wctx[w]
      BY <2>4 DEF CtxConservation
    <3> QED BY <2>3, <3>1 DEF CountedCtxs, Counting
  <2>6. wctx[w] \in CountedCtxs BY <2>3 DEF CountedCtxs, Counting
  <2> QED BY <2>2, <2>5, <2>6, UnfinishedIs DEF Unfinished, CountedCtxs, Counting
<1>2. CASE \A w \in Workers : ~MarkCompleted(w)
  <2>1. ~Crossing BY <1>2 DEF Crossing, Turned
  <2>2. InFlight' = InFlight /\ \A c \in InFlight : ctxEntry'[c] = ctxEntry[c]
    BY <2>1, FlightSame
  <2> DEFINE Keep == /\ \A v \in Workers : wpc'[v] \in Counting <=> wpc[v] \in Counting
                     /\ \A v \in Workers : wpc[v] \in Counting => wctx'[v] = wctx[v]
  <2>3. Keep
    <3>1. CASE UNCHANGED <<wpc, wctx>> BY <3>1
    <3>2. ASSUME NEW w \in Workers, Worker(w) PROVE Keep
      <4>1. CASE Notify(w) BY <4>1 DEF Notify, Woken, TypeOK, Counting
      <4>2. CASE AcquirePermit(w) \/ Pop(w) \/ ReleaseCtx(w) \/ Report(w)
        BY <4>2 DEF AcquirePermit, Pop, ReleaseCtx, Report, TypeOK, Counting
      <4>3. CASE ReadPhase(w) \/ ReadAbort(w) \/ Park(w) \/ Execute(w) \/ AdvancePhase(w)
        <5>1. /\ wctx' = wctx /\ wpc[w] \in Running \ Counting
              /\ \A v \in Workers : v # w => wpc'[v] = wpc[v]
          BY <4>3 DEF ReadPhase, ReadAbort, Park, Execute, AdvancePhase, TypeOK, Counting, Running, Waiting
        <5> QED BY <5>1 DEF Ending
      <4> QED BY <3>2, <1>2, <4>1, <4>2, <4>3 DEF Worker
    <3>3. CASE WakeWaiters
      BY <3>3 DEF WakeWaiters, Woken, TypeOK, Counting
    <3>4. CASE /\ ~WakeWaiters /\ \A w \in Workers : ~Worker(w)
      <4>1. UNCHANGED <<wpc, wctx>>
        BY <3>4 DEF Next, Dispatcher, Shutdown, Stopped, vars, dispatchVars, workerVars,
         BeginCycle, PassOver, CheckRunning, Acquire, MarkDispatched, EnqueueStopCheck, Push,
         Signal, ReleaseRefused, Unmark, DispatchEnd, ToggleLock, RaiseStop, DriveCounter,
         CountersDriven, StopPool, ReleaseWorkers, JoinWorkers
      <4> QED BY <4>1
    <3> QED BY <3>2, <3>3, <3>4
  <2> QED BY <2>2, <2>3, CountedSame, UnfinishedIs DEF Unfinished, CountedCtxs, Counting
<1> QED BY <1>1, <1>2

\* The steps that end a run, and what they leave alone.
LEMMA EndingSteps ==
    ASSUME TypeOK, [Next]_vars, NEW w \in Workers, Ending(w)
    PROVE  /\ \/ AdvancePhase(w)
              \/ Execute(w) /\ ~Sequenced(Entry(w))
              \/ ReadAbort(w) /\ stopping
           /\ UNCHANGED <<dispatchVars, isRunning, free, ctxEntry, queue, wctx, stopVars>>
           /\ \A v \in Workers : v # w => wpc'[v] = wpc[v]
<1>1. wpc[w] \in {"phase", "abort", "park", "parked", "exec", "advance"}
      /\ wpc'[w] \in {"notify", "mark"}
  BY DEF Ending, Running, Waiting, Counting
<1>2. PICK v \in Workers : Worker(v) \/ WakeWaiters
  <2>1. CASE ~WakeWaiters /\ \A v \in Workers : ~Worker(v)
    <3>1. wpc' = wpc
      BY <2>1 DEF Next, Dispatcher, Shutdown, Stopped, vars, dispatchVars, workerVars,
         BeginCycle, PassOver, CheckRunning, Acquire, MarkDispatched, EnqueueStopCheck, Push,
         Signal, ReleaseRefused, Unmark, DispatchEnd, ToggleLock, RaiseStop, DriveCounter,
         CountersDriven, StopPool, ReleaseWorkers, JoinWorkers
    <3> QED BY <1>1, <3>1
  <2> QED BY <2>1
<1>3. ~WakeWaiters
  BY <1>1 DEF WakeWaiters, Woken, TypeOK
<1>4. v = w
  <2>1. CASE Notify(v) BY <1>1, <2>1 DEF Notify, Woken, TypeOK
  <2>2. CASE ~Notify(v)
    <3>1. \A u \in Workers : u # v => wpc'[u] = wpc[u]
      BY <1>2, <1>3, <2>2 DEF Worker, AcquirePermit, Pop, ReadPhase, ReadAbort, Park, Execute,
         AdvancePhase, MarkCompleted, ReleaseCtx, Report, TypeOK
    <3> QED BY <1>1, <3>1
  <2> QED BY <2>1, <2>2
<1>5. Worker(w) BY <1>2, <1>3, <1>4
<1>6. \/ AdvancePhase(w)
      \/ Execute(w) /\ ~Sequenced(Entry(w))
      \/ ReadAbort(w) /\ stopping
  <2>1. ~AcquirePermit(w) /\ ~Pop(w) /\ ~Notify(w) /\ ~MarkCompleted(w) /\ ~ReleaseCtx(w) /\ ~Report(w)
    BY <1>1 DEF AcquirePermit, Pop, Notify, MarkCompleted, ReleaseCtx, Report
  <2>2. ~ReadPhase(w) /\ ~Park(w)
    BY <1>1 DEF ReadPhase, Park, TypeOK
  <2>3. Execute(w) => ~Sequenced(Entry(w))
    BY <1>1 DEF Execute, TypeOK
  <2>4. ReadAbort(w) => stopping
    BY <1>1 DEF ReadAbort, TypeOK
  <2> QED BY <1>5, <2>1, <2>2, <2>3, <2>4 DEF Worker
<1> QED BY <1>6 DEF AdvancePhase, Execute, ReadAbort, dispatchVars, stopVars, TypeOK

\* It takes the context of its run, and no other, out of the unfinished ones.
LEMMA UnfinishedEnds ==
    ASSUME Assumptions, TypeOK, Places, CtxConservation, [Next]_vars,
           NEW w \in Workers, Ending(w)
    PROVE  /\ wctx[w] \in Unfinished
           /\ Unfinished' = Unfinished \ {wctx[w]}
<1>1. /\ wctx' = wctx /\ \A v \in Workers : v # w => wpc'[v] = wpc[v]
      /\ UNCHANGED <<dispatchVars, queue, ctxEntry>>
  BY EndingSteps
<1>2. wctx[w] # NoCtx
  BY DEF Ending, Places, WorkerPlace
<1>3. \A v \in Workers : v # w => wctx[v] # wctx[w]
  BY <1>2 DEF CtxConservation
<1>4. CountedCtxs' = CountedCtxs \cup {wctx[w]} /\ wctx[w] \notin CountedCtxs
  BY <1>1, <1>3 DEF CountedCtxs, Ending
<1>5. InFlight' = InFlight /\ wctx[w] \in InFlight
  <2>1. wctx[w] \in OnWorkers BY DEF OnWorkers, Ending
  <2>2. \A v \in Workers : wpc'[v] \in Running <=> wpc[v] \in Running
    BY <1>1 DEF Ending, Running, Waiting, Counting
  <2>3. OnWorkers' = OnWorkers BY <1>1, <2>2, OnWorkersSame
  <2>4. OnPad' = OnPad /\ Queued' = Queued BY <1>1 DEF OnPad, Queued, QueueRange, dispatchVars
  <2> QED BY <2>1, <2>3, <2>4 DEF InFlight
<1> QED BY <1>4, <1>5, UnfinishedIs DEF Unfinished, CountedCtxs, Counting

\* A dispatch mark adds one.
LEMMA UnfinishedStarts ==
    ASSUME Assumptions, TypeOK, Places, CtxConservation, MarkDispatched
    PROVE  /\ Unfinished' = Unfinished \cup {dctx}
           /\ ctxEntry'[dctx] = Current
           /\ \A c \in Unfinished : ctxEntry'[c] = ctxEntry[c]
<1>1. /\ InFlight' = InFlight \cup {dctx} /\ dctx \notin InFlight
      /\ ctxEntry'[dctx] = Current
      /\ \A c \in InFlight : ctxEntry'[c] = ctxEntry[c]
  BY Launch
<1>2. CountedCtxs' = CountedCtxs
  BY DEF MarkDispatched, CountedCtxs, workerVars
<1>3. dctx \notin CountedCtxs
  <2>1. dctx # NoCtx /\ dctx \in InHand
    BY DEF MarkDispatched, Places, DispatchPlace, InHand
  <2>2. CountedCtxs \subseteq Held \cup {NoCtx}
    BY DEF CountedCtxs, Held
  <2> QED BY <2>1, <2>2 DEF CtxConservation
<1> QED BY <1>1, <1>2, <1>3, UnfinishedIs DEF Unfinished, CountedCtxs, Counting

\* The rows behind these contexts.
LEMMA UncountedRows ==
    ASSUME IInv, SkipOnBusy
    PROVE  /\ \A e \in Uncounted : e \in Entries /\ isRunning[e]
           /\ \A c, d \in Unfinished : ctxEntry[c] = ctxEntry[d] => c = d
  BY UnfinishedIs DEF IInv, SingleFlight, Trusted, Uncounted

\* The rows behind the unfinished runs change as the runs do: not at all ...
LEMMA UncountedSame ==
    ASSUME Assumptions, IInv, [Next]_vars,
           ~MarkDispatched, ~Turned, \A w \in Workers : ~Ending(w)
    PROVE  Uncounted' = Uncounted
  BY UnfinishedSame DEF Uncounted, IInv

\* ... by the row whose run ends ...
LEMMA UncountedEnds ==
    ASSUME Assumptions, IInv, SkipOnBusy, [Next]_vars, NEW w \in Workers, Ending(w)
    PROVE  /\ Entry(w) \in Uncounted
           /\ Uncounted' = Uncounted \ {Entry(w)}
<1>1. wctx[w] \in Unfinished /\ Unfinished' = Unfinished \ {wctx[w]}
  BY UnfinishedEnds DEF IInv
<1>2. ctxEntry' = ctxEntry BY EndingSteps DEF IInv
<1> QED BY <1>1, <1>2, UncountedRows DEF Uncounted, Entry

\* ... and by the row that is dispatched.
LEMMA UncountedStarts ==
    ASSUME Assumptions, IInv, MarkDispatched
    PROVE  Uncounted' = Uncounted \cup {Current}
  BY UnfinishedStarts DEF Uncounted, IInv

\* The walk of another thread's step stands still.
LEMMA ToComeSame ==
    ASSUME [Next]_vars, ~Dispatcher
    PROVE  ToCome' = ToCome
<1>1. UNCHANGED <<pos, cycle>>
  BY StandSame
<1>2. CASE DispatchEnd
  BY <1>2 DEF DispatchEnd, ToCome
<1>3. CASE ~DispatchEnd
  <2>1. dpc' = dpc
    BY <1>3 DEF Next, Worker, Shutdown, Stopped, vars, stopVars,
         dispatchVars, workerVars, ToggleLock, AcquirePermit, Pop, ReadPhase, ReadAbort, Park,
         Execute, AdvancePhase, Notify, MarkCompleted, ReleaseCtx, Report, RaiseStop,
         DriveCounter, WakeWaiters, CountersDriven, StopPool, ReleaseWorkers, JoinWorkers
  <2> QED BY <1>1, <2>1 DEF ToCome, FirstToCome, Due, Slot
<1> QED BY <1>2, <1>3

\* The row the walk is at, and what a step to the next one leaves to come.
LEMMA ToComeIs ==
    ASSUME Assumptions, TypeOK, dpc \notin {"idle", "ended"}
    PROVE  /\ Current \in Entries /\ pos \in 1 .. Len(Slot) /\ Len(Slot) \in Nat
           /\ dpc \in {"visit", "acquire", "mark"} /\ Due(Current) => Current \in ToCome
           /\ \A e \in ToCome : /\ e \in Entries /\ Due(e)
                                /\ \E i \in 1 .. Len(Slot) : Slot[i] = e
<1>1. Current \in Entries /\ Len(Slot) \in Nat
  BY CurrentRow DEF Assumptions
<1>2. pos \in 1 .. Len(Slot) BY <1>1 DEF TypeOK
<1>3. FirstToCome \in Nat /\ FirstToCome >= 1 BY <1>2 DEF FirstToCome
<1> QED BY <1>1, <1>2, <1>3 DEF ToCome, FirstToCome, Current

\* The walk's next position leaves the rows behind the present one to come.
LEMMA ToComeNext ==
    ASSUME Assumptions, TypeOK, dpc \notin {"idle", "ended"}, NextRow
    PROVE  ToCome' = {e \in Entries : Due(e) /\ \E i \in pos + 1 .. Len(Slot) : Slot[i] = e}
<1>1. /\ Current \in Entries /\ pos \in 1 .. Len(Slot) /\ Len(Slot) \in Nat
  BY ToComeIs
<1>2. CASE pos < Len(Slot)
  <2>1. dpc' = "visit" /\ pos' = pos + 1 /\ cycle' = cycle
    BY <1>2 DEF NextRow
  <2>2. Slot' = Slot BY <2>1 DEF Slot
  <2> QED BY <2>1, <2>2 DEF ToCome, FirstToCome, Due
<1>3. CASE ~(pos < Len(Slot))
  <2>1. dpc' = "idle" BY <1>3 DEF NextRow
  <2>2. \A i \in pos + 1 .. Len(Slot) : FALSE BY <1>1, <1>3
  <2> QED BY <2>1, <2>2 DEF ToCome
<1> QED BY <1>2, <1>3

----------------------------------------------------------------------------
(* There is room.                                                          *)

\* Rows, workers and contexts of a pool are finitely many.
LEMMA FiniteRows ==
    ASSUME Assumptions, Sized, NEW p \in Pools
    PROVE  /\ IsFiniteSet(Entries) /\ IsFiniteSet(RowsOf(p)) /\ IsFiniteSet(WorkersOf(p))
           /\ IsFiniteSet(CtxsOf(p))
           /\ Cardinality(RowsOf(p)) \in Nat /\ Cardinality(WorkersOf(p)) \in Nat
           /\ Cardinality(CtxsOf(p)) \in Nat
<1>1. IsFiniteSet(Entries)
  BY FS_Interval DEF Entries, Assumptions, TableAssumption
<1>2. RowsOf(p) \in SUBSET Entries /\ WorkersOf(p) \in SUBSET Workers /\ CtxsOf(p) \in SUBSET Ctxs
  BY DEF RowsOf, WorkersOf, CtxsOf
<1>3. IsFiniteSet(Workers) /\ IsFiniteSet(Ctxs)
  BY DEF Assumptions, PoolAssumption, Sized
<1>4. IsFiniteSet(RowsOf(p)) /\ IsFiniteSet(WorkersOf(p)) /\ IsFiniteSet(CtxsOf(p))
  BY <1>1, <1>2, <1>3, FS_Subset
<1> QED BY <1>1, <1>4, FS_CardinalityType

\* The runs in flight in a pool are of different rows of it.
LEMMA RunsFit ==
    ASSUME Assumptions, Sized, IInv, SkipOnBusy, RunPool, NEW p \in Pools,
           NEW S, S \subseteq InFlight, \A c \in S : CtxPool[c] = p,
           NEW R, R \subseteq RowsOf(p), \A c \in S : ctxEntry[c] \in RowsOf(p) => ctxEntry[c] \in R
    PROVE  IsFiniteSet(S) /\ Cardinality(S) <= Cardinality(R)
<1>1. \A c \in S : ctxEntry[c] \in R
  BY DEF RunPool, RowsOf, IInv, SingleFlight, Trusted
<1> DEFINE f == [c \in S |-> ctxEntry[c]]
<1>2. f \in [S -> R] BY <1>1
<1>3. \A c, d \in S : f[c] = f[d] => c = d
  BY DEF IInv, SingleFlight, Trusted
<1>4. IsFiniteSet(R) BY FiniteRows, FS_Subset
<1> HIDE DEF f
<1> QED BY <1>2, <1>3, <1>4, OneEach

\* A row past the check finds a context: the others run other rows of the pool
\* or are being returned, one by each worker at most.
LEMMA CtxLeft ==
    ASSUME Assumptions, Sized, IInv, SkipOnBusy, RunPool, dpc = "acquire"
    PROVE  Avail(Current) # {}
<1>1. Current \in Entries BY ToComeIs DEF IInv
<1>2. PICK p \in Pools : p = PoolFor(Current) BY <1>1, PoolOfRow DEF Assumptions
<1> SUFFICES ASSUME Avail(Current) = {} PROVE FALSE OBVIOUS
<1> DEFINE A == CtxsOf(p) \cap InFlight
           B == CtxsOf(p) \ InFlight
<1>3. \A c \in B : \E w \in WorkersOf(p) : wctx[w] = c
  <2> SUFFICES ASSUME NEW c \in B PROVE \E w \in WorkersOf(p) : wctx[w] = c OBVIOUS
  <2>1. c \notin free BY <1>2 DEF Avail, CtxsOf
  <2>2. InHand = {} BY DEF InHand, IInv, Places, DispatchPlace
  <2>3. c \in Queued \cup Held BY <2>1, <2>2 DEF IInv, CtxConservation, CtxsOf
  <2>4. c \in Held BY <2>3 DEF InFlight
  <2>5. PICK w \in Workers : wctx[w] = c /\ c # NoCtx BY <2>4 DEF Held
  <2> QED BY <2>5 DEF IInv, CtxConservation, CtxsOf, WorkersOf
<1>4. IsFiniteSet(B) /\ Cardinality(B) <= Cardinality(WorkersOf(p))
  <2> DEFINE f == [c \in B |-> CHOOSE w \in WorkersOf(p) : wctx[w] = c]
  <2>1. \A c \in B : f[c] \in WorkersOf(p) /\ wctx[f[c]] = c BY <1>3
  <2>2. f \in [B -> WorkersOf(p)] BY <2>1
  <2>3. \A c, d \in B : f[c] = f[d] => c = d BY <2>1
  <2> HIDE DEF f, B
  <2> QED BY <2>2, <2>3, FiniteRows, OneEach
<1>5. IsFiniteSet(A) /\ Cardinality(A) <= Cardinality(RowsOf(p) \ {Current})
  <2>1. ~isRunning[Current] BY DEF IInv, SingleFlight, Trusted
  <2>2. \A c \in A : ctxEntry[c] # Current BY <2>1 DEF IInv, SingleFlight, Trusted
  <2>3. /\ A \subseteq InFlight /\ \A c \in A : CtxPool[c] = p
        /\ RowsOf(p) \ {Current} \subseteq RowsOf(p)
        /\ \A c \in A : ctxEntry[c] \in RowsOf(p) => ctxEntry[c] \in RowsOf(p) \ {Current}
    BY <2>2 DEF CtxsOf
  <2> HIDE DEF A
  <2> QED BY <2>3, RunsFit
<1>6. Cardinality(RowsOf(p) \ {Current}) = Cardinality(RowsOf(p)) - 1
  BY <1>1, <1>2, FiniteRows, FS_RemoveElement DEF RowsOf
<1>7. Cardinality(CtxsOf(p)) <= Cardinality(A) + Cardinality(B)
  <2>1. CtxsOf(p) = A \cup B /\ A \cap B = {} OBVIOUS
  <2> HIDE DEF A, B
  <2>2. Cardinality(A \cup B) = Cardinality(A) + Cardinality(B) - Cardinality(A \cap B)
    BY <1>4, <1>5, FS_Union
  <2>3. Cardinality(A) \in Nat /\ Cardinality(B) \in Nat BY <1>4, <1>5, FS_CardinalityType
  <2>4. Cardinality(A \cap B) = 0 BY <2>1, FS_EmptySet
  <2>5. CtxsOf(p) = A \cup B BY <2>1
  <2> QED BY <2>2, <2>3, <2>4, <2>5
<1>8. Cardinality(A) \in Nat /\ Cardinality(B) \in Nat BY <1>4, <1>5, FS_CardinalityType
<1> HIDE DEF A, B
<1> QED BY <1>4, <1>5, <1>6, <1>7, <1>8, FiniteRows DEF Sized

\* And a place in the ring.
LEMMA RingLeft ==
    ASSUME Assumptions, Sized, IInv, SkipOnBusy, RunPool, dpc = "push"
    PROVE  Len(queue[PoolFor(Current)]) < QueueCap
<1>1. Current \in Entries BY ToComeIs DEF IInv
<1>2. PICK p \in Pools : p = PoolFor(Current) BY <1>1, PoolOfRow DEF Assumptions
<1>3. queue[p] \in Seq(Ctxs) /\ Len(queue[p]) \in Nat BY DEF IInv, TypeOK
<1> DEFINE S == QueueRange(p) \cup {dctx}
<1>4. S \subseteq InFlight /\ \A c \in S : CtxPool[c] = p
  BY <1>2 DEF InFlight, OnPad, Queued, IInv, HandPool, CtxConservation, Places, DispatchPlace
<1>5. IsFiniteSet(S) /\ Cardinality(S) <= Cardinality(RowsOf(p))
  <2> HIDE DEF S
  <2> QED BY <1>4, RunsFit
<1>6. dctx \notin QueueRange(p)
  BY DEF IInv, CtxConservation, Queued, InHand, Places, DispatchPlace
<1>7. IsFiniteSet(QueueRange(p)) /\ Cardinality(S) = Cardinality(QueueRange(p)) + 1
  <2>1. QueueRange(p) \in SUBSET S OBVIOUS
  <2> HIDE DEF S
  <2>2. IsFiniteSet(QueueRange(p)) BY <1>5, <2>1, FS_Subset
  <2> QED BY <1>6, <2>2, FS_AddElement DEF S
<1>9. Cardinality(QueueRange(p)) \in Nat BY <1>7, FS_CardinalityType
<1>8. Len(queue[p]) <= Cardinality(QueueRange(p))
  <2> DEFINE f == [i \in 1 .. Len(queue[p]) |-> queue[p][i]]
  <2>1. f \in [1 .. Len(queue[p]) -> QueueRange(p)] BY DEF QueueRange
  <2>2. \A i, j \in 1 .. Len(queue[p]) : f[i] = f[j] => i = j BY DEF IInv, CtxConservation
  <2> HIDE DEF f
  <2>3. Cardinality(1 .. Len(queue[p])) <= Cardinality(QueueRange(p)) BY <1>7, <2>1, <2>2, OneEach
  <2>4. Cardinality(1 .. Len(queue[p])) = IF 1 > Len(queue[p]) THEN 0 ELSE Len(queue[p]) - 1 + 1
    <3> DEFINE n == Len(queue[p])
    <3>1. n \in Int /\ 1 \in Int BY <1>3
    <3> HIDE DEF n
    <3>2. Cardinality(1 .. n) = IF 1 > n THEN 0 ELSE n - 1 + 1 BY <3>1, FS_Interval
    <3> QED BY <3>2 DEF n
  <2> QED BY <1>3, <1>9, <2>3, <2>4
<1>10. Cardinality(QueueRange(p)) + 1 <= Cardinality(RowsOf(p)) BY <1>5, <1>7
<1>11. /\ Cardinality(RowsOf(p)) <= QueueCap
       /\ QueueCap \in Nat
  BY DEF Sized, Assumptions, PoolAssumption
<1>12. Cardinality(RowsOf(p)) \in Nat BY FiniteRows, FS_CardinalityType
<1>13. Len(queue[p]) < QueueCap
  <2> HIDE DEF S
  <2> QED BY <1>3, <1>8, <1>9, <1>10, <1>11, <1>12
<1> QED BY <1>2, <1>13

----------------------------------------------------------------------------
(* The rows of a group that are still to be counted.                       *)

Base == Assumptions /\ Ordered /\ IInv /\ RunPool /\ DropInv /\ FrameInv

\* A row of the slot is of no group, or is there once and with its whole group.
LEMMA SlotOfGroup ==
    ASSUME Base, NEW g \in Groups
    PROVE  \/ \A i \in 1 .. Len(Slot) : Slot[i] \in Members(g) => ~Due(Slot[i])
           \/ /\ \A e \in Members(g) : Due(e) /\ \E i \in 1 .. Len(Slot) : Slot[i] = e
              /\ \A i, j \in 1 .. Len(Slot) : Slot[i] \in Members(g) /\ Slot[i] = Slot[j] => i = j
<1>1. cycle \in 0 .. Pattern - 1 BY DEF Base, IInv, TypeOK
<1>2. Slot = SlotAt(cycle) BY DEF Slot, SlotAt
<1> QED BY <1>1, <1>2 DEF Base, Ordered, ChainTable, DueTogether, Due

\* A member of a group is a sequenced row of the table.
LEMMA MembersSequenced ==
    ASSUME Assumptions, NEW g \in Groups, NEW e \in Members(g)
    PROVE  e \in Entries /\ Sequenced(e) /\ GroupOf[e] = g
  BY DEF Members, Sequenced, Assumptions, GroupAssumption

\* A frame begins with nothing left of any group, and takes on all or nothing.
LEMMA LeftBegins ==
    ASSUME Base, BeginCycle, NEW g \in Groups
    PROVE  Left(g) = {} /\ (Left(g)' = {} \/ Left(g)' = Members(g))
<1>1. Uncounted' = Uncounted
  <2>1. \A w \in Workers : ~Ending(w)
    BY DEF BeginCycle, workerVars, Ending
  <2>2. [Next]_vars BY DEF Next, Dispatcher
  <2>3. ~MarkDispatched /\ ~Turned BY DEF BeginCycle, MarkDispatched, Turned
  <2> QED BY <2>1, <2>2, <2>3, UncountedSame DEF Base
<1>2. \A e \in Members(g) : e \notin Uncounted
  <2> SUFFICES ASSUME NEW e \in Members(g) PROVE e \notin Uncounted OBVIOUS
  <2>1. ~isRunning[e] BY MembersSequenced DEF BeginCycle, Base, Ordered
  <2> QED BY <2>1, UncountedRows DEF Base, Ordered
<1>3. ToCome = {} BY DEF BeginCycle, ToCome
<1>4. Left(g) = {} BY <1>2, <1>3 DEF Left
<1>5. CASE ~(Len(Slot) > 0)
  <2>1. ToCome' = {} BY <1>5 DEF BeginCycle, ToCome
  <2>2. Left(g)' = {} BY <1>1, <1>2, <2>1 DEF Left
  <2> QED BY <1>4, <2>2
<1>6. CASE Len(Slot) > 0
  <2>1. dpc' = "visit" /\ pos' = pos /\ cycle' = cycle /\ pos = 1
    BY <1>6 DEF BeginCycle, Base, IInv, Places, DispatchPlace
  <2>2. ToCome' = {e \in Entries : Due(e) /\ \E i \in 1 .. Len(Slot) : Slot[i] = e}
    BY <2>1 DEF ToCome, FirstToCome, Due, Slot
  <2>3. Left(g)' = {e \in Members(g) : e \in ToCome'}
    BY <1>1, <1>2 DEF Left
  <2>4. Members(g) \subseteq Entries BY DEF Members
  <2>5. Left(g)' = {} \/ Left(g)' = Members(g)
    BY <2>2, <2>3, <2>4, SlotOfGroup
  <2> QED BY <1>4, <2>5
<1> QED BY <1>5, <1>6

\* A row of a group is marked once in its frame.
LEMMA OnceInSlot ==
    ASSUME Base, dpc \notin {"idle", "ended"}, Due(Current), Sequenced(Current),
           NEW i \in pos + 1 .. Len(Slot)
    PROVE  Slot[i] # Current
<1>1. Current \in Entries /\ pos \in 1 .. Len(Slot) /\ Len(Slot) \in Nat
  BY ToComeIs DEF Base, IInv
<1>2. PICK g \in Groups : Current \in Members(g)
  BY <1>1 DEF Members, Sequenced, Base, Assumptions, GroupAssumption
<1>3. \A k, j \in 1 .. Len(Slot) : Slot[k] \in Members(g) /\ Slot[k] = Slot[j] => k = j
  BY <1>1, <1>2, SlotOfGroup DEF Current
<1> QED BY <1>1, <1>2, <1>3 DEF Current

\* Within the frame the walk takes no row off without dispatching it.
LEMMA LeftWalks ==
    ASSUME Base, Orderly, Dispatcher, ~BeginCycle, ~Turned, NEW g \in Groups
    PROVE  Left(g)' = Left(g)
<1> USE DEF Base
<1>0. [Next]_vars /\ \A w \in Workers : ~Ending(w)
  BY DEF Next, Dispatcher, Ending, BeginCycle, PassOver, CheckRunning, Acquire, MarkDispatched,
     EnqueueStopCheck, Push, Signal, ReleaseRefused, Unmark, workerVars
<1>a. dpc \notin {"idle", "ended"}
  BY DEF Dispatcher, BeginCycle, PassOver, CheckRunning, Acquire, MarkDispatched,
     EnqueueStopCheck, Push, Signal, ReleaseRefused, Unmark
<1>b. /\ Current \in Entries /\ pos \in 1 .. Len(Slot) /\ Len(Slot) \in Nat
  BY <1>a, ToComeIs DEF IInv
<1>c. \A e \in Members(g) : e \in Entries /\ Sequenced(e)
  BY MembersSequenced
<1>d. ~MarkDispatched => Uncounted' = Uncounted
  BY <1>0, UncountedSame DEF Turned
<1>1. ASSUME NextRow, dpc = "visit", Current \in Members(g) => ~Due(Current), ~MarkDispatched
      PROVE  Left(g)' = Left(g)
  <2>1. ToCome' = {e \in Entries : Due(e) /\ \E i \in pos + 1 .. Len(Slot) : Slot[i] = e}
    BY <1>1, <1>a, ToComeNext DEF IInv
  <2>2. ToCome = {e \in Entries : Due(e) /\ \E i \in pos .. Len(Slot) : Slot[i] = e}
    BY <1>1 DEF ToCome, FirstToCome
  <2>3. \A i \in pos .. Len(Slot) : i = pos \/ i \in pos + 1 .. Len(Slot) BY <1>b
  <2>4. \A i \in pos + 1 .. Len(Slot) : i \in pos .. Len(Slot) BY <1>b
  <2>5. \A e \in Members(g) : e \in ToCome' <=> e \in ToCome
    BY <1>1, <2>1, <2>2, <2>3, <2>4 DEF Current
  <2> QED BY <1>1, <1>d, <2>5 DEF Left
<1>2. ASSUME UNCHANGED <<pos, cycle>>, FirstToCome' = FirstToCome,
             dpc' \notin {"idle", "ended"}, ~MarkDispatched
      PROVE  Left(g)' = Left(g)
  BY <1>2, <1>a, <1>d DEF Left, ToCome, Due, Slot
<1>3. CASE PassOver
  <2>1. Current \in Members(g) => ~Due(Current)
    BY <1>3, <1>b, <1>c DEF PassOver, FrameInv, Ordered, ChainTable
  <2> QED BY <1>1, <1>3, <2>1 DEF PassOver, MarkDispatched
<1>4. CASE CheckRunning
  <2>1. CASE GivenUp
    <3>1. Current \in Members(g) => ~Due(Current)
      BY <1>4, <2>1, <1>a, <1>c, ToComeIs DEF CheckRunning, GivenUp, FrameInv, IInv
    <3> QED BY <1>1, <1>4, <2>1, <3>1 DEF CheckRunning, MarkDispatched
  <2>2. CASE ~GivenUp
    BY <1>2, <1>4, <2>2 DEF CheckRunning, FirstToCome, MarkDispatched
  <2> QED BY <2>1, <2>2
<1>5. CASE Acquire
  <2>1. Avail(Current) # {} BY <1>5, CtxLeft DEF Acquire, Ordered
  <2>2. dpc = "acquire" /\ dpc' = "mark" /\ UNCHANGED <<pos, cycle>> BY <1>5, <2>1 DEF Acquire
  <2> QED BY <1>2, <2>2 DEF FirstToCome, MarkDispatched
<1>6. CASE MarkDispatched
  <2>1. Uncounted' = Uncounted \cup {Current} BY <1>6, UncountedStarts
  <2>2. /\ dpc = "mark" /\ dpc' = "enqueue" /\ UNCHANGED <<pos, cycle>> /\ Due(Current)
    BY <1>6 DEF MarkDispatched, FrameInv
  <2>3. ToCome' = {e \in Entries : Due(e) /\ \E i \in pos + 1 .. Len(Slot) : Slot[i] = e}
    BY <2>2 DEF ToCome, FirstToCome, Due, Slot
  <2>4. ToCome = {e \in Entries : Due(e) /\ \E i \in pos .. Len(Slot) : Slot[i] = e}
    BY <2>2 DEF ToCome, FirstToCome
  <2>5. \A i \in pos .. Len(Slot) : i = pos \/ i \in pos + 1 .. Len(Slot) BY <1>b
  <2>6. \A i \in pos + 1 .. Len(Slot) : i \in pos .. Len(Slot) BY <1>b
  <2>7. ToCome = ToCome' \cup {Current}
    BY <1>b, <2>2, <2>3, <2>4, <2>5, <2>6 DEF Current
  <2> QED BY <2>1, <2>7 DEF Left
<1>7. CASE EnqueueStopCheck
  BY <1>2, <1>7 DEF EnqueueStopCheck, Turned, FirstToCome, MarkDispatched
<1>8. CASE Push
  BY <1>2, <1>8 DEF Push, Turned, FirstToCome, MarkDispatched
<1>9. CASE Signal
  <2>1. ToCome' = {e \in Entries : Due(e) /\ \E i \in pos + 1 .. Len(Slot) : Slot[i] = e}
    BY <1>9, <1>a, ToComeNext DEF IInv, Signal
  <2>2. ToCome = {e \in Entries : Due(e) /\ \E i \in pos + 1 .. Len(Slot) : Slot[i] = e}
    BY <1>9 DEF ToCome, FirstToCome, Signal
  <2>3. ~MarkDispatched BY <1>9 DEF Signal, MarkDispatched
  <2> QED BY <1>d, <2>1, <2>2, <2>3 DEF Left
<1>10. CASE ReleaseRefused \/ Unmark
  BY <1>10 DEF ReleaseRefused, Unmark, DropInv
<1> QED BY <1>3, <1>4, <1>5, <1>6, <1>7, <1>8, <1>9, <1>10 DEF Dispatcher

\* Another thread's step takes off the row whose run it ends, and no other.
LEMMA LeftEnds ==
    ASSUME Base, [Next]_vars, NEW w \in Workers, Ending(w), NEW g \in Groups
    PROVE  /\ Left(g)' = Left(g) \ {Entry(w)}
           /\ Entry(w) \in Members(g) => Entry(w) \in Left(g)
<1>1. Entry(w) \in Uncounted /\ Uncounted' = Uncounted \ {Entry(w)}
  BY UncountedEnds DEF Base, Ordered
<1>2. isRunning[Entry(w)] BY <1>1, UncountedRows DEF Base, Ordered
<1>3. ToCome' = ToCome
  <2>1. UNCHANGED dispatchVars BY EndingSteps DEF Base, IInv
  <2> QED BY <2>1 DEF dispatchVars, ToCome, FirstToCome, Due, Slot
<1>4. Entry(w) \in Members(g) => Entry(w) \notin ToCome
  BY <1>2, MembersSequenced DEF Base, FrameInv
<1>5. \A e \in Members(g) : e \in ToCome \cup Uncounted' <=> e \in ToCome \cup Uncounted /\ e # Entry(w)
  BY <1>1, <1>4
<1> QED BY <1>1, <1>3, <1>5 DEF Left

\* A step that is neither the walk's nor the end of a run leaves it as it is.
LEMMA LeftStays ==
    ASSUME Base, [Next]_vars, ~Dispatcher, \A w \in Workers : ~Ending(w), NEW g \in Groups
    PROVE  Left(g)' = Left(g)
<1>1. ~MarkDispatched /\ ~Turned
  <2>1. ~Turned
    <3>1. dpc' # dpc => dpc' = "ended" BY StandSame
    <3> QED BY <3>1 DEF Turned
  <2> QED BY <2>1 DEF Dispatcher
<1>2. Uncounted' = Uncounted BY <1>1, UncountedSame DEF Base
<1> QED BY <1>2, ToComeSame DEF Left

----------------------------------------------------------------------------
(* Nothing is dropped, and every row is counted in its turn.               *)

\* A run keeps to the pool of its row.
LEMMA RunPoolStep ==
    ASSUME Base, [Next]_vars
    PROVE  RunPool'
<1> USE DEF Base
<1>1. CASE MarkDispatched
  <2>1. /\ InFlight' = InFlight \cup {dctx}
        /\ ctxEntry'[dctx] = Current
        /\ \A c \in InFlight : ctxEntry'[c] = ctxEntry[c]
    BY <1>1, Launch DEF IInv
  <2>2. CtxPool[dctx] = PoolFor(Current)
    BY <1>1 DEF MarkDispatched, IInv, Places, DispatchPlace, HandPool
  <2> QED BY <2>1, <2>2 DEF RunPool, PoolFor
<1>2. CASE Turned
  <2>1. EnqueueStopCheck \/ Push
    <3>1. Dispatcher
      <4>1. ~Dispatcher => (dpc' # dpc => dpc' = "ended") BY StandSame
      <4> QED BY <1>2, <4>1 DEF Turned
    <3> QED BY <1>2, <3>1 DEF Dispatcher, Turned, BeginCycle, PassOver, CheckRunning, Acquire,
         MarkDispatched, Signal, ReleaseRefused, Unmark
  <2>2. InFlight' = InFlight \ {dctx} /\ ctxEntry' = ctxEntry
    BY <1>2, <2>1, Refused DEF IInv, Turned
  <2> QED BY <2>2 DEF RunPool, PoolFor
<1>3. ASSUME NEW w \in Workers, MarkCompleted(w) PROVE RunPool'
  <2>1. InFlight' = InFlight \ {wctx[w]} /\ ctxEntry' = ctxEntry
    BY <1>3, Landed DEF IInv
  <2> QED BY <2>1 DEF RunPool, PoolFor
<1>4. CASE ~Crossing
  <2>1. InFlight' = InFlight /\ \A c \in InFlight : ctxEntry'[c] = ctxEntry[c]
    BY <1>4, FlightSame DEF IInv
  <2> QED BY <2>1 DEF RunPool, PoolFor
<1> QED BY <1>1, <1>2, <1>3, <1>4 DEF Crossing, Turned

\* While things are orderly no enqueue is turned away.
LEMMA NeverTurned ==
    ASSUME Base, Orderly, [Next]_vars
    PROVE  ~Turned
<1> USE DEF Base
<1> SUFFICES ASSUME Turned PROVE FALSE OBVIOUS
<1>1. Dispatcher
  <2>1. ~Dispatcher => (dpc' # dpc => dpc' = "ended") BY StandSame
  <2> QED BY <2>1 DEF Turned
<1>2. EnqueueStopCheck \/ Push
  BY <1>1 DEF Dispatcher, Turned, BeginCycle, PassOver, CheckRunning, Acquire,
     MarkDispatched, Signal, ReleaseRefused, Unmark
<1>3. ~stopping BY DEF Orderly, DropInv, Turned
<1>4. ~EnqueueStopCheck
  <2>1. Current \in Entries BY ToComeIs DEF IInv, Turned
  <2> QED BY <1>3, <2>1, PoolOfRow DEF EnqueueStopCheck, DropInv, Turned, Assumptions
<1>5. ~Push
  BY RingLeft DEF Push, Turned, Ordered
<1> QED BY <1>2, <1>4, <1>5

\* The stop flag is never taken back, and only shutdown() raises it.
LEMMA StopFlag ==
    ASSUME [Next]_vars
    PROVE  /\ ~RaiseStop => stopping' = stopping
           /\ RaiseStop => stopping'
  BY DEF Next, Dispatcher, Worker, Shutdown, Stopped, vars, dispatchVars, workerVars, stopVars,
     BeginCycle, PassOver, CheckRunning, Acquire, MarkDispatched, EnqueueStopCheck, Push,
     Signal, ReleaseRefused, Unmark, DispatchEnd, ToggleLock, AcquirePermit, Pop, ReadPhase,
     ReadAbort, Park, Execute, AdvancePhase, Notify, MarkCompleted, ReleaseCtx, Report,
     RaiseStop, DriveCounter, WakeWaiters, CountersDriven, StopPool, ReleaseWorkers, JoinWorkers

\* What is orderly was orderly before.
LEMMA OrderlyBefore ==
    ASSUME [Next]_vars, Orderly'
    PROVE  Orderly
  BY StopFlag DEF Orderly

\* The order of shutdown, and that no enqueue is refused in it, are kept.
LEMMA DropStep ==
    ASSUME Base, [Next]_vars
    PROVE  DropInv'
<1> USE DEF Base
<1>1. (stopping <=> spc # "run")' /\ \A p \in Pools : poolStop'[p] => stopping'
  <2>1. CASE RaiseStop BY <2>1 DEF RaiseStop, DropInv
  <2>2. CASE Shutdown
    <3>1. stopping' = stopping /\ spc # "run" /\ spc' # "run"
      BY <2>2 DEF Shutdown, DriveCounter, WakeWaiters, CountersDriven, StopPool, ReleaseWorkers, JoinWorkers
    <3> QED BY <3>1 DEF DropInv
  <2>3. CASE ~RaiseStop /\ ~Shutdown
    <3>1. UNCHANGED stopVars
      BY <2>3 DEF Next, Dispatcher, Worker, Stopped, vars, dispatchVars, workerVars, stopVars,
         BeginCycle, PassOver, CheckRunning, Acquire, MarkDispatched, EnqueueStopCheck, Push,
         Signal, ReleaseRefused, Unmark, DispatchEnd, ToggleLock, AcquirePermit, Pop, ReadPhase,
         ReadAbort, Park, Execute, AdvancePhase, Notify, MarkCompleted, ReleaseCtx, Report
    <3> QED BY <3>1 DEF DropInv, stopVars
  <2> QED BY <2>1, <2>2, <2>3
<1>2. JoinFirst /\ stopping' => dpc' = "ended"
  <2> SUFFICES ASSUME JoinFirst, stopping' PROVE dpc' = "ended" OBVIOUS
  <2>1. CASE RaiseStop BY <2>1 DEF RaiseStop, dispatchVars
  <2>2. CASE ~RaiseStop
    <3>1. dpc = "ended" BY <2>2, StopFlag DEF DropInv
    <3>2. ~Dispatcher
      BY <3>1 DEF Dispatcher, BeginCycle, PassOver, CheckRunning, Acquire, MarkDispatched,
         EnqueueStopCheck, Push, Signal, ReleaseRefused, Unmark
    <3> QED BY <3>1, <3>2, StandSame
  <2> QED BY <2>1, <2>2
<1>3. Orderly' => dpc' \notin {"release", "unmark"}
  <2> SUFFICES ASSUME Orderly' PROVE dpc' \notin {"release", "unmark"} OBVIOUS
  <2>1. Orderly /\ ~Turned BY OrderlyBefore, NeverTurned
  <2>2. dpc \notin {"release", "unmark"} BY <2>1 DEF DropInv
  <2>3. CASE ~Dispatcher BY <2>2, <2>3, StandSame
  <2>4. CASE Dispatcher
    BY <2>1, <2>2, <2>4 DEF Dispatcher, Turned, NextRow, BeginCycle, PassOver, CheckRunning, Acquire,
       MarkDispatched, EnqueueStopCheck, Push, Signal, ReleaseRefused, Unmark
  <2> QED BY <2>3, <2>4
<1> QED BY <1>1, <1>2, <1>3 DEF DropInv

\* What is still to come is not running, in a frame that keeps its contract.
LEMMA FrameStep ==
    ASSUME Base, [Next]_vars
    PROVE  FrameInv'
<1> USE DEF Base
<1>1. (dpc \in {"acquire", "mark", "enqueue", "push", "signal"} => Due(Current))'
  <2>1. CASE ~Dispatcher
    BY <2>1, StandSame DEF FrameInv, Due, Current, Slot
  <2>2. CASE Dispatcher
    BY <2>2 DEF Dispatcher, NextRow, BeginCycle, PassOver, CheckRunning, Acquire,
       MarkDispatched, EnqueueStopCheck, Push, Signal, ReleaseRefused, Unmark, FrameInv, Due, Current, Slot
  <2> QED BY <2>1, <2>2
<1>2. ASSUME NEW e \in ToCome', Sequenced(e) PROVE ~isRunning'[e]
  <2>0. Sequenced(e)' <=> Sequenced(e) BY DEF Sequenced
  <2>1. CASE BeginCycle
    <3>1. e \in Entries BY <1>2 DEF ToCome
    <3> QED BY <1>2, <2>1, <3>1 DEF BeginCycle, Ordered
  <2>2. CASE ~BeginCycle
    <3>1. e \in ToCome
      <4>1. CASE ~Dispatcher BY <1>2, <4>1, ToComeSame
      <4>2. CASE Dispatcher
        <5>0. dpc \notin {"idle", "ended"}
          BY <2>2, <4>2 DEF Dispatcher, BeginCycle, PassOver, CheckRunning, Acquire, MarkDispatched,
             EnqueueStopCheck, Push, Signal, ReleaseRefused, Unmark
        <5>a. pos \in 1 .. Len(Slot) /\ Len(Slot) \in Nat BY <5>0, ToComeIs DEF IInv
        <5>b. ToCome = {d \in Entries : Due(d) /\ \E i \in FirstToCome .. Len(Slot) : Slot[i] = d}
          BY <5>0 DEF ToCome
        <5>c. \A i \in pos + 1 .. Len(Slot) : i \in FirstToCome .. Len(Slot)
          BY <5>a DEF FirstToCome
        <5>1. CASE NextRow
          BY <1>2, <5>0, <5>1, <5>b, <5>c, ToComeNext DEF IInv
        <5>2. CASE ~NextRow
          <6>1. /\ dpc' \notin {"idle", "ended"} /\ UNCHANGED <<pos, cycle>>
                /\ FirstToCome' = FirstToCome \/ FirstToCome' = pos + 1
            BY <2>2, <4>2, <5>2 DEF Dispatcher, BeginCycle, PassOver, CheckRunning, Acquire,
               MarkDispatched, EnqueueStopCheck, Push, Signal, ReleaseRefused, Unmark, FirstToCome
          <6>2. ToCome' = {d \in Entries : Due(d) /\ \E i \in FirstToCome' .. Len(Slot) : Slot[i] = d}
            BY <6>1 DEF ToCome, Due, Slot
          <6> QED BY <1>2, <5>b, <5>c, <6>1, <6>2
        <5> QED BY <5>1, <5>2
      <4> QED BY <4>1, <4>2
    <3>2. ~isRunning[e] /\ e \in Entries BY <1>2, <3>1 DEF FrameInv, ToCome
    <3>3. CASE MarkDispatched
      <4>1. ToCome' = {d \in Entries : Due(d) /\ \E i \in pos + 1 .. Len(Slot) : Slot[i] = d}
        BY <3>3 DEF MarkDispatched, ToCome, FirstToCome, Due, Slot
      <4>2. Due(Current) /\ dpc \notin {"idle", "ended"} BY <3>3 DEF MarkDispatched, FrameInv
      <4>3. e # Current BY <1>2, <4>1, <4>2, OnceInSlot
      <4> QED BY <3>2, <3>3, <4>3 DEF MarkDispatched, Marked, IInv, TypeOK
    <3>4. CASE Unmark
      BY <3>2, <3>4 DEF Unmark, Cleared, IInv, TypeOK
    <3>5. ASSUME NEW w \in Workers, MarkCompleted(w) PROVE ~isRunning'[e]
      BY <3>2, <3>5 DEF MarkCompleted, IInv, TypeOK
    <3>6. CASE Turned
      <4>1. isRunning' = isRunning
        <5>1. Dispatcher
          <6>1. ~Dispatcher => (dpc' # dpc => dpc' = "ended") BY StandSame
          <6> QED BY <3>6, <6>1 DEF Turned
        <5> QED BY <3>6, <5>1 DEF Dispatcher, Turned, BeginCycle, PassOver, CheckRunning, Acquire,
             MarkDispatched, EnqueueStopCheck, Push, Signal, ReleaseRefused, Unmark
      <4> QED BY <3>2, <4>1
    <3>7. CASE ~Crossing /\ ~Unmark
      BY <3>2, <3>7, FlagSame
    <3> QED BY <3>3, <3>4, <3>5, <3>6, <3>7 DEF Crossing, Turned
  <2> QED BY <2>1, <2>2
<1>3. \A e \in Entries : locked'[e] => e \in Lockable
  <2>1. ASSUME NEW e \in Lockable, ToggleLock(e) PROVE \A d \in Entries : locked'[d] => d \in Lockable
    BY <2>1 DEF ToggleLock, FrameInv, IInv, TypeOK
  <2>2. CASE \A e \in Lockable : ~ToggleLock(e)
    <3>1. locked' = locked
      BY <2>2 DEF Next, Dispatcher, Worker, Shutdown, Stopped, vars, dispatchVars, workerVars, stopVars,
     BeginCycle, PassOver, CheckRunning, Acquire, MarkDispatched, EnqueueStopCheck, Push,
     Signal, ReleaseRefused, Unmark, DispatchEnd, AcquirePermit, Pop, ReadPhase,
     ReadAbort, Park, Execute, AdvancePhase, Notify, MarkCompleted, ReleaseCtx, Report,
     RaiseStop, DriveCounter, WakeWaiters, CountersDriven, StopPool, ReleaseWorkers, JoinWorkers
    <3> QED BY <3>1 DEF FrameInv
  <2> QED BY <2>1, <2>2
<1> QED BY <1>1, <1>2, <1>3 DEF FrameInv, Sequenced

\* What is left of a group is finite and no larger than the group.
LEMMA FiniteLeft ==
    ASSUME Assumptions, NEW g \in Groups
    PROVE  /\ IsFiniteSet(Members(g)) /\ IsFiniteSet(Left(g))
           /\ Cardinality(Members(g)) \in Nat /\ Cardinality(Left(g)) \in Nat
           /\ Cardinality(Left(g)) <= Cardinality(Members(g))
           /\ Left(g) # {} => Cardinality(Left(g)) > 0
<1>1. IsFiniteSet(Entries)
  BY FS_Interval DEF Entries, Assumptions, TableAssumption
<1>2. Members(g) \in SUBSET Entries /\ Left(g) \in SUBSET Members(g) BY DEF Members, Left
<1>3. IsFiniteSet(Members(g)) BY <1>1, <1>2, FS_Subset
<1>4. IsFiniteSet(Left(g)) /\ Cardinality(Left(g)) <= Cardinality(Members(g)) BY <1>2, <1>3, FS_Subset
<1>5. Cardinality(Members(g)) \in Nat /\ Cardinality(Left(g)) \in Nat BY <1>3, <1>4, FS_CardinalityType
<1>6. Left(g) # {} => Cardinality(Left(g)) # 0 BY <1>4, FS_EmptySet
<1> QED BY <1>3, <1>4, <1>5, <1>6

\* Only the end of a phase and shutdown() change a counter.
LEMMA CounterSame ==
    ASSUME [Next]_vars, \A w \in Workers : ~AdvancePhase(w), ~DriveCounter
    PROVE  counter' = counter
  BY DEF Next, Dispatcher, Worker, Shutdown, Stopped, vars, dispatchVars, workerVars, stopVars,
     BeginCycle, PassOver, CheckRunning, Acquire, MarkDispatched, EnqueueStopCheck, Push,
     Signal, ReleaseRefused, Unmark, DispatchEnd, ToggleLock, AcquirePermit, Pop, ReadPhase,
     ReadAbort, Park, Execute, Notify, MarkCompleted, ReleaseCtx, Report,
     RaiseStop, WakeWaiters, CountersDriven, StopPool, ReleaseWorkers, JoinWorkers

\* Counting a row of a group takes it off and advances the counter.
LEMMA Advances ==
    ASSUME Base, [Next]_vars, NEW w \in Workers, AdvancePhase(w)
    PROVE  /\ Ending(w) /\ Group(w) \in Groups /\ Entry(w) \in Members(Group(w))
           /\ Entry(w) \in Left(Group(w))
           /\ Left(Group(w))' = Left(Group(w)) \ {Entry(w)}
           /\ counter'[Group(w)] = NextPhase(Group(w), counter[Group(w)])
           /\ \A g \in Groups : g # Group(w) => Left(g)' = Left(g) /\ counter'[g] = counter[g]
<1> USE DEF Base
<1>1. Ending(w) BY DEF AdvancePhase, Ending, IInv, TypeOK, Running, Waiting, Counting
<1>2. Sequenced(Entry(w)) /\ Entry(w) \in Entries
  BY DEF AdvancePhase, IInv, Places, WorkerPlace, Running
<1>3. Group(w) \in Groups /\ Entry(w) \in Members(Group(w))
  BY <1>2 DEF Group, Sequenced, Members, Assumptions, GroupAssumption
<1>4. PICK g0 \in Groups : g0 = Group(w) BY <1>3
<1>5. Left(g0)' = Left(g0) \ {Entry(w)} /\ Entry(w) \in Left(g0) BY <1>1, <1>3, <1>4, LeftEnds
<1>6. Left(Group(w))' = Left(g0)'
  <2>1. Group(w)' = Group(w) BY DEF AdvancePhase, Group, Entry
  <2> QED BY <1>4, <2>1 DEF Left, Members
<1>7. ASSUME NEW g \in Groups, g # Group(w) PROVE Left(g)' = Left(g)
  <2>1. Entry(w) \notin Members(g) BY <1>7 DEF Members, Group
  <2>2. Entry(w) \notin Left(g) BY <2>1 DEF Left
  <2> QED BY <1>1, <2>2, LeftEnds
<1>8. counter' = [counter EXCEPT ![Group(w)] = NextPhase(Group(w), @)] /\ counter \in [Groups -> Int]
  BY DEF AdvancePhase, IInv, TypeOK
<1> QED BY <1>1, <1>3, <1>4, <1>5, <1>6, <1>7, <1>8

\* Any other end of a run leaves the counters alone.
LEMMA OtherEnds ==
    ASSUME Base, [Next]_vars, NEW w \in Workers, Ending(w), ~AdvancePhase(w), NEW g \in Groups
    PROVE  /\ Left(g)' \subseteq Left(g)
           /\ ~stopping => Left(g)' = Left(g)
           /\ counter' = counter
<1> USE DEF Base
<1>1. \/ Execute(w) /\ ~Sequenced(Entry(w))
      \/ ReadAbort(w) /\ stopping
  BY EndingSteps DEF IInv
<1>2. counter' = counter BY <1>1 DEF Execute, ReadAbort
<1>3. Left(g)' = Left(g) \ {Entry(w)} BY LeftEnds
<1>4. ~stopping => Entry(w) \notin Left(g)
  BY <1>1, MembersSequenced DEF Left
<1> QED BY <1>2, <1>3, <1>4

\* The counter keeps count of a frame.
LEMMA CountStep ==
    ASSUME Base, CountInv, [Next]_vars
    PROVE  CountInv'
<1> USE DEF Base
<1> SUFFICES ASSUME ~stopping', NEW g \in Groups
             PROVE  counter'[g] = IF Left(g)' = {} THEN 1
                                  ELSE 1 + Cardinality(Members(g)) - Cardinality(Left(g)')
  BY DEF CountInv, Members
<1>1. ~stopping /\ Orderly /\ ~Turned
  <2>1. ~stopping BY StopFlag
  <2> QED BY <2>1, NeverTurned DEF Orderly
<1>2. counter[g] = IF Left(g) = {} THEN 1 ELSE 1 + Cardinality(Members(g)) - Cardinality(Left(g))
  BY <1>1 DEF CountInv
<1>3. ~DriveCounter BY <1>1 DEF DriveCounter, DropInv
<1>4. CASE BeginCycle
  <2>1. Left(g) = {} /\ (Left(g)' = {} \/ Left(g)' = Members(g)) BY <1>4, LeftBegins
  <2>2. counter' = counter BY <1>4 DEF BeginCycle
  <2> QED BY <1>2, <2>1, <2>2, FiniteLeft
<1>5. ASSUME NEW w \in Workers, AdvancePhase(w), g = Group(w)
      PROVE  counter'[g] = IF Left(g)' = {} THEN 1
                           ELSE 1 + Cardinality(Members(g)) - Cardinality(Left(g)')
  <2>1. /\ Entry(w) \in Left(g) /\ counter'[g] = NextPhase(g, counter[g])
        /\ Left(Group(w))' = Left(g) \ {Entry(w)}
    BY <1>5, Advances
  <2>2. Left(g)' = Left(g) \ {Entry(w)}
    <3>1. Ending(w) BY <1>5, Advances
    <3> QED BY <3>1, LeftEnds
  <2>3. Cardinality(Left(g) \ {Entry(w)}) = Cardinality(Left(g)) - 1
    BY <2>1, FiniteLeft, FS_RemoveElement
  <2>4. Left(g)' = {} <=> Cardinality(Left(g)) = 1
    <3>1. IsFiniteSet(Left(g) \ {Entry(w)}) BY FiniteLeft, FS_RemoveElement
    <3>2. Left(g) \ {Entry(w)} = {} <=> Cardinality(Left(g) \ {Entry(w)}) = 0 BY <3>1, FS_EmptySet
    <3> QED BY <2>2, <2>3, <3>2, FiniteLeft
  <2>5. MaxPhase[g] = Cardinality(Members(g)) BY DEF Ordered, ChainTable, GroupsWhole
  <2>6. counter[g] = 1 + Cardinality(Members(g)) - Cardinality(Left(g)) BY <1>2, <2>1
  <2>7. counter'[g] = IF counter[g] >= Cardinality(Members(g)) THEN 1 ELSE counter[g] + 1
    BY <2>1, <2>5 DEF NextPhase
  <2> QED BY <2>2, <2>3, <2>4, <2>6, <2>7, FiniteLeft
<1>6. ASSUME NEW w \in Workers, AdvancePhase(w), g # Group(w)
      PROVE  Left(g)' = Left(g) /\ counter'[g] = counter[g]
  BY <1>6, Advances
<1>7. ASSUME NEW w \in Workers, Ending(w), ~AdvancePhase(w)
      PROVE  Left(g)' = Left(g) /\ counter'[g] = counter[g]
  BY <1>1, <1>7, OtherEnds
<1>8. CASE ~BeginCycle /\ \A w \in Workers : ~Ending(w)
  <2>1. Left(g)' = Left(g)
    BY <1>1, <1>8, LeftWalks, LeftStays
  <2>2. \A w \in Workers : ~AdvancePhase(w) BY <1>8, Advances
  <2> QED BY <1>2, <1>3, <2>1, <2>2, CounterSame
<1> QED BY <1>2, <1>4, <1>5, <1>6, <1>7, <1>8

\* The counter never runs ahead of the rows it has counted.
LEMMA PassStep ==
    ASSUME Base, CountInv, PassInv, ExecInv, [Next]_vars
    PROVE  PassInv'
<1> USE DEF Base
<1> SUFFICES ASSUME Orderly', NEW g \in Groups, Left(g)' # {}
             PROVE  \E D \in SUBSET (Members(g) \ Left(g)') :
                      /\ counter'[g] <= 1 + Cardinality(D)
                      /\ \A h \in D : Lower(h) \cap Left(g)' = {}
  BY DEF PassInv, Members, Lower
<1>1. Orderly /\ ~Turned BY OrderlyBefore, NeverTurned
<1> DEFINE Good(D, L, k) == /\ D \in SUBSET (Members(g) \ L)
                            /\ k <= 1 + Cardinality(D)
                            /\ \A h \in D : Lower(h) \cap L = {}
<1>2. ASSUME Left(g) # {} PROVE \E D : Good(D, Left(g), counter[g])
  BY <1>1, <1>2 DEF PassInv
<1>3. \A D, k : Good(D, Left(g), k) /\ Left(g)' \subseteq Left(g) => Good(D, Left(g)', k)
  OBVIOUS
<1>4. \A k \in Int : k <= 1 => Good({}, Left(g)', k)
  BY FS_EmptySet
<1>5. counter[g] \in Int /\ counter \in [Groups -> Int] BY DEF IInv, TypeOK
<1> SUFFICES \E D : Good(D, Left(g)', counter'[g])
  OBVIOUS
<1>6. CASE BeginCycle
  <2>1. Left(g) = {} BY <1>6, LeftBegins
  <2>2. ~stopping BY <1>1, <1>6 DEF BeginCycle, Orderly, DropInv
  <2>3. counter[g] = 1 /\ counter' = counter BY <1>6, <2>1, <2>2 DEF CountInv, BeginCycle
  <2>4. Good({}, Left(g)', counter'[g]) BY <1>4, <2>3
  <2> HIDE DEF Good
  <2> QED BY <2>4
<1>7. ASSUME NEW w \in Workers, AdvancePhase(w), g = Group(w)
      PROVE  \E D : Good(D, Left(g)', counter'[g])
  <2>1. /\ Entry(w) \in Left(g) /\ counter'[g] = NextPhase(g, counter[g]) /\ Entry(w) \in Members(g)
        /\ Ending(w)
    BY <1>7, Advances
  <2>2. Left(g)' = Left(g) \ {Entry(w)} BY <2>1, LeftEnds
  <2>3. PICK D : Good(D, Left(g), counter[g]) BY <1>2, <2>1
  <2>4. Lower(Entry(w)) \cap Left(g) = {}
    <3>1. wpc[w] = "advance" /\ Sequenced(Entry(w))
      BY <1>7, <2>1, MembersSequenced DEF AdvancePhase
    <3> QED BY <1>1, <1>7, <3>1 DEF ExecInv
  <2>5. IsFiniteSet(D) /\ Cardinality(D) \in Nat
    BY <2>3, FiniteLeft, FS_Subset, FS_CardinalityType
  <2>6. Entry(w) \notin D BY <2>1, <2>3
  <2>7. Cardinality(D \cup {Entry(w)}) = Cardinality(D) + 1 BY <2>5, <2>6, FS_AddElement
  <2>8. counter'[g] \in Int /\ counter'[g] <= 1 + Cardinality(D \cup {Entry(w)})
    BY <1>5, <2>1, <2>3, <2>5, <2>7 DEF NextPhase
  <2>9. Good(D \cup {Entry(w)}, Left(g)', counter'[g])
    BY <2>1, <2>2, <2>3, <2>4, <2>8
  <2> HIDE DEF Good
  <2> QED BY <2>9
<1>8. ASSUME Left(g)' \subseteq Left(g), counter'[g] = counter[g]
      PROVE  \E D : Good(D, Left(g)', counter'[g])
  <2>1. Left(g) # {} BY <1>8
  <2> HIDE DEF Good
  <2> QED BY <1>2, <1>3, <1>8, <2>1
<1>9. ASSUME NEW w \in Workers, Ending(w), ~(AdvancePhase(w) /\ g = Group(w))
      PROVE  \E D : Good(D, Left(g)', counter'[g])
  <2>1. Left(g)' \subseteq Left(g) /\ counter'[g] = counter[g]
    <3>1. CASE AdvancePhase(w) BY <1>9, <3>1, Advances
    <3>2. CASE ~AdvancePhase(w) BY <1>9, <3>2, OtherEnds
    <3> QED BY <3>1, <3>2
  <2> HIDE DEF Good
  <2> QED BY <1>8, <2>1
<1>10. CASE ~BeginCycle /\ \A w \in Workers : ~Ending(w)
  <2>1. Left(g)' = Left(g) BY <1>1, <1>10, LeftWalks, LeftStays
  <2>2. \A w \in Workers : ~AdvancePhase(w) BY <1>10, Advances
  <2>3. CASE DriveCounter
    <3>1. counter'[g] = counter[g] \/ counter'[g] = SEQ_SHUTDOWN
      BY <1>5, <2>3 DEF DriveCounter
    <3>2. SEQ_SHUTDOWN \in Int /\ SEQ_SHUTDOWN <= 1 BY DEF SEQ_SHUTDOWN
    <3> HIDE DEF Good
    <3> QED BY <1>4, <1>8, <2>1, <3>1, <3>2
  <2>4. CASE ~DriveCounter
    <3>1. counter' = counter BY <2>2, <2>4, CounterSame
    <3> HIDE DEF Good
    <3> QED BY <1>8, <2>1, <3>1
  <2> QED BY <2>3, <2>4
<1> HIDE DEF Good
<1> QED BY <1>6, <1>7, <1>9, <1>10

\* A run that is not counted keeps its row, and its row is on the list.
LEMMA EntrySame ==
    ASSUME Base, [Next]_vars, NEW w \in Workers, wpc[w] \in Running \ Counting
    PROVE  /\ Entry(w) \in Uncounted
           /\ wctx'[w] = wctx[w] /\ Entry(w)' = Entry(w)
<1> USE DEF Base
<1>1. wctx[w] # NoCtx /\ wctx[w] \in Held
  BY DEF IInv, Places, WorkerPlace, Held
<1>2. wctx[w] \in Unfinished
  <2>1. wctx[w] \in InFlight BY DEF InFlight, OnWorkers
  <2>2. wctx[w] \notin CountedCtxs
    BY <1>1 DEF CountedCtxs, IInv, CtxConservation
  <2> QED BY <2>1, <2>2, UnfinishedIs
<1>3. Entry(w) \in Uncounted BY <1>2 DEF Uncounted, Entry
<1>4. wctx'[w] = wctx[w]
  <2>1. ASSUME NEW v \in Workers, Pop(v) \/ ReleaseCtx(v) PROVE wctx'[w] = wctx[w]
    <3>1. v # w BY <2>1 DEF Pop, ReleaseCtx, Running, Waiting
    <3> QED BY <2>1, <3>1 DEF Pop, ReleaseCtx, IInv, TypeOK
  <2>2. CASE \A v \in Workers : ~Pop(v) /\ ~ReleaseCtx(v)
    <3>1. wctx' = wctx
      BY <2>2 DEF Next, Dispatcher, Worker, Shutdown, Stopped, vars, dispatchVars, workerVars, stopVars,
     BeginCycle, PassOver, CheckRunning, Acquire, MarkDispatched, EnqueueStopCheck, Push,
     Signal, ReleaseRefused, Unmark, DispatchEnd, ToggleLock, AcquirePermit, ReadPhase,
     ReadAbort, Park, Execute, AdvancePhase, Notify, MarkCompleted, Report,
     RaiseStop, DriveCounter, WakeWaiters, CountersDriven, StopPool, ReleaseWorkers, JoinWorkers
    <3> QED BY <3>1
  <2> QED BY <2>1, <2>2
<1>5. ctxEntry'[wctx[w]] = ctxEntry[wctx[w]]
  <2>1. CASE MarkDispatched
    <3>1. dctx # wctx[w] BY <1>1, <2>1 DEF MarkDispatched, IInv, Places, DispatchPlace, CtxConservation, InHand
    <3> QED BY <2>1, <3>1 DEF MarkDispatched, IInv, TypeOK
  <2>2. CASE ReleaseRefused
    <3>1. dctx # wctx[w] BY <1>1, <2>2 DEF ReleaseRefused, IInv, Places, DispatchPlace, CtxConservation, InHand
    <3> QED BY <2>2, <3>1 DEF ReleaseRefused, IInv, TypeOK
  <2>3. ASSUME NEW v \in Workers, ReleaseCtx(v) PROVE ctxEntry'[wctx[w]] = ctxEntry[wctx[w]]
    <3>1. v # w BY <2>3 DEF ReleaseCtx, Running, Waiting
    <3>2. wctx[v] # wctx[w] BY <1>1, <3>1 DEF IInv, CtxConservation
    <3> QED BY <2>3, <3>2 DEF ReleaseCtx, IInv, TypeOK
  <2>4. CASE ~MarkDispatched /\ ~ReleaseRefused /\ \A v \in Workers : ~ReleaseCtx(v)
    <3>1. ctxEntry' = ctxEntry
      BY <2>4 DEF Next, Dispatcher, Worker, Shutdown, Stopped, vars, dispatchVars, workerVars, stopVars,
     BeginCycle, PassOver, CheckRunning, Acquire, EnqueueStopCheck, Push,
     Signal, Unmark, DispatchEnd, ToggleLock, AcquirePermit, Pop, ReadPhase,
     ReadAbort, Park, Execute, AdvancePhase, Notify, MarkCompleted, Report,
     RaiseStop, DriveCounter, WakeWaiters, CountersDriven, StopPool, ReleaseWorkers, JoinWorkers
    <3> QED BY <3>1
  <2> QED BY <2>1, <2>2, <2>3, <2>4
<1> QED BY <1>3, <1>4, <1>5 DEF Entry

\* A phase that has come finds nothing left of the phases before it.
LEMMA PhaseCome ==
    ASSUME Base, PassInv, Orderly, NEW w \in Workers, wpc[w] = "phase", Entry(w) \in Uncounted,
           counter[Group(w)] >= Phase[Entry(w)]
    PROVE  Lower(Entry(w)) \cap Left(Group(w)) = {}
<1> USE DEF Base
<1>1. Sequenced(Entry(w)) /\ Entry(w) \in Entries
  BY DEF IInv, Places, WorkerPlace, Running, Waiting
<1>2. PICK g \in Groups : g = Group(w) BY <1>1 DEF Group, Sequenced, Assumptions, GroupAssumption
<1>3. PICK e \in Entries : e = Entry(w) BY <1>1
<1>4. e \in Members(g) /\ e \in Left(g) BY <1>2, <1>3 DEF Members, Group, Left
<1>5. PICK D \in SUBSET (Members(g) \ Left(g)) :
        /\ counter[g] <= 1 + Cardinality(D)
        /\ \A h \in D : Lower(h) \cap Left(g) = {}
  BY <1>4 DEF PassInv
<1> SUFFICES ASSUME NEW f \in Lower(e) \cap Left(g) PROVE FALSE
  BY <1>2, <1>3
<1>6. Lower(e) \subseteq Members(g) BY <1>4 DEF Lower, Members
<1>7. D \subseteq Lower(e) \ {f}
  <2> SUFFICES ASSUME NEW h \in D PROVE h \in Lower(e) /\ h # f OBVIOUS
  <2>1. h \in Entries /\ GroupOf[h] = GroupOf[e] /\ h # f BY <1>4, <1>5 DEF Members
  <2>2. f \notin Lower(h) BY <1>5
  <2>3. f \in Entries /\ GroupOf[f] = GroupOf[e] /\ Phase[f] < Phase[e] BY DEF Lower
  <2>4. ~(Phase[f] < Phase[h]) BY <2>1, <2>2, <2>3 DEF Lower
  <2>5. Phase[f] \in Nat /\ Phase[h] \in Nat /\ Phase[e] \in Nat
    BY <2>1, <2>3 DEF Assumptions, GroupAssumption
  <2> QED BY <2>1, <2>3, <2>4, <2>5 DEF Lower
<1>8. IsFiniteSet(Lower(e)) /\ Cardinality(Lower(e)) \in Nat
  BY <1>6, FiniteLeft, FS_Subset, FS_CardinalityType
<1>9. IsFiniteSet(Lower(e) \ {f}) /\ Cardinality(Lower(e) \ {f}) = Cardinality(Lower(e)) - 1
  BY <1>8, FS_RemoveElement
<1>10. Cardinality(D) <= Cardinality(Lower(e)) - 1 /\ Cardinality(D) \in Nat
  BY <1>7, <1>9, FS_Subset, FS_CardinalityType
<1>11. Phase[e] = 1 + Cardinality(Lower(e))
  BY <1>1, <1>3 DEF Ordered, ChainTable, PhasesCount
<1>12. counter[g] \in Int BY DEF IInv, TypeOK
<1> QED BY <1>2, <1>3, <1>5, <1>8, <1>10, <1>11, <1>12

\* A worker that begins to execute has found its phase, or its row has none.
LEMMA Begins ==
    ASSUME Assumptions, TypeOK, [Next]_vars, NEW w \in Workers,
           wpc'[w] \in {"exec", "advance"}, wpc[w] \notin {"exec", "advance"}
    PROVE  \/ ReadPhase(w) /\ wpc[w] = "phase"
           \/ Pop(w) /\ HasWork(WorkerPool[w]) /\ ~Sequenced(Entry(w)')
<1>1. CASE wpc' = wpc BY <1>1
<1>2. CASE WakeWaiters BY <1>2 DEF WakeWaiters, TypeOK
<1>3. ASSUME NEW v \in Workers, Worker(v)
      PROVE  \/ ReadPhase(w) /\ wpc[w] = "phase"
             \/ Pop(w) /\ HasWork(WorkerPool[w]) /\ ~Sequenced(Entry(w)')
  <2>1. CASE Notify(v) BY <2>1 DEF Notify, TypeOK
  <2>2. CASE ~Notify(v) /\ v # w
    <3>1. wpc'[w] = wpc[w]
      BY <1>3, <2>2 DEF Worker, AcquirePermit, Pop, ReadPhase, ReadAbort, Park, Execute,
         AdvancePhase, MarkCompleted, ReleaseCtx, Report, TypeOK
    <3> QED BY <3>1
  <2>3. CASE ~Notify(v) /\ v = w /\ ~Pop(w)
    BY <1>3, <2>3 DEF Worker, AcquirePermit, ReadPhase, ReadAbort, Park, Execute,
       AdvancePhase, MarkCompleted, ReleaseCtx, Report, TypeOK
  <2>4. CASE Pop(w)
    <3>1. HasWork(WorkerPool[w])
      BY <2>4 DEF Pop, TypeOK
    <3>2. /\ wctx'[w] = Head(queue[WorkerPool[w]]) /\ ctxEntry' = ctxEntry
          /\ wpc'[w] = IF Sequenced(ctxEntry[Head(queue[WorkerPool[w]])]) THEN "phase" ELSE "exec"
      BY <2>4, <3>1 DEF Pop, TypeOK
    <3>3. ~Sequenced(Entry(w)') BY <3>2 DEF Entry
    <3> QED BY <2>4, <3>1, <3>3
  <2> QED BY <2>1, <2>2, <2>3, <2>4
<1>4. CASE wpc' # wpc /\ ~WakeWaiters /\ \A v \in Workers : ~Worker(v)
  BY <1>4 DEF Next, Dispatcher, Shutdown, Stopped, vars, dispatchVars, workerVars,
       BeginCycle, PassOver, CheckRunning, Acquire, MarkDispatched, EnqueueStopCheck, Push,
       Signal, ReleaseRefused, Unmark, DispatchEnd, ToggleLock, RaiseStop, DriveCounter,
       CountersDriven, StopPool, ReleaseWorkers, JoinWorkers
<1> QED BY <1>1, <1>2, <1>3, <1>4

\* One that ceases to execute has its run ended.
LEMMA Ceases ==
    ASSUME TypeOK, [Next]_vars, NEW w \in Workers,
           wpc[w] \in {"exec", "advance"}, wpc'[w] \notin {"exec", "advance"}
    PROVE  Ending(w)
<1>1. CASE wpc' = wpc BY <1>1
<1>2. CASE WakeWaiters BY <1>2 DEF WakeWaiters, Woken, TypeOK
<1>3. ASSUME NEW v \in Workers, Worker(v) PROVE Ending(w)
  <2>1. CASE Notify(v) BY <2>1 DEF Notify, Woken, TypeOK
  <2>2. CASE ~Notify(v) /\ v # w
    <3>1. wpc'[w] = wpc[w]
      BY <1>3, <2>2 DEF Worker, AcquirePermit, Pop, ReadPhase, ReadAbort, Park, Execute,
         AdvancePhase, MarkCompleted, ReleaseCtx, Report, TypeOK
    <3> QED BY <3>1
  <2>3. CASE ~Notify(v) /\ v = w
    BY <1>3, <2>3 DEF Worker, AcquirePermit, Pop, ReadPhase, ReadAbort, Park, Execute,
       AdvancePhase, MarkCompleted, ReleaseCtx, Report, TypeOK, Ending, Running, Counting
  <2> QED BY <2>1, <2>2, <2>3
<1>4. CASE wpc' # wpc /\ ~WakeWaiters /\ \A v \in Workers : ~Worker(v)
  BY <1>4 DEF Next, Dispatcher, Shutdown, Stopped, vars, dispatchVars, workerVars,
       BeginCycle, PassOver, CheckRunning, Acquire, MarkDispatched, EnqueueStopCheck, Push,
       Signal, ReleaseRefused, Unmark, DispatchEnd, ToggleLock, RaiseStop, DriveCounter,
       CountersDriven, StopPool, ReleaseWorkers, JoinWorkers
<1> QED BY <1>1, <1>2, <1>3, <1>4

\* What executes keeps having nothing before it.
LEMMA ExecStep ==
    ASSUME Base, PassInv, ExecInv, [Next]_vars
    PROVE  ExecInv'
<1> USE DEF Base
<1>a. \A w \in Workers : wpc'[w] \in {"exec", "advance"} => Entry(w)' \in Entries
  <2>1. IInv' BY StepIInv
  <2> QED BY <2>1 DEF IInv, Places, WorkerPlace, Running
<1>b. \A e \in Entries : Sequenced(e) => GroupOf[e] \in Groups
  BY DEF Sequenced, Assumptions, GroupAssumption
<1> SUFFICES ASSUME Orderly', NEW w \in Workers, wpc'[w] \in {"exec", "advance"}, Sequenced(Entry(w)')
             PROVE  \A g \in Groups : g = GroupOf[Entry(w)'] => Lower(Entry(w)') \cap Left(g)' = {}
  <2>1. ASSUME NEW w \in Workers, (wpc[w] \in {"exec", "advance"})', Sequenced(Entry(w))',
               \A g \in Groups : g = GroupOf[Entry(w)'] => Lower(Entry(w)') \cap Left(g)' = {}
        PROVE  (Lower(Entry(w)) \cap Left(Group(w)) = {})'
    <3>1. Entry(w)' \in Entries /\ Sequenced(Entry(w)') BY <2>1, <1>a DEF Sequenced
    <3>2. PICK g \in Groups : g = GroupOf[Entry(w)'] BY <3>1, <1>b
    <3>3. Group(w)' = g BY <3>2 DEF Group
    <3>4. Lower(Entry(w)') \cap Left(g)' = {} BY <2>1, <3>2
    <3>5. Lower(Entry(w))' = Lower(Entry(w)') BY DEF Lower
    <3> DEFINE h == Group(w)
    <3>6. (Left(h))' = Left(g)' BY <3>3 DEF Left, Members
    <3> QED BY <3>4, <3>5, <3>6
  <2> QED BY <2>1 DEF ExecInv, Sequenced
<1>1. Orderly /\ ~Turned BY OrderlyBefore, NeverTurned
<1>2. \/ wpc[w] \in {"exec", "advance"}
      \/ ReadPhase(w) /\ wpc[w] = "phase" /\ counter[Group(w)] >= Phase[Entry(w)]
  <2>1. ReadPhase(w) /\ wpc'[w] \in {"exec", "advance"} => counter[Group(w)] >= Phase[Entry(w)]
    BY DEF ReadPhase, IInv, TypeOK
  <2> QED BY <2>1, Begins DEF IInv, Sequenced
<1>3. CASE wpc[w] \in {"exec", "advance"}
  <2>1. Entry(w) \in Uncounted /\ Entry(w)' = Entry(w)
    BY <1>3, EntrySame DEF Running, Counting
  <2>2. Sequenced(Entry(w)) /\ Entry(w) \in Entries
    BY <2>1, UncountedRows DEF Ordered, Sequenced
  <2>3. PICK g \in Groups : g = Group(w) BY <2>2 DEF Group, Sequenced, Assumptions, GroupAssumption
  <2>4. Entry(w) \in Left(g) /\ g = GroupOf[Entry(w)'] /\ GroupOf[Entry(w)'] = Group(w) BY <2>1, <2>2, <2>3 DEF Left, Members, Group
  <2>5. Lower(Entry(w)) \cap Left(g) = {} BY <1>1, <1>3, <2>2, <2>3 DEF ExecInv
  <2>6. Left(g)' \subseteq Left(g)
    <3>1. ~BeginCycle BY <2>4, LeftBegins
    <3>2. ASSUME NEW v \in Workers, Ending(v) PROVE Left(g)' \subseteq Left(g)
      BY <3>2, LeftEnds
    <3> QED BY <1>1, <3>1, <3>2, LeftWalks, LeftStays
  <2> QED BY <2>1, <2>4, <2>5, <2>6
<1>4. CASE ReadPhase(w) /\ wpc[w] = "phase" /\ counter[Group(w)] >= Phase[Entry(w)]
  <2>1. Entry(w) \in Uncounted /\ Entry(w)' = Entry(w)
    BY <1>4, EntrySame DEF Running, Waiting, Counting
  <2>2. Sequenced(Entry(w)) /\ Entry(w) \in Entries
    BY <2>1, UncountedRows DEF Ordered, Sequenced
  <2>3. PICK g \in Groups : g = Group(w) BY <2>2 DEF Group, Sequenced, Assumptions, GroupAssumption
  <2>4. Lower(Entry(w)) \cap Left(g) = {} BY <1>1, <1>4, <2>1, <2>3, PhaseCome
  <2>5. ~Dispatcher /\ \A v \in Workers : ~Ending(v)
    <3>1. \A v \in Workers : wpc'[v] \in Counting => wpc[v] \in Counting
      BY <1>4 DEF ReadPhase, IInv, TypeOK, Counting
    <3>2. wpc' # wpc BY <1>4 DEF ReadPhase, IInv, TypeOK
    <3>3. ~Dispatcher
      BY <3>2 DEF Dispatcher, workerVars,
         BeginCycle, PassOver, CheckRunning, Acquire, MarkDispatched, EnqueueStopCheck, Push,
         Signal, ReleaseRefused, Unmark
    <3> QED BY <3>1, <3>3 DEF Ending
  <2>6. Left(g)' = Left(g) BY <2>5, LeftStays
  <2>7. g = GroupOf[Entry(w)'] BY <2>1, <2>3 DEF Group
  <2>8. Lower(Entry(w)') \cap Left(g)' = {} BY <2>1, <2>3, <2>4, <2>6
  <2> QED BY <2>7, <2>8
<1> QED BY <1>2, <1>3, <1>4

----------------------------------------------------------------------------
(* The theorems about phases.                                              *)

\* The invariants about phases, together.
PhaseInv == RunPool /\ DropInv /\ FrameInv /\ CountInv /\ PassInv /\ ExecInv

\* Before the first frame nothing is left and every counter is at one.
LEMMA PhaseInit ==
    ASSUME Assumptions, Init
    PROVE  PhaseInv
<1>1. InFlight = {} /\ Unfinished = {}
  BY DEF Init, InFlight, Queued, QueueRange, OnWorkers, OnPad, Unfinished, Running, Waiting
<1>2. ToCome = {} /\ Uncounted = {}
  BY <1>1 DEF Init, ToCome, Uncounted
<1>3. \A g \in Groups : Left(g) = {}
  BY <1>2 DEF Left
<1>4. RunPool /\ DropInv /\ FrameInv
  BY <1>1, <1>2 DEF Init, RunPool, DropInv, FrameInv, Orderly
<1>5. CountInv /\ PassInv
  BY <1>3 DEF Init, CountInv, PassInv
<1>6. ExecInv
  BY DEF Init, ExecInv
<1> QED BY <1>4, <1>5, <1>6 DEF PhaseInv

\* No step of an ordered table disturbs the invariants about phases.
LEMMA PhaseStep ==
    ASSUME Assumptions, Ordered, IInv, PhaseInv, [Next]_vars
    PROVE  PhaseInv'
<1>1. Base BY DEF Base, PhaseInv
<1>2. RunPool' /\ DropInv' /\ FrameInv'
  BY <1>1, RunPoolStep, DropStep, FrameStep
<1>3. CountInv' BY <1>1, CountStep DEF PhaseInv
<1>4. PassInv' BY <1>1, PassStep DEF PhaseInv
<1>5. ExecInv' BY <1>1, ExecStep DEF PhaseInv
<1> QED BY <1>2, <1>3, <1>4, <1>5 DEF PhaseInv

\* Both invariants hold in every state of an ordered table.
LEMMA PhaseReached == Ordered => (Spec => [](IInv /\ PhaseInv))
<1> SUFFICES ASSUME Ordered PROVE Spec => [](IInv /\ PhaseInv)
  OBVIOUS
<1>1. Init => IInv /\ PhaseInv
  BY Given, InitIInv, PhaseInit
<1>2. IInv /\ PhaseInv /\ [Next]_vars => (IInv /\ PhaseInv)'
  BY Given, StepIInv, PhaseStep
<1> QED BY <1>1, <1>2, PTL DEF Spec

\* No context pool and no ring runs out: every due row of a chain is
\* dispatched.
THEOREM NoneDropped == Ordered => (Spec => []NothingDropped)
<1> SUFFICES ASSUME Ordered PROVE Spec => []NothingDropped
  OBVIOUS
<1>1. IInv /\ PhaseInv => NothingDropped
  BY Given, CtxLeft DEF PhaseInv, DropInv, Orderly, NothingDropped, Ordered
<1>2. Spec => [](IInv /\ PhaseInv)
  BY PhaseReached
<1> QED BY <1>1, <1>2, PTL

\* A sequenced task executes only when no run of a lower phase of its group is
\* unfinished.
THEOREM PhasesInOrder == Ordered => (Spec => []PhaseOrder)
<1> SUFFICES ASSUME Ordered PROVE Spec => []PhaseOrder
  OBVIOUS
<1>1. IInv /\ PhaseInv => PhaseOrder
  <2> SUFFICES ASSUME IInv, PhaseInv, ~stopping, NEW w \in Workers, wpc[w] = "exec",
                      Sequenced(Entry(w)), NEW c \in Unfinished,
                      GroupOf[ctxEntry[c]] = Group(w)
               PROVE  Phase[ctxEntry[c]] >= Phase[Entry(w)]
    BY DEF PhaseOrder
  <2>1. Lower(Entry(w)) \cap Left(Group(w)) = {}
    BY DEF PhaseInv, ExecInv, Orderly
  <2>2. ctxEntry[c] \in Entries /\ ctxEntry[c] \in Uncounted
    BY UncountedRows DEF Ordered, Uncounted
  <2>3. Entry(w) \in Entries
    BY DEF IInv, Places, WorkerPlace, Running
  <2>4. ctxEntry[c] \in Left(Group(w))
    BY <2>2 DEF Left, Members
  <2>5. ctxEntry[c] \notin Lower(Entry(w))
    BY <2>1, <2>4
  <2>6. ~(Phase[ctxEntry[c]] < Phase[Entry(w)])
    BY <2>2, <2>5 DEF Lower, Group
  <2>7. Phase[ctxEntry[c]] \in Nat /\ Phase[Entry(w)] \in Nat
    BY <2>2, <2>3, Given DEF Assumptions, GroupAssumption
  <2> QED BY <2>6, <2>7
<1>2. Spec => [](IInv /\ PhaseInv)
  BY PhaseReached
<1> QED BY <1>1, <1>2, PTL

----------------------------------------------------------------------------
(* The scheduler implements TaskRuns.                                      *)

\* The rows that execute: with Uncounted they say what the state of every run is.
ExecRows == {Entry(w) : w \in {v \in Workers : wpc[v] \in {"exec", "advance"}}}

RunIs ==
    /\ ExecRows \subseteq Uncounted /\ Uncounted \subseteq Entries
    /\ RunOf = [e \in Entries |-> IF e \in ExecRows THEN "executing"
                                  ELSE IF e \in Uncounted THEN "pending" ELSE "idle"]

\* The state of a row's run, from the rows that execute and the runs not counted.
LEMMA RunKnown ==
    ASSUME Assumptions, IInv, SkipOnBusy
    PROVE  RunIs
<1>1. Uncounted \subseteq Entries BY UncountedRows
<1>2. \A e \in Entries : Executing(e) <=> e \in ExecRows
  BY DEF Executing, ExecRows
<1>3. \A c \in CountedCtxs : c # NoCtx => c \in Held
  BY DEF CountedCtxs, Held
<1>4. ASSUME NEW w \in Workers, wpc[w] \in Running \ Counting
      PROVE  wctx[w] \in Unfinished
  <2>1. wctx[w] # NoCtx BY <1>4 DEF IInv, Places, WorkerPlace
  <2>2. wctx[w] \in InFlight BY <1>4 DEF InFlight, OnWorkers
  <2>3. wctx[w] \notin CountedCtxs
    BY <1>4, <2>1 DEF CountedCtxs, IInv, CtxConservation
  <2> QED BY <2>2, <2>3, UnfinishedIs
<1>5. ExecRows \subseteq Uncounted
  BY <1>4 DEF ExecRows, Uncounted, Entry, Running, Counting
<1>6. Queued \cap CountedCtxs = {}
  <2>1. NoCtx \notin Queued
    BY DEF Queued, QueueRange, IInv, TypeOK, Assumptions, PoolAssumption
  <2> QED BY <1>3, <2>1 DEF IInv, CtxConservation
<1>7. dpc \in {"enqueue", "push"} => dctx \notin CountedCtxs
  BY <1>3 DEF IInv, CtxConservation, InHand, Places, DispatchPlace
<1>8. ASSUME NEW e \in Entries, Pending(e) PROVE e \in Uncounted
  <2>1. CASE dpc \in {"enqueue", "push"} /\ ctxEntry[dctx] = e
    <3>1. dctx \in InFlight BY <2>1 DEF InFlight, OnPad
    <3> QED BY <1>7, <2>1, <3>1, UnfinishedIs DEF Uncounted
  <2>2. CASE \E c \in Queued : ctxEntry[c] = e
    BY <1>6, <2>2, UnfinishedIs DEF Uncounted, InFlight
  <2>3. CASE \E w \in Workers : wpc[w] \in Waiting /\ Entry(w) = e
    BY <1>4, <2>3 DEF Uncounted, Entry, Waiting, Running, Counting
  <2> QED BY <1>8, <2>1, <2>2, <2>3 DEF Pending
<1>9. ASSUME NEW e \in Entries, e \in Uncounted, ~Executing(e) PROVE Pending(e)
  <2>1. PICK c \in Unfinished : ctxEntry[c] = e BY <1>9 DEF Uncounted
  <2>2. c \in InFlight /\ c \notin CountedCtxs BY <2>1, UnfinishedIs
  <2>3. CASE c \in Queued BY <2>1, <2>3 DEF Pending
  <2>4. CASE c \in OnPad BY <2>1, <2>4 DEF Pending, OnPad
  <2>5. CASE c \in OnWorkers
    <3>1. PICK w \in Workers : wpc[w] \in Running /\ wctx[w] = c BY <2>5 DEF OnWorkers
    <3>2. wpc[w] \notin Counting BY <2>2, <3>1 DEF CountedCtxs
    <3>3. Entry(w) = e BY <2>1, <3>1 DEF Entry
    <3>4. wpc[w] \notin {"exec", "advance"} BY <1>9, <3>3 DEF Executing
    <3> QED BY <3>1, <3>2, <3>3, <3>4 DEF Pending, Running, Counting
  <2> QED BY <2>2, <2>3, <2>4, <2>5 DEF InFlight
<1>10. \A e \in Entries : RunOf[e] = IF e \in ExecRows THEN "executing"
                                     ELSE IF e \in Uncounted THEN "pending" ELSE "idle"
  BY <1>2, <1>8, <1>9 DEF RunOf
<1> QED BY <1>1, <1>5, <1>10 DEF RunIs, RunOf

\* The rows that execute, after a step in which no worker begins.
LEMMA ExecRowsAfter ==
    ASSUME Base, [Next]_vars, NEW W, W \subseteq Workers,
           \A w \in Workers : wpc'[w] \in {"exec", "advance"} => wpc[w] \in {"exec", "advance"},
           \A w \in Workers : wpc[w] \in {"exec", "advance"} =>
             (wpc'[w] \notin {"exec", "advance"} <=> w \in W)
    PROVE  ExecRows' = {Entry(w) : w \in {v \in Workers : wpc[v] \in {"exec", "advance"}} \ W}
<1>1. \A w \in Workers : wpc[w] \in {"exec", "advance"} => Entry(w)' = Entry(w)
  BY EntrySame DEF Running, Counting
<1> QED BY <1>1 DEF ExecRows

\* No two workers execute one row.
LEMMA ExecOnce ==
    ASSUME Base, NEW v \in Workers, NEW w \in Workers,
           wpc[v] \in Running, wpc[w] \in Running, Entry(v) = Entry(w)
    PROVE  v = w
<1>1. wctx[v] \in InFlight /\ wctx[w] \in InFlight
  BY DEF InFlight, OnWorkers
<1>2. wctx[v] = wctx[w]
  BY <1>1 DEF Base, Ordered, IInv, SingleFlight, Trusted, Entry
<1>3. wctx[v] # NoCtx
  BY DEF Base, IInv, Places, WorkerPlace
<1> QED BY <1>2, <1>3 DEF Base, IInv, CtxConservation

\* Every step is a step of TaskRuns or leaves all runs as they are.
LEMMA RunsStep ==
    ASSUME Base, PassInv, ExecInv, ExecInv', JoinFirst, RunIs, RunIs', [Next]_vars
    PROVE  [Runs!Next]_RunOf
<1> USE DEF Base
<1> DEFINE Exec == {"exec", "advance"}
           State(e, X, U) == IF e \in X THEN "executing" ELSE IF e \in U THEN "pending" ELSE "idle"
<1>0. Orderly /\ ~Turned BY NeverTurned DEF Orderly
<1>1. /\ ExecRows \subseteq Uncounted /\ Uncounted \subseteq Entries
      /\ RunOf = [e \in Entries |-> State(e, ExecRows, Uncounted)]
      /\ RunOf' = [e \in Entries |-> State(e, ExecRows', Uncounted')]
  BY DEF RunIs
<1>2. ASSUME ExecRows' = ExecRows, Uncounted' = Uncounted PROVE RunOf' = RunOf
  BY <1>1, <1>2
<1>3. ASSUME NEW e \in Entries, e \notin Uncounted, ExecRows' = ExecRows,
             Uncounted' = Uncounted \cup {e}
      PROVE  Runs!Dispatch(e)
  <2>1. RunOf[e] = "idle" /\ RunOf' = [RunOf EXCEPT ![e] = "pending"]
    BY <1>1, <1>3
  <2> QED BY <2>1 DEF Runs!Dispatch
<1>4. ASSUME NEW e \in Entries, e \in Uncounted, e \notin ExecRows,
             ExecRows' = ExecRows \cup {e}, Uncounted' = Uncounted,
             \A f \in LowerPhases[e] : f \notin Uncounted
      PROVE  Runs!Start(e)
  <2>1. RunOf[e] = "pending" /\ RunOf' = [RunOf EXCEPT ![e] = "executing"]
    BY <1>1, <1>4
  <2>2. \A f \in LowerPhases[e] : RunOf[f] = "idle"
    BY <1>1, <1>4 DEF LowerPhases
  <2> QED BY <2>1, <2>2 DEF Runs!Start
<1>5. ASSUME NEW e \in Entries, e \in Uncounted, e \notin ExecRows,
             ExecRows' = ExecRows, Uncounted' = Uncounted \ {e}
      PROVE  Runs!Abandon(e)
  <2>1. RunOf[e] = "pending" /\ RunOf' = [RunOf EXCEPT ![e] = "idle"]
    BY <1>1, <1>5
  <2> QED BY <2>1 DEF Runs!Abandon
<1>6. ASSUME NEW e \in Entries, e \in ExecRows,
             ExecRows' = ExecRows \ {e}, Uncounted' = Uncounted \ {e}
      PROVE  Runs!Finish(e)
  <2>1. RunOf[e] = "executing" /\ RunOf' = [RunOf EXCEPT ![e] = "idle"]
    BY <1>1, <1>6
  <2> QED BY <2>1 DEF Runs!Finish
<1> HIDE DEF State
<1>7. ASSUME NEW w \in Workers, Ending(w) PROVE Runs!Next
  <2>1. /\ Entry(w) \in Uncounted /\ Uncounted' = Uncounted \ {Entry(w)}
    BY <1>7, UncountedEnds DEF Ordered
  <2>2. /\ \A v \in Workers : v # w => wpc'[v] = wpc[v]
        /\ wpc[w] \in Running /\ wpc'[w] \notin Exec
    BY <1>7, EndingSteps DEF IInv, Ending, Counting
  <2>3. PICK e \in Entries : e = Entry(w) BY <1>1, <2>1
  <2>4. CASE wpc[w] \in Exec
    <3>1. ExecRows' = {Entry(v) : v \in {u \in Workers : wpc[u] \in Exec} \ {w}}
      BY <2>2, ExecRowsAfter
    <3>2. e \in ExecRows BY <2>3, <2>4 DEF ExecRows
    <3>3. \A v \in Workers : wpc[v] \in Exec /\ Entry(v) = e => v = w
      BY <2>2, <2>3, ExecOnce DEF Running
    <3>4. ExecRows' = ExecRows \ {e}
      BY <2>3, <3>1, <3>3 DEF ExecRows
    <3> QED BY <1>6, <2>1, <2>3, <3>2, <3>4 DEF Runs!Next
  <2>5. CASE wpc[w] \notin Exec
    <3>1. ExecRows' = {Entry(v) : v \in {u \in Workers : wpc[u] \in Exec} \ {}}
      BY <2>2, <2>5, ExecRowsAfter
    <3>2. \A v \in Workers : wpc[v] \in Exec => Entry(v) # e
      BY <2>2, <2>3, <2>5, ExecOnce DEF Running
    <3>3. e \notin ExecRows /\ ExecRows' = ExecRows
      BY <3>1, <3>2 DEF ExecRows
    <3> QED BY <1>5, <2>1, <2>3, <3>3 DEF Runs!Next
  <2> QED BY <2>4, <2>5
<1>8. ASSUME NEW w \in Workers, wpc'[w] \in Exec, wpc[w] \notin Exec PROVE Runs!Next
  <2>1. \/ ReadPhase(w) /\ wpc[w] = "phase"
        \/ Pop(w) /\ HasWork(WorkerPool[w]) /\ ~Sequenced(Entry(w)')
    BY <1>8, Begins DEF IInv
  <2>2. /\ \A v \in Workers : v # w => wpc'[v] = wpc[v]
        /\ ~Dispatcher /\ \A v \in Workers : ~Ending(v)
    <3>1. \A v \in Workers : v # w => wpc'[v] = wpc[v]
      BY <2>1 DEF ReadPhase, Pop, IInv, TypeOK
    <3>2. wpc' # wpc BY <1>8
    <3>3. ~Dispatcher
      BY <3>2 DEF Dispatcher, workerVars,
         BeginCycle, PassOver, CheckRunning, Acquire, MarkDispatched, EnqueueStopCheck, Push,
         Signal, ReleaseRefused, Unmark
    <3> QED BY <1>8, <3>1, <3>3 DEF Ending, Counting
  <2>3. Uncounted' = Uncounted
    BY <1>0, <2>2, UncountedSame DEF Dispatcher
  <2>4. ExecRows' = ExecRows \cup {Entry(w)'}
    <3>1. \A v \in Workers : wpc[v] \in Exec => Entry(v)' = Entry(v) /\ v # w
      BY <1>8, EntrySame DEF Running, Counting
    <3> QED BY <1>8, <2>2, <3>1 DEF ExecRows
  <2>5. Entry(w)' \in Uncounted
    <3>1. ExecRows' \subseteq Uncounted' BY DEF RunIs
    <3> QED BY <2>3, <2>4, <3>1
  <2>6. PICK e \in Entries : e = Entry(w)' BY <1>1, <2>5
  <2>7. \A f \in LowerPhases[e] : f \notin Uncounted
    <3>1. CASE ~Sequenced(e) BY <3>1 DEF LowerPhases
    <3>2. CASE Sequenced(e)
      <4>1. PICK g \in Groups : g = GroupOf[e]
        BY <3>2 DEF Sequenced, Assumptions, GroupAssumption
      <4>2. Sequenced(Entry(w))' /\ Group(w)' = g /\ Lower(Entry(w))' = Lower(e)
        BY <2>6, <3>2, <4>1 DEF Sequenced, Group, Lower
      <4>3. (Lower(Entry(w)) \cap Left(Group(w)))' = {}
        BY <1>0, <1>8, <4>2 DEF ExecInv, Orderly
      <4>4. Lower(e) \cap Left(g)' = {}
        BY <4>2, <4>3 DEF Left, Members
      <4>5. \A f \in LowerPhases[e] : f \in Lower(e) /\ f \in Members(g)
        BY <4>1 DEF LowerPhases, Lower, Members
      <4>6. \A f \in Members(g) : f \in Uncounted => f \in Left(g)'
        BY <2>3 DEF Left
      <4> QED BY <4>4, <4>5, <4>6
    <3> QED BY <3>1, <3>2
  <2>8. e \notin ExecRows
    <3>1. CASE ReadPhase(w) /\ wpc[w] = "phase"
      <4>1. Entry(w)' = Entry(w) BY <3>1, EntrySame DEF Running, Waiting, Counting
      <4>2. \A v \in Workers : wpc[v] \in Exec => Entry(v) # Entry(w)
        BY <3>1, ExecOnce DEF Running, Waiting
      <4> QED BY <2>6, <4>1, <4>2 DEF ExecRows
    <3>2. CASE Pop(w) /\ HasWork(WorkerPool[w])
      <4> DEFINE p == WorkerPool[w]
                 c == Head(queue[p])
      <4>1. p \in Pools /\ queue[p] \in Seq(Ctxs) /\ queue[p] # <<>>
        BY <3>2 DEF HasWork, Assumptions, PoolAssumption, IInv, TypeOK
      <4>2. c = queue[p][1] /\ 1 \in 1 .. Len(queue[p]) BY <4>1
      <4>3. c \in Queued BY <4>1, <4>2 DEF Queued, QueueRange
      <4>4. e = ctxEntry[c]
        BY <2>6, <3>2 DEF Pop, Entry, IInv, TypeOK
      <4>5. ASSUME NEW v \in Workers, wpc[v] \in Exec PROVE Entry(v) # e
        <5>1. wctx[v] \in InFlight /\ c \in InFlight
          BY <4>3, <4>5 DEF InFlight, OnWorkers, Running
        <5>2. wctx[v] \in Held
          BY <4>5 DEF Held, IInv, Places, WorkerPlace, Running
        <5>3. wctx[v] # c BY <4>3, <5>2 DEF IInv, CtxConservation
        <5> QED BY <4>4, <5>1, <5>3 DEF IInv, SingleFlight, Trusted, Ordered, Entry
      <4> QED BY <4>5 DEF ExecRows
    <3> QED BY <2>1, <3>1, <3>2
  <2> QED BY <1>4, <2>3, <2>4, <2>5, <2>6, <2>7, <2>8 DEF Runs!Next
<1>9. CASE /\ \A w \in Workers : ~Ending(w)
           /\ \A w \in Workers : ~(wpc'[w] \in Exec /\ wpc[w] \notin Exec)
  <2>1. \A w \in Workers : wpc[w] \in Exec => wpc'[w] \in Exec
    BY <1>9, Ceases DEF IInv
  <2>2. ExecRows' = {Entry(w) : w \in {v \in Workers : wpc[v] \in Exec} \ {}}
    BY <1>9, <2>1, ExecRowsAfter
  <2>3. ExecRows' = ExecRows BY <2>2 DEF ExecRows
  <2>4. CASE MarkDispatched
    <3>1. Current \in Entries /\ dpc = "mark" BY <2>4, ToComeIs DEF MarkDispatched, IInv
    <3>2. Current \notin Uncounted
      BY <3>1, UncountedRows DEF Ordered, IInv, SingleFlight, Trusted
    <3>3. Uncounted' = Uncounted \cup {Current} BY <2>4, UncountedStarts
    <3> QED BY <1>3, <2>3, <3>1, <3>2, <3>3 DEF Runs!Next
  <2>5. CASE ~MarkDispatched
    <3>1. Uncounted' = Uncounted BY <1>0, <1>9, <2>5, UncountedSame
    <3> QED BY <1>2, <2>3, <3>1
  <2> QED BY <2>4, <2>5
<1> QED BY <1>7, <1>8, <1>9

\* In skip mode and for an ordered table the threads, contexts and rings do
\* what TaskRuns promises: at most one run of a row, none before the lower
\* phases of its group are over.
THEOREM ImplementsPromise == Ordered /\ JoinFirst => (Spec => ImplementsRuns)
<1> SUFFICES ASSUME Ordered, JoinFirst PROVE Spec => ImplementsRuns
  OBVIOUS
<1>1. Init => Runs!Init
  <2> SUFFICES ASSUME Init PROVE RunOf = [e \in Entries |-> "idle"]
    BY DEF Runs!Init
  <2>1. Queued = {} BY DEF Init, Queued, QueueRange
  <2>2. \A e \in Entries : ~Executing(e) /\ ~Pending(e)
    BY <2>1 DEF Init, Executing, Pending, Waiting
  <2> QED BY <2>2 DEF RunOf
<1>2. IInv => RunIs
  BY Given, RunKnown DEF Ordered
<1>3. /\ IInv /\ PhaseInv /\ RunIs /\ [Next]_vars
      /\ IInv' /\ PhaseInv' /\ RunIs'
      => [Runs!Next]_RunOf
  BY Given, RunsStep DEF PhaseInv, Base
<1>4. Spec => [](IInv /\ PhaseInv)
  BY PhaseReached
<1> QED BY <1>1, <1>2, <1>3, <1>4, PTL DEF Spec, ImplementsRuns, Runs!Spec
=============================================================================
