------------------------- MODULE TaskDispatchRefines -------------------------
(***************************************************************************)
(* The scheduler in skip mode, under the frame contract, implements        *)
(* TaskRuns: a row is pending from its dispatch mark until its phase has   *)
(* come, executing until its end is counted, and idle otherwise.           *)
(***************************************************************************)
EXTENDS TaskDispatch

----------------------------------------------------------------------------
(* The tables this holds for.                                              *)

Members(g) == {e \in Entries : GroupOf[e] = g}
Lower(e)   == {f \in Entries : GroupOf[f] = GroupOf[e] /\ Phase[f] < Phase[e]}

\* The slot of a cycle.
SlotAt(k) == Slots[1 + (k % Len(Slots))]

\* How SequenceGroup.hpp asks groups to be built: a phase is one more than the
\* rows before it, the highest is the number of rows. The rows of a group are
\* due together, once each, and none is locked away from the others.
PhasesCount ==
    \A e \in Entries : Sequenced(e) => Phase[e] = 1 + Cardinality(Lower(e))

GroupsWhole ==
    \A g \in Groups : MaxPhase[g] = Cardinality(Members(g))

DueTogether ==
    \A k \in 0 .. Pattern - 1, g \in Groups :
      \/ \A i \in 1 .. Len(SlotAt(k)) : SlotAt(k)[i] \in Members(g) => k \notin RunCycles[SlotAt(k)[i]]
      \/ /\ \A e \in Members(g) : k \in RunCycles[e] /\ \E i \in 1 .. Len(SlotAt(k)) : SlotAt(k)[i] = e
         /\ \A i, j \in 1 .. Len(SlotAt(k)) :
              SlotAt(k)[i] \in Members(g) /\ SlotAt(k)[i] = SlotAt(k)[j] => i = j

ChainTable ==
    /\ PhasesCount /\ GroupsWhole /\ DueTogether
    /\ \A e \in Lockable : ~Sequenced(e)

\* Every row of a pool can have a run while every worker returns another.
RowsOf(p)    == {e \in Entries : PoolFor(e) = p}
WorkersOf(p) == {w \in Workers : WorkerPool[w] = p}
CtxsOf(p)    == {c \in Ctxs : CtxPool[c] = p}

Sized ==
    /\ IsFiniteSet(Ctxs)
    /\ \A p \in Pools :
         /\ Cardinality(RowsOf(p)) + Cardinality(WorkersOf(p)) <= Cardinality(CtxsOf(p))
         /\ Cardinality(RowsOf(p)) <= QueueCap

\* What the theorems about phases ask of the table and the mode.
Ordered == SkipOnBusy /\ FrameContract /\ ChainTable /\ Sized

----------------------------------------------------------------------------
(* The refinement mapping.                                                 *)

Executing(e) ==
    \E w \in Workers : wpc[w] \in {"exec", "advance"} /\ Entry(w) = e

Pending(e) ==
    \/ dpc \in {"enqueue", "push"} /\ ctxEntry[dctx] = e
    \/ \E c \in Queued : ctxEntry[c] = e
    \/ \E w \in Workers : wpc[w] \in Waiting /\ Entry(w) = e

RunOf == [e \in Entries |-> IF Executing(e) THEN "executing"
                            ELSE IF Pending(e) THEN "pending" ELSE "idle"]

LowerPhases ==
    [e \in Entries |-> {f \in Entries : /\ Sequenced(e)
                                        /\ GroupOf[f] = GroupOf[e]
                                        /\ Phase[f] < Phase[e]}]

Runs == INSTANCE TaskRuns WITH Rows <- Entries, Before <- LowerPhases,
                               run <- RunOf

\* Every behaviour of the threads is a behaviour of the promise: one run per
\* row, no start before the lower phases are over.
ImplementsRuns == Runs!Spec

\* And every run that is dispatched ends.
ImplementsFairRuns == Runs!FairSpec
=============================================================================
