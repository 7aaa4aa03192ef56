------------------------------ MODULE AsyncLog ------------------------------
(***************************************************************************)
(* The asynchronous log: threads that log push entries into a bounded ring *)
(* per log file, count them in an atomic depth and write an eventfd when   *)
(* the depth was zero.  One drain thread sweeps the logs registered with   *)
(* LogDrainService and parks on the shared eventfd; a log that finds the   *)
(* registry full drains itself with a thread of its own.  stop() takes a   *)
(* log away from the drain thread by waiting for two sweeps to begin, then *)
(* drains what is left itself; flush() waits for a depth of zero.          *)
(***************************************************************************)
EXTENDS Integers, Sequences, FiniteSets, SequencesExt

CONSTANTS
    Logs,         \* AsyncLogBackend objects
    Writers,      \* threads that call tryLog
    Layouts,      \* processes: their logs, their registry, what each thread logs
    Cap,          \* capacity of a ring
    Width,        \* queueDepth_ is a number modulo Width (2^64)
    Batch,        \* SWEEP_BATCH
    NoLog

\* A process: its logs, the slots of the drain service (MAX_BACKENDS), the log
\* each thread writes and how often it calls tryLog; whether flush() is called.
LayoutShape(l) ==
    /\ l.logs \subseteq Logs /\ l.slots \in Nat
    /\ l.logOf \in [Writers -> Logs] /\ l.calls \in [Writers -> Nat]
    /\ l.flush \in BOOLEAN

Entry == Writers \X Nat
NoEntry == <<>>
Calls == UNION {UNION {1 .. l.calls[p] : p \in Writers} : l \in Layouts}

\* The threads that may run drainBatch or ioThreadLoop on a log.
Service == <<"service", NoLog>>
Io(b) == <<"io", b>>
Stopper(b) == <<"stop", b>>
Drainers == {Service} \cup {Io(b) : b \in Logs} \cup {Stopper(b) : b \in Logs}

ASSUME LogAssumption ==
    /\ \A l \in Layouts : LayoutShape(l)
    /\ Cap \in Nat \ {0} /\ Batch \in Nat \ {0}
    /\ Width \in Nat /\ Width > Cap + Cardinality(Writers)
    /\ IsFiniteSet(Writers) /\ NoLog \notin Logs

VARIABLES
    layout,                   \* the process of this behaviour, never changed
    ring, depth, running, open,
    slot,                     \* the service's registry
    wake, ownWake,            \* eventfds: the service's, a log's own
    home,                     \* "none", "service" or "own": who drains the log
    ppc, sent, dropped,       \* writers: step, calls begun; entries dropped
    cpc, target, hold, got,   \* drainers: step, log, entry, entries of this call
    sweep, busy,              \* the service's sweep: slot, has it drained any
    spc, begun,               \* stop(): step, sweeps begun since it looked
    fpc, flog,                \* the thread in flush()
    accepted, file,           \* entries accepted; entries written, in order
    before, unsynced, clean,  \* accepted before stop, before flush; result of stop
    calm                      \* nobody was in tryLog when stop() was called

ringVars   == <<ring, depth>>
logVars    == <<running, open, slot, home>>
wakeVars   == <<wake, ownWake>>
writerVars == <<ppc, sent, dropped>>
drainVars  == <<cpc, target, hold, got, sweep, busy>>
stopVars   == <<spc, begun, before, clean, calm>>
flushVars  == <<fpc, flog, unsynced>>
vars == <<layout, ringVars, logVars, wakeVars, writerVars, drainVars, stopVars,
          flushVars, accepted, file>>

LogOf(p) == layout.logOf[p]
Slots == 1 .. layout.slots
Mine(p) == <<p, sent[p]>>
InFile(b) == ToSet(file[b])
WritersOf(b) == {p \in Writers : LogOf(p) = b /\ layout.calls[p] > 0}

Init ==
    /\ layout \in Layouts
    /\ ring = [b \in Logs |-> <<>>]
    /\ depth = [b \in Logs |-> 0]
    /\ running = [b \in Logs |-> FALSE] /\ open = [b \in Logs |-> FALSE]
    /\ slot = [i \in Slots |-> NoLog]
    /\ home = [b \in Logs |-> "none"]
    /\ wake = FALSE /\ ownWake = [b \in Logs |-> FALSE]
    /\ ppc = [p \in Writers |-> "idle"]
    /\ sent = [p \in Writers |-> 0]
    /\ dropped = [b \in Logs |-> 0]
    /\ cpc = [c \in Drainers |-> IF c = Service THEN "top" ELSE "idle"]
    /\ target = [c \in Drainers |-> NoLog]
    /\ hold = [c \in Drainers |-> NoEntry]
    /\ got = [c \in Drainers |-> 0]
    /\ sweep = 1 /\ busy = FALSE
    /\ spc = [b \in Logs |-> "new"]
    /\ begun = [b \in Logs |-> 0]
    /\ before = [b \in Logs |-> {}]
    /\ clean = [b \in Logs |-> FALSE]
    /\ calm = [b \in Logs |-> FALSE]
    /\ fpc = "idle" /\ flog = NoLog /\ unsynced = {}
    /\ accepted = {}
    /\ file = [b \in Logs |-> <<>>]

----------------------------------------------------------------------------
(* start(): opens the file and registers with the service, or starts a     *)
(* thread of its own.  It is called before anybody else uses the log, and  *)
(* takes one step here.                                                    *)

FreeSlots == {i \in Slots : slot[i] = NoLog}

Start(b) ==
    /\ spc[b] = "new" /\ b \in layout.logs
    /\ running' = [running EXCEPT ![b] = TRUE]
    /\ open' = [open EXCEPT ![b] = TRUE]
    /\ \/ /\ FreeSlots # {}
          /\ LET i == CHOOSE i \in FreeSlots : \A j \in FreeSlots : i <= j
             IN  slot' = [slot EXCEPT ![i] = b]
          /\ home' = [home EXCEPT ![b] = "service"]
          /\ UNCHANGED <<cpc, target>>
       \/ /\ FreeSlots = {}
          /\ home' = [home EXCEPT ![b] = "own"]
          /\ cpc' = [cpc EXCEPT ![Io(b)] = "pop"]
          /\ target' = [target EXCEPT ![Io(b)] = b]
          /\ UNCHANGED slot
    /\ spc' = [spc EXCEPT ![b] = "up"]
    /\ UNCHANGED <<layout, ringVars, wakeVars, writerVars, hold, got, sweep,
                   busy, begun, before, clean, calm, flushVars, accepted, file>>

----------------------------------------------------------------------------
(* tryLog.                                                                 *)

To(p, step) == ppc' = [ppc EXCEPT ![p] = step]
Drop(p) == dropped' = [dropped EXCEPT ![LogOf(p)] = @ + 1]

CheckRunning(p) ==
    /\ ppc[p] = "idle" /\ sent[p] < layout.calls[p]
    /\ sent' = [sent EXCEPT ![p] = @ + 1]
    /\ IF running[LogOf(p)] THEN To(p, "depth") /\ UNCHANGED dropped
       ELSE Drop(p) /\ UNCHANGED ppc
    /\ UNCHANGED <<layout, ringVars, logVars, wakeVars, drainVars, stopVars, flushVars,
                   accepted, file>>

CheckDepth(p) ==
    /\ ppc[p] = "depth"
    /\ IF depth[LogOf(p)] < Cap THEN To(p, "claim") /\ UNCHANGED dropped
       ELSE To(p, "idle") /\ Drop(p)
    /\ UNCHANGED <<layout, ringVars, logVars, wakeVars, sent, drainVars, stopVars,
                   flushVars, accepted, file>>

\* tryPush up to the claim of a cell.
Claim(p) ==
    /\ ppc[p] = "claim"
    /\ IF Len(ring[LogOf(p)]) < Cap
       THEN /\ ring' = [ring EXCEPT ![LogOf(p)] =
                            Append(@, [entry |-> Mine(p), published |-> FALSE])]
            /\ To(p, "publish") /\ UNCHANGED dropped
       ELSE To(p, "idle") /\ Drop(p) /\ UNCHANGED ring
    /\ UNCHANGED <<layout, depth, logVars, wakeVars, sent, drainVars, stopVars,
                   flushVars, accepted, file>>

Publish(p) ==
    /\ ppc[p] = "publish"
    /\ ring' = [ring EXCEPT ![LogOf(p)] =
                    [i \in DOMAIN @ |-> IF @[i].entry = Mine(p)
                                        THEN [@[i] EXCEPT !.published = TRUE] ELSE @[i]]]
    /\ To(p, "count")
    /\ UNCHANGED <<layout, depth, logVars, wakeVars, sent, dropped, drainVars, stopVars,
                   flushVars, accepted, file>>

\* Only the writer that finds a depth of zero wakes the drain thread.
\* Slip: wakes when the ring becomes full.
WhenFull(b) == depth[b] = Cap
Wakes(b) == depth[b] = 0

Count(p) ==
    /\ ppc[p] = "count"
    /\ depth' = [depth EXCEPT ![LogOf(p)] = (@ + 1) % Width]
    /\ IF Wakes(LogOf(p)) THEN To(p, "notify") /\ UNCHANGED accepted
       ELSE To(p, "idle") /\ accepted' = accepted \cup {Mine(p)}
    /\ UNCHANGED <<layout, ring, logVars, wakeVars, sent, dropped, drainVars, stopVars,
                   flushVars, file>>

\* One write to the service's eventfd or to the log's own; closed, it fails.
Signal(b) ==
    /\ wake' = (wake \/ home[b] = "service")
    /\ ownWake' = [ownWake EXCEPT ![b] = @ \/ home[b] = "own"]

Notify(p) ==
    /\ ppc[p] = "notify"
    /\ Signal(LogOf(p))
    /\ To(p, "idle")
    /\ accepted' = accepted \cup {Mine(p)}
    /\ UNCHANGED <<layout, ringVars, logVars, sent, dropped, drainVars, stopVars,
                   flushVars, file>>

----------------------------------------------------------------------------
(* tryPop, the depth and the write: drainBatch and ioThreadLoop alike.     *)

Goes(c, step) == cpc' = [cpc EXCEPT ![c] = step]
Ready(b) == ring[b] # <<>> /\ Head(ring[b]).published
WithinBatch(c) == c = Service => got[c] < Batch

Pop(c) ==
    /\ cpc[c] = "pop" /\ WithinBatch(c) /\ Ready(target[c])
    /\ hold' = [hold EXCEPT ![c] = Head(ring[target[c]]).entry]
    /\ ring' = [ring EXCEPT ![target[c]] = Tail(@)]
    /\ Goes(c, "count")
    /\ UNCHANGED <<layout, depth, logVars, wakeVars, writerVars, target, got,
                   sweep, busy, stopVars, flushVars, accepted, file>>

Lowered(d) == (d + Width - 1) % Width

Uncount(c) ==
    /\ cpc[c] = "count"
    /\ depth' = [depth EXCEPT ![target[c]] = Lowered(@)]
    /\ Goes(c, "write")
    /\ UNCHANGED <<layout, ring, logVars, wakeVars, writerVars, target, hold, got,
                   sweep, busy, stopVars, flushVars, accepted, file>>

\* Slip: an entry taken out after the stop is not written.
WhileRunning(b) == running[b]
Writes(b) == open[b]

Write(c) ==
    /\ cpc[c] = "write"
    /\ file' = IF Writes(target[c])
               THEN [file EXCEPT ![target[c]] = Append(@, hold[c])] ELSE file
    /\ hold' = [hold EXCEPT ![c] = NoEntry]
    /\ got' = [got EXCEPT ![c] = IF @ < Batch THEN @ + 1 ELSE @]
    /\ Goes(c, "pop")
    /\ UNCHANGED <<layout, ringVars, logVars, wakeVars, writerVars, target, sweep, busy,
                   stopVars, flushVars, accepted>>

----------------------------------------------------------------------------
(* LogDrainService::drainLoop.                                             *)

serviceOnly == <<layout, ringVars, logVars, writerVars, hold, spc, before, clean, calm,
                 flushVars, accepted, file>>

BeginSweep ==
    /\ cpc[Service] = "top"
    /\ begun' = [b \in Logs |-> IF spc[b] = "handoff" /\ begun[b] < 2
                                THEN begun[b] + 1 ELSE begun[b]]
    /\ sweep' = 1 /\ busy' = FALSE
    /\ Goes(Service, "slot")
    /\ UNCHANGED <<serviceOnly, wakeVars, target, got>>

LoadSlot ==
    /\ cpc[Service] = "slot" /\ sweep <= layout.slots
    /\ IF slot[sweep] = NoLog
       THEN sweep' = sweep + 1 /\ UNCHANGED <<cpc, target, got>>
       ELSE /\ target' = [target EXCEPT ![Service] = slot[sweep]]
            /\ got' = [got EXCEPT ![Service] = 0]
            /\ Goes(Service, "pop") /\ UNCHANGED sweep
    /\ UNCHANGED <<serviceOnly, wakeVars, busy, begun>>

LeaveSlot ==
    /\ cpc[Service] = "pop"
    /\ ~(WithinBatch(Service) /\ Ready(target[Service]))
    /\ busy' = (busy \/ got[Service] > 0)
    /\ sweep' = sweep + 1
    /\ target' = [target EXCEPT ![Service] = NoLog]
    /\ Goes(Service, "slot")
    /\ UNCHANGED <<serviceOnly, wakeVars, got, begun>>

EndSweep ==
    /\ cpc[Service] = "slot" /\ sweep > layout.slots
    /\ Goes(Service, IF busy THEN "top" ELSE "park")
    /\ UNCHANGED <<serviceOnly, wakeVars, target, got, sweep, busy, begun>>

\* eventfd_read blocks until the counter is not zero, and clears it.
Unpark ==
    /\ cpc[Service] = "park" /\ wake
    /\ wake' = FALSE
    /\ Goes(Service, "top")
    /\ UNCHANGED <<serviceOnly, ownWake, target, got, sweep, busy, begun>>

----------------------------------------------------------------------------
(* ioThreadLoop: a log with a thread of its own.                           *)

ioOnly == <<layout, ringVars, logVars, wake, writerVars, target, hold, got,
            sweep, busy, stopVars, flushVars, accepted, file>>

IoEmpty(b) ==
    /\ cpc[Io(b)] = "pop" /\ ~Ready(b)
    /\ Goes(Io(b), IF running[b] THEN "look" ELSE "exit")
    /\ UNCHANGED <<ioOnly, ownWake>>

IoExit(b) ==
    /\ cpc[Io(b)] = "exit"
    /\ Goes(Io(b), IF depth[b] = 0 THEN "idle" ELSE "look")
    /\ UNCHANGED <<ioOnly, ownWake>>

IoLook(b) ==
    /\ cpc[Io(b)] = "look"
    /\ Goes(Io(b), IF depth[b] = 0 THEN "park" ELSE "pop")
    /\ UNCHANGED <<ioOnly, ownWake>>

IoUnpark(b) ==
    /\ cpc[Io(b)] = "park" /\ ownWake[b]
    /\ ownWake' = [ownWake EXCEPT ![b] = FALSE]
    /\ Goes(Io(b), "pop")
    /\ UNCHANGED ioOnly

----------------------------------------------------------------------------
(* stop(), with unregisterBackend's wait for two sweeps.                   *)

StopGoes(b, step) == spc' = [spc EXCEPT ![b] = step]
stopOnly == <<layout, ringVars, writerVars, hold, sweep, busy, flushVars,
              accepted, file>>
ghosts == <<before, calm>>

StopBegin(b) ==
    /\ spc[b] = "up"
    /\ running' = [running EXCEPT ![b] = FALSE]
    /\ before' = [before EXCEPT ![b] = {e \in accepted : LogOf(e[1]) = b}]
    /\ calm' = [calm EXCEPT ![b] = \A p \in WritersOf(b) : ppc[p] = "idle"]
    /\ StopGoes(b, IF home[b] = "service" THEN "clear" ELSE "poke")
    /\ UNCHANGED <<stopOnly, open, slot, home, wakeVars, cpc, target, got, begun, clean>>

ClearSlot(b) ==
    /\ spc[b] = "clear"
    /\ slot' = [i \in Slots |-> IF slot[i] = b THEN NoLog ELSE slot[i]]
    /\ StopGoes(b, "epoch")
    /\ UNCHANGED <<stopOnly, running, open, home, wakeVars, cpc, target, got, begun,
                   ghosts, clean>>

ReadEpoch(b) ==
    /\ spc[b] = "epoch"
    /\ begun' = [begun EXCEPT ![b] = 0]
    /\ StopGoes(b, "handoff")
    /\ UNCHANGED <<stopOnly, logVars, wakeVars, cpc, target, got, ghosts, clean>>

\* Slip: the sweep under way is not waited for.
NoWait(b) == TRUE
SweepsPassed(b) == begun[b] = 2
\* Slip: the wait relies on the sweeps that come anyway.
NoPoke == FALSE
Poke == TRUE

PokeService(b) ==
    /\ spc[b] = "handoff" /\ ~SweepsPassed(b) /\ ~wake
    /\ wake' = Poke
    /\ UNCHANGED <<stopOnly, logVars, ownWake, cpc, target, got, stopVars>>

HandedOff(b) ==
    /\ spc[b] = "handoff" /\ SweepsPassed(b)
    /\ home' = [home EXCEPT ![b] = "none"]
    /\ cpc' = [cpc EXCEPT ![Stopper(b)] = "pop"]
    /\ target' = [target EXCEPT ![Stopper(b)] = b]
    /\ StopGoes(b, "leftovers")
    /\ UNCHANGED <<stopOnly, running, open, slot, wakeVars, got, begun, ghosts, clean>>

\* drainBatch is called until a call returns 0.
DrainedAll(b) ==
    /\ cpc[Stopper(b)] = "pop" /\ ~Ready(b)
    /\ IF got[Stopper(b)] > 0
       THEN got' = [got EXCEPT ![Stopper(b)] = 0] /\ UNCHANGED <<cpc, spc, target>>
       ELSE /\ Goes(Stopper(b), "idle") /\ StopGoes(b, "close") /\ UNCHANGED got
            /\ target' = [target EXCEPT ![Stopper(b)] = NoLog]
    /\ UNCHANGED <<stopOnly, logVars, wakeVars, begun, ghosts, clean>>

PokeIo(b) ==
    /\ spc[b] = "poke"
    /\ ownWake' = [ownWake EXCEPT ![b] = TRUE]
    /\ StopGoes(b, "join")
    /\ UNCHANGED <<stopOnly, logVars, wake, cpc, target, got, begun, ghosts, clean>>

JoinIo(b) ==
    /\ spc[b] = "join" /\ cpc[Io(b)] = "idle"
    /\ home' = [home EXCEPT ![b] = "none"]
    /\ StopGoes(b, "close")
    /\ UNCHANGED <<stopOnly, running, open, slot, wakeVars, cpc, target, got, begun,
                   ghosts, clean>>

Close(b) ==
    /\ spc[b] = "close"
    /\ open' = [open EXCEPT ![b] = FALSE]
    /\ clean' = [clean EXCEPT ![b] = depth[b] = 0]
    /\ StopGoes(b, "stopped")
    /\ UNCHANGED <<stopOnly, running, slot, home, wakeVars, cpc, target, got, begun,
                   ghosts>>

----------------------------------------------------------------------------
(* flush(), called once by one thread.                                     *)

flushOnly == <<layout, ringVars, logVars, writerVars, drainVars, stopVars, accepted,
               file>>

FlushBegin(b) ==
    /\ fpc = "idle" /\ layout.flush /\ running[b]
    /\ flog' = b
    /\ unsynced' = {e \in accepted : LogOf(e[1]) = b}
    /\ fpc' = "notify"
    /\ UNCHANGED <<flushOnly, wakeVars>>

FlushNotify ==
    /\ fpc = "notify"
    /\ Signal(flog)
    /\ fpc' = "wait"
    /\ UNCHANGED <<flushOnly, flog, unsynced>>

\* Slip: one too many.
AlmostDrained(b) == depth[b] <= 1
Drained(b) == depth[b] = 0

\* The waiter is woken after the write that brought the depth to zero, and looks
\* again at its deadline.
Flushed ==
    /\ fpc = "wait" /\ Drained(flog)
    /\ fpc' = "flushed"
    /\ UNCHANGED <<flushOnly, wakeVars, flog, unsynced>>

FlushTimeout ==
    /\ fpc = "wait" /\ ~Drained(flog)
    /\ fpc' = "timeout"
    /\ UNCHANGED <<flushOnly, wakeVars, flog, unsynced>>

----------------------------------------------------------------------------

TryLog(p) == CheckRunning(p) \/ CheckDepth(p) \/ Claim(p) \/ Publish(p) \/ Count(p)
             \/ Notify(p)
Drain(c) == Pop(c) \/ Uncount(c) \/ Write(c)
DrainLoop == Drain(Service) \/ BeginSweep \/ LoadSlot \/ LeaveSlot \/ EndSweep \/ Unpark
IoLoop(b) == Drain(Io(b)) \/ IoEmpty(b) \/ IoExit(b) \/ IoLook(b) \/ IoUnpark(b)
FinishStop(b) ==
    \/ ClearSlot(b) \/ ReadEpoch(b) \/ PokeService(b) \/ HandedOff(b)
    \/ Drain(Stopper(b)) \/ DrainedAll(b) \/ PokeIo(b) \/ JoinIo(b) \/ Close(b)
Flush == (\E b \in Logs : FlushBegin(b)) \/ FlushNotify \/ Flushed \/ FlushTimeout

Next ==
    \/ \E p \in Writers : TryLog(p)
    \/ DrainLoop
    \/ \E b \in Logs : Start(b) \/ IoLoop(b) \/ StopBegin(b) \/ FinishStop(b)
    \/ Flush

Spec == Init /\ [][Next]_vars

\* The operating system schedules every thread; nobody need start, stop or
\* flush a log.
FairSpec ==
    /\ Spec
    /\ \A p \in Writers : WF_vars(TryLog(p))
    /\ WF_vars(DrainLoop)
    /\ \A b \in Logs : WF_vars(IoLoop(b)) /\ WF_vars(FinishStop(b))

----------------------------------------------------------------------------
(* Properties.                                                             *)

\* Every variable keeps its type; no ring holds more than its capacity.
EntryTypes ==
    /\ layout \in Layouts
    /\ ring \in [Logs -> Seq([entry : Entry, published : BOOLEAN])]
    /\ \A b \in Logs : Len(ring[b]) <= Cap
    /\ depth \in [Logs -> 0 .. Width - 1]
    /\ file \in [Logs -> Seq(Entry)]
    /\ accepted \subseteq Entry

WriterTypes ==
    /\ ppc \in [Writers -> {"idle", "depth", "claim", "publish", "count", "notify"}]
    /\ sent \in [Writers -> Nat] /\ dropped \in [Logs -> Nat]
    /\ \A p \in Writers : sent[p] <= layout.calls[p]

DrainTypes ==
    /\ cpc \in [Drainers -> {"idle", "top", "slot", "pop", "count", "write", "park",
                             "exit", "look"}]
    /\ target \in [Drainers -> Logs \cup {NoLog}]
    /\ hold \in [Drainers -> Entry \cup {NoEntry}]
    /\ got \in [Drainers -> 0 .. Batch]
    /\ sweep \in 1 .. layout.slots + 1 /\ busy \in BOOLEAN

LogTypes ==
    /\ running \in [Logs -> BOOLEAN] /\ open \in [Logs -> BOOLEAN]
    /\ slot \in [Slots -> Logs \cup {NoLog}]
    /\ home \in [Logs -> {"none", "service", "own"}]
    /\ wake \in BOOLEAN /\ ownWake \in [Logs -> BOOLEAN]

StopTypes ==
    /\ spc \in [Logs -> {"new", "up", "clear", "epoch", "handoff", "leftovers", "poke",
                         "join", "close", "stopped"}]
    /\ begun \in [Logs -> 0 .. 2]
    /\ before \in [Logs -> SUBSET accepted]
    /\ clean \in [Logs -> BOOLEAN] /\ calm \in [Logs -> BOOLEAN]

FlushTypes ==
    /\ fpc \in {"idle", "notify", "wait", "flushed", "timeout"}
    /\ flog \in Logs \cup {NoLog} /\ unsynced \subseteq accepted

TypeOK == EntryTypes /\ WriterTypes /\ DrainTypes /\ LogTypes /\ StopTypes /\ FlushTypes

\* Once stop() drains a log itself, and after it has closed the file, no other
\* thread is inside drainBatch of that log (LogDrainService.hpp: "Unregister
\* blocks until the drain thread cannot be touching the departing backend").
HandedOver ==
    \A b \in Logs : spc[b] \in {"leftovers", "close", "stopped"} =>
        \A c \in Drainers \ {Stopper(b)} : target[c] = b => cpc[c] = "idle"

\* What one thread had logged when stop() was called is in the file when
\* stop() returns, in the order it was logged; with two threads on a log of the
\* service it is when stop() also reports success.
StopKeeps ==
    \A b \in Logs : spc[b] = "stopped" =>
        /\ \/ Cardinality(WritersOf(b)) <= 1
           \/ clean[b] /\ Cardinality(WritersOf(b)) = 2 /\ cpc[Io(b)] = "idle"
                       /\ target[Io(b)] = NoLog
           => before[b] \subseteq InFile(b)
        /\ \A i, j \in DOMAIN file[b] :
              i < j /\ file[b][i][1] = file[b][j][1] => file[b][i][2] < file[b][j][2]

\* When flush() reports success, what one thread had logged before the call is
\* in the file, but for the one entry that a drain thread has taken out of the
\* ring and is about to write.
FlushedButOne ==
    fpc = "flushed" /\ Cardinality(WritersOf(flog)) = 1 =>
        unsynced \subseteq InFile(flog) \cup {hold[c] : c \in Drainers}

Asleep(b) ==
    \/ home[b] = "service" /\ cpc[Service] = "park" /\ ~wake
    \/ home[b] = "own" /\ cpc[Io(b)] = "park" /\ ~ownWake[b]
Left(b) == {i \in DOMAIN ring[b] : ring[b][i].entry \in accepted}
Quiet(b) == \A p \in WritersOf(b) : ppc[p] = "idle"

\* When nobody is logging, a running log that drains itself, or that one thread writes,
\* is not asleep over accepted entries: the wakeups skipped because the depth
\* was not zero were not needed.
SleepsEmpty ==
    \A b \in layout.logs :
        /\ running[b] /\ Quiet(b) /\ Asleep(b)
        /\ home[b] = "own" \/ Cardinality(WritersOf(b)) = 1
        => Left(b) = {}

\* stop() returns: the drain thread is woken until it has begun two sweeps, and
\* a log's own thread comes to its end, if nobody was in tryLog when stop() was
\* called.
StopReturns ==
    \A b \in Logs : (spc[b] = "clear" \/ (spc[b] = "join" /\ calm[b]))
        ~> (spc[b] = "stopped")

\* LogDrainService.cpp says of the drain thread that parks: "A producer's counter
\* write that raced ahead of this read leaves it non-zero, so the read returns
\* immediately -- no lost wakeup."
NoLostWakeup ==
    \A b \in layout.logs : running[b] /\ Quiet(b) /\ Asleep(b) => Left(b) = {}

\* AsyncLogBackend.cpp says of the thread that parks: "stop() writes the counter
\* too, so shutdown always unparks."
ShutdownUnparks == \A b \in layout.logs : spc[b] = "join" => ~Asleep(b)

=============================================================================
