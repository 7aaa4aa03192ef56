--------------------------- MODULE AsyncLogProofs ---------------------------
(***************************************************************************)
(* What the asynchronous log promises, for any number of logs, slots of    *)
(* the service, threads and calls, any capacity and any batch.             *)
(*                                                                         *)
(* One thread at most drains a log, and who that is follows from where its *)
(* stop() is.  Every entry that was claimed is in the ring, in the hand of *)
(* the thread that drains, or in the file, in the order its writer gave.   *)
(* The depth is the entries in the ring and the one just taken out, less   *)
(* those that are not counted yet, modulo Width: it says nothing of a ring *)
(* that two threads write, and with one thread it says enough.             *)
(***************************************************************************)
EXTENDS AsyncLog, TLAPS, FiniteSetTheorems, SequenceTheorems, WellFoundedInduction

----------------------------------------------------------------------------
(* Who drains a log.                                                       *)

Draining == {"pop", "count", "write"}

\* How far a log is in its life, and who is to drain it.
Life(b) ==
    /\ running[b] <=> spc[b] = "up"
    /\ open[b] <=> spc[b] \notin {"new", "stopped"}
    /\ spc[b] = "up" => home[b] \in {"service", "own"}
    /\ spc[b] \in {"clear", "epoch", "handoff"} => home[b] = "service"
    /\ spc[b] \in {"poke", "join"} => home[b] = "own"
    /\ spc[b] \in {"new", "leftovers", "close", "stopped"} => home[b] = "none"

\* It has one slot of the registry as long as the service is to drain it.
Registered(b) ==
    /\ \A i \in Slots : slot[i] = b => home[b] = "service" /\ spc[b] \in {"up", "clear"}
    /\ \A i, j \in Slots : slot[i] = b /\ slot[j] = b => i = j
    /\ spc[b] = "up" /\ home[b] = "service" => \E i \in Slots : slot[i] = b

\* The service is not at it any more when a sweep has begun after it was taken out.
Served(b) ==
    target[Service] = b =>
        /\ home[b] = "service"
        /\ spc[b] \in {"up", "clear", "epoch"} \/ (spc[b] = "handoff" /\ begun[b] = 0)

\* Its own thread, if it has one, runs until stop() joins it.
Owned(b) ==
    /\ cpc[Io(b)] \in {"idle", "exit", "look", "park"} \cup Draining
    /\ target[Io(b)] \in {b, NoLog}
    /\ cpc[Io(b)] # "idle" => home[b] = "own"
    /\ cpc[Io(b)] = "exit" => ~running[b]
    /\ home[b] = "own" => target[Io(b)] = b /\ (spc[b] = "up" => cpc[Io(b)] # "idle")
    /\ home[b] = "service" \/ spc[b] \in {"new", "leftovers"} => target[Io(b)] = NoLog

\* stop() drains what is left after the hand-over.
Stopping(b) ==
    /\ cpc[Stopper(b)] \in {"idle"} \cup Draining
    /\ cpc[Stopper(b)] # "idle" <=> spc[b] = "leftovers"
    /\ target[Stopper(b)] = IF cpc[Stopper(b)] = "idle" THEN NoLog ELSE b

Sweeping ==
    /\ cpc[Service] \in {"top", "slot", "park"} \cup Draining
    /\ target[Service] # NoLog <=> cpc[Service] \in Draining
    /\ cpc[Service] \in Draining => sweep \in Slots

HandInv ==
    /\ Sweeping
    /\ \A b \in Logs : Life(b) /\ Registered(b) /\ Served(b) /\ Owned(b) /\ Stopping(b)

----------------------------------------------------------------------------
(* Where an entry is, and in which order.                                  *)

Holds(c, b) == target[c] = b /\ cpc[c] \in {"count", "write"}
InRing(b) == {ring[b][i].entry : i \in DOMAIN ring[b]}
InHand(b) == {hold[c] : c \in {c \in Drainers : Holds(c, b)}}

Placed(b) == InRing(b) \cup InHand(b) \cup InFile(b)

\* It is one of its writer's, and not one that is still to be pushed.
Claimed(e, b) ==
    /\ e \in Entry /\ LogOf(e[1]) = b
    /\ e[2] \in 1 .. sent[e[1]]
    /\ e[2] = sent[e[1]] => ppc[e[1]] \notin {"depth", "claim"}
Unpublished(e) == e = Mine(e[1]) /\ ppc[e[1]] = "publish"

HoldInv == \A c \in Drainers : hold[c] # NoEntry <=> cpc[c] \in {"count", "write"}

\* Every entry of a log is claimed, those in the ring but for the ones at
\* "publish" are published, and only those are ever taken out.
PlacedOf(b) ==
    /\ \A e \in Placed(b) : Claimed(e, b)
    /\ \A i \in DOMAIN ring[b] : ring[b][i].published <=> ~Unpublished(ring[b][i].entry)
    /\ \A e \in InHand(b) \cup InFile(b) : ~Unpublished(e)
    /\ spc[b] = "new" => /\ ring[b] = <<>>
                         /\ \A p \in Writers : LogOf(p) = b => ppc[p] = "idle"
PlacedInv == \A b \in Logs : PlacedOf(b)

\* And none is lost: what is pushed is somewhere.
FoundOf(p, b) ==
    /\ \A e \in accepted : e[1] = p => e \in Placed(b) /\ (e = Mine(p) => ppc[p] = "idle")
    /\ ppc[p] # "idle" => sent[p] > 0
    /\ ppc[p] \in {"publish", "count", "notify"} => Mine(p) \in Placed(b)
FoundInv == \A p \in Writers, b \in Logs : LogOf(p) = b => FoundOf(p, b)

PlaceInv == HoldInv /\ PlacedInv /\ FoundInv

Later(e, f) == e[1] = f[1] => e[2] < f[2]

OrderOf(b) ==
    /\ \A i, j \in DOMAIN ring[b] : i < j => Later(ring[b][i].entry, ring[b][j].entry)
    /\ \A i, j \in DOMAIN file[b] : i < j => Later(file[b][i], file[b][j])
    /\ \A e \in InFile(b), f \in InHand(b) \cup InRing(b) : Later(e, f)
    /\ \A e \in InHand(b), f \in InRing(b) : Later(e, f)
OrderInv == \A b \in Logs : OrderOf(b)

----------------------------------------------------------------------------
(* The depth.                                                              *)

Uncounted(b) == {p \in Writers : LogOf(p) = b /\ ppc[p] \in {"publish", "count"}}
Taken(b) == IF \E c \in Drainers : target[c] = b /\ cpc[c] = "count" THEN 1 ELSE 0
Balance(b) == Len(ring[b]) + Taken(b) - Cardinality(Uncounted(b))

AsDepth(x) == IF x >= 0 THEN x ELSE x + Width
DepthInv == \A b \in Logs : depth[b] = AsDepth(Balance(b))

----------------------------------------------------------------------------
(* Sleep.                                                                  *)

Notifying(b) == \E p \in Writers : LogOf(p) = b /\ ppc[p] = "notify"

WillVisit(b) ==
    \/ cpc[Service] = "top"
    \/ cpc[Service] # "park" /\ busy
    \/ cpc[Service] \in {"count", "write"}
    \/ cpc[Service] = "pop" /\ got[Service] > 0
    \/ /\ cpc[Service] \in {"slot", "pop"}
       /\ \E i \in Slots : /\ slot[i] = b
                           /\ sweep < i \/ (sweep = i /\ (cpc[Service] = "slot" \/ target[Service] = b))

\* A log's own thread parks over nothing, and the service parks over nothing of
\* a log that one thread writes.
Parked(b) == cpc[Io(b)] = "park" /\ ~ownWake[b] => depth[b] = 0 \/ Notifying(b)
Swept(b) ==
    running[b] /\ home[b] = "service" /\ Cardinality(WritersOf(b)) = 1 /\ ~wake /\ ~WillVisit(b) =>
        \/ ring[b] = <<>>
        \/ Len(ring[b]) = 1 /\ Uncounted(b) # {}
        \/ Notifying(b)

SleepInv ==
    /\ cpc[Service] = "park" => ~busy
    /\ \A b \in Logs : Parked(b) /\ Swept(b)

----------------------------------------------------------------------------
(* What flush and stop leave.                                              *)

FlushOf(b) == fpc # "idle" /\ flog = b =>
    /\ \A e \in unsynced : LogOf(e[1]) = b
    /\ fpc = "flushed" /\ Cardinality(WritersOf(b)) = 1 => unsynced \subseteq InFile(b) \cup InHand(b)
FlushInv == (fpc # "idle" => flog \in Logs) /\ \A b \in Logs : FlushOf(b)

Ended(b) == spc[b] \in {"close", "stopped"} \/ (target[Io(b)] = b /\ cpc[Io(b)] = "idle")

KeepOf(b) ==
    /\ \A e \in before[b] : LogOf(e[1]) = b
    /\ Ended(b) /\ Cardinality(WritersOf(b)) <= 1 => before[b] \subseteq InFile(b)
    /\ spc[b] = "close" /\ Cardinality(WritersOf(b)) = 2 /\ target[Io(b)] = NoLog =>
         \/ before[b] \subseteq InFile(b)
         \/ \A p \in Uncounted(b) : Mine(p) \in InRing(b)
    /\ spc[b] = "stopped" /\ clean[b] /\ Cardinality(WritersOf(b)) = 2
         /\ target[Io(b)] = NoLog => before[b] \subseteq InFile(b)
KeepInv == \A b \in Logs : KeepOf(b)

IInv == TypeOK /\ HandInv /\ PlaceInv /\ OrderInv /\ DepthInv /\ SleepInv /\ FlushInv /\ KeepInv

----------------------------------------------------------------------------
(* Types.                                                                  *)

\* The threads that may drain are different ones.
LEMMA DrainersDiffer ==
    /\ Service \in Drainers
    /\ \A b \in Logs : /\ Io(b) \in Drainers /\ Stopper(b) \in Drainers
                       /\ Io(b) # Service /\ Stopper(b) # Service
    /\ \A a, b \in Logs : /\ Io(a) # Stopper(b)
                          /\ Io(a) = Io(b) => a = b
                          /\ Stopper(a) = Stopper(b) => a = b
    /\ \A c \in Drainers : c = Service \/ \E b \in Logs : c = Io(b) \/ c = Stopper(b)
  BY DEF Drainers, Service, Io, Stopper

LEMMA LayoutIs ==
    ASSUME TypeOK
    PROVE  /\ layout.slots \in Nat
           /\ \A p \in Writers : LogOf(p) \in Logs /\ layout.calls[p] \in Nat /\ Mine(p) \in Entry
  BY LogAssumption DEF TypeOK, EntryTypes, WriterTypes, LayoutShape, LogOf, Mine, Entry

LEMMA InitTypes == ASSUME Init PROVE TypeOK
<1> USE DEF Init
<1>1. LayoutShape(layout) BY LogAssumption
<1>2. Width \in Nat \ {0} BY LogAssumption, FS_CardinalityType
<1>3. EntryTypes BY <1>2, LogAssumption DEF EntryTypes
<1>4. WriterTypes BY <1>1 DEF WriterTypes, LayoutShape
<1>5. DrainTypes
  <2>1. sweep \in 1 .. layout.slots + 1 /\ got \in [Drainers -> 0 .. Batch]
    BY <1>1, LogAssumption DEF LayoutShape
  <2>2. cpc \in [Drainers -> {"idle", "top", "slot", "pop", "count", "write", "park", "exit", "look"}]
    OBVIOUS
  <2> QED BY <2>1, <2>2 DEF DrainTypes
<1>6. LogTypes BY DEF LogTypes
<1>7. StopTypes BY DEF StopTypes
<1>8. FlushTypes BY DEF FlushTypes
<1> QED BY <1>3, <1>4, <1>5, <1>6, <1>7, <1>8 DEF TypeOK

\* Modulo Width.
LEMMA Wraps ==
    ASSUME NEW x \in Int, 0 <= x, x < Width
    PROVE  x % Width = x /\ (x + Width) % Width = x
<1> QED BY LogAssumption

LEMMA Mod == \A x \in Int : x % Width \in 0 .. Width - 1
  BY LogAssumption, FS_CardinalityType


----------------------------------------------------------------------------
(* The steps, and what most of them leave alone.                           *)

SweepStep == BeginSweep \/ LoadSlot \/ LeaveSlot \/ EndSweep \/ Unpark
IoStep(b) == IoEmpty(b) \/ IoExit(b) \/ IoLook(b) \/ IoUnpark(b)
StopStep(b) ==
    \/ StopBegin(b) \/ ClearSlot(b) \/ ReadEpoch(b) \/ PokeService(b) \/ HandedOff(b)
    \/ DrainedAll(b) \/ PokeIo(b) \/ JoinIo(b) \/ Close(b)
FlushStep == (\E b \in Logs : FlushBegin(b)) \/ FlushNotify \/ Flushed \/ FlushTimeout

LEMMA Steps ==
    ASSUME [Next]_vars
    PROVE  \/ \E p \in Writers : TryLog(p)
           \/ \E c \in Drainers : Drain(c)
           \/ SweepStep \/ FlushStep
           \/ \E b \in Logs : Start(b) \/ IoStep(b) \/ StopStep(b)
           \/ UNCHANGED vars
  BY DrainersDiffer DEF Next, DrainLoop, IoLoop, FinishStop, Flush, SweepStep, IoStep, StopStep, FlushStep

Shared == <<layout, ring, depth, ppc, sent, dropped, hold, accepted, file>>

\* No step but a writer's and a drainer's own touches an entry.
LEMMA Elsewhere ==
    ASSUME \/ SweepStep \/ FlushStep \/ UNCHANGED vars
           \/ \E b \in Logs : Start(b) \/ IoStep(b) \/ StopStep(b)
    PROVE  UNCHANGED Shared
<1> USE DEF ringVars, logVars, wakeVars, writerVars, drainVars, stopVars, flushVars
<1>1. CASE SweepStep
  BY <1>1 DEF SweepStep, BeginSweep, LoadSlot, LeaveSlot, EndSweep, Unpark, serviceOnly, Shared
<1>2. CASE FlushStep
  BY <1>2 DEF FlushStep, FlushBegin, FlushNotify, Flushed, FlushTimeout, flushOnly, Shared
<1>3. CASE UNCHANGED vars BY <1>3 DEF vars, Shared
<1>4. ASSUME NEW b \in Logs, Start(b) \/ IoStep(b) PROVE UNCHANGED Shared
  BY <1>4 DEF Start, IoStep, IoEmpty, IoExit, IoLook, IoUnpark, ioOnly, Shared
<1>5. ASSUME NEW b \in Logs, StopStep(b) PROVE UNCHANGED Shared
  BY <1>5 DEF StopStep, StopBegin, ClearSlot, ReadEpoch, PokeService, HandedOff, DrainedAll, PokeIo,
     JoinIo, Close, stopOnly, Shared
<1> QED BY <1>1, <1>2, <1>3, <1>4, <1>5

LEMMA Constant ==
    ASSUME [Next]_vars
    PROVE  /\ layout' = layout /\ Slots' = Slots
           /\ \A p \in Writers : LogOf(p)' = LogOf(p)
           /\ \A b \in Logs : WritersOf(b)' = WritersOf(b)
<1> USE DEF ringVars, logVars, wakeVars, writerVars, drainVars, stopVars, flushVars
<1>1. layout' = layout
  <2>1. ASSUME NEW p \in Writers, TryLog(p) PROVE layout' = layout
    BY <2>1 DEF TryLog, CheckRunning, CheckDepth, Claim, Publish, Count, Notify
  <2>2. ASSUME NEW c \in Drainers, Drain(c) PROVE layout' = layout
    BY <2>2 DEF Drain, Pop, Uncount, Write
  <2> QED BY <2>1, <2>2, Steps, Elsewhere DEF Shared
<1> QED BY <1>1 DEF Slots, LogOf, WritersOf

LEMMA SeqFacts ==
    ASSUME NEW S, NEW s \in Seq(S)
    PROVE  /\ Len(s) \in Nat /\ DOMAIN s = 1 .. Len(s)
           /\ \A i \in 1 .. Len(s) : s[i] \in S
           /\ s # <<>> => /\ Head(s) \in S /\ Head(s) = s[1] /\ Len(s) >= 1
                          /\ Tail(s) \in Seq(S) /\ Len(Tail(s)) = Len(s) - 1
                          /\ \A i \in 1 .. Len(s) - 1 : Tail(s)[i] = s[i + 1]
           /\ \A x \in S : /\ Append(s, x) \in Seq(S) /\ Len(Append(s, x)) = Len(s) + 1
                            /\ \A i \in 1 .. Len(s) : Append(s, x)[i] = s[i]
                            /\ Append(s, x)[Len(s) + 1] = x
  OBVIOUS

LEMMA SeqMade ==
    ASSUME NEW S, NEW n \in Nat, NEW f \in [1 .. n -> S]
    PROVE  f \in Seq(S) /\ Len(f) = n
  OBVIOUS

Cells == [entry : Entry, published : BOOLEAN]

LEMMA AtLog ==
    ASSUME TypeOK, HandInv, NEW c \in Drainers, cpc[c] \in Draining
    PROVE  target[c] \in Logs
<1>1. CASE c = Service BY <1>1 DEF HandInv, Sweeping, TypeOK, DrainTypes
<1>2. ASSUME NEW b \in Logs, c = Io(b) PROVE target[c] \in Logs
  BY <1>2 DEF HandInv, Owned, Draining
<1>3. ASSUME NEW b \in Logs, c = Stopper(b) PROVE target[c] \in Logs
  BY <1>3 DEF HandInv, Stopping, Draining
<1> QED BY <1>1, <1>2, <1>3, DrainersDiffer

LEMMA EntryTypesStep == ASSUME TypeOK, HandInv, PlaceInv, [Next]_vars PROVE EntryTypes'
<1> USE DEF ringVars, logVars, wakeVars, writerVars, drainVars, stopVars, flushVars
<1>a. layout' = layout BY Constant
<1>b. /\ Cap \in Nat \ {0} /\ Width \in Nat
      /\ \A p \in Writers : LogOf(p) \in Logs /\ Mine(p) \in Entry
  BY LogAssumption, LayoutIs
<1>c. EntryTypes BY DEF TypeOK
<1>h. \A c \in Drainers : cpc[c] = "write" => hold[c] # NoEntry BY DEF PlaceInv, HoldInv
<1>1. ASSUME UNCHANGED <<ring, depth, accepted, file>> PROVE EntryTypes'
  BY <1>1, <1>a, <1>c DEF EntryTypes
<1>2. ASSUME NEW p \in Writers, CheckRunning(p) \/ CheckDepth(p) PROVE EntryTypes'
  BY <1>1, <1>2 DEF CheckRunning, CheckDepth
<1>3. ASSUME NEW p \in Writers, Claim(p) PROVE EntryTypes'
  <2>1. CASE UNCHANGED ring BY <1>1, <1>3, <2>1 DEF Claim
  <2>2. CASE ~UNCHANGED ring
    <3> DEFINE b == LogOf(p) x == [entry |-> Mine(p), published |-> FALSE]
    <3>1. ring' = [ring EXCEPT ![b] = Append(ring[b], x)] /\ Len(ring[b]) < Cap
      BY <1>3, <2>2 DEF Claim
    <3>2. b \in Logs /\ x \in [entry : Entry, published : BOOLEAN] BY <1>b
    <3>3. ring[b] \in Seq([entry : Entry, published : BOOLEAN]) BY <1>c, <3>2 DEF EntryTypes
    <3> HIDE DEF x, b
    <3>4. Append(ring[b], x) \in Seq([entry : Entry, published : BOOLEAN]) /\ Len(Append(ring[b], x)) <= Cap
      BY <1>b, <3>1, <3>2, <3>3
    <3> QED BY <1>3, <1>a, <1>c, <3>1, <3>2, <3>4 DEF EntryTypes, Claim
  <2> QED BY <2>1, <2>2
<1>5. ASSUME NEW p \in Writers, Publish(p) PROVE EntryTypes'
  <2> DEFINE b == LogOf(p)
             r == [i \in DOMAIN ring[b] |-> IF ring[b][i].entry = Mine(p)
                                        THEN [ring[b][i] EXCEPT !.published = TRUE] ELSE ring[b][i]]
  <2>1. b \in Logs /\ ring' = [ring EXCEPT ![b] = r] BY <1>5, <1>b DEF Publish
  <2>2. ring[b] \in Seq(Cells) BY <2>1, <1>c DEF EntryTypes, Cells
  <2>3. r \in Seq(Cells) /\ Len(r) = Len(ring[b])
    <3> HIDE DEF b
    <3>1. /\ Len(ring[b]) \in Nat /\ DOMAIN ring[b] = 1 .. Len(ring[b])
          /\ \A i \in 1 .. Len(ring[b]) : ring[b][i] \in Cells
      BY <2>2, SeqFacts
    <3>2. \A x \in Cells : [x EXCEPT !.published = TRUE] \in Cells BY DEF Cells
    <3>3. r \in [1 .. Len(ring[b]) -> Cells] BY <3>1, <3>2
    <3> HIDE DEF r
    <3> QED BY <3>1, <3>3, SeqMade
  <2> HIDE DEF r, b
  <2> QED BY <1>5, <1>a, <1>c, <2>1, <2>3 DEF Publish, EntryTypes, Cells
<1>6. ASSUME NEW p \in Writers, Count(p) PROVE EntryTypes'
  <2>1. LogOf(p) \in Logs /\ depth[LogOf(p)] \in Int BY <1>b, <1>c DEF EntryTypes
  <2>2. (depth[LogOf(p)] + 1) % Width \in 0 .. Width - 1 BY <2>1, Mod
  <2>3. depth' \in [Logs -> 0 .. Width - 1]
    BY <1>6, <1>c, <2>2 DEF Count, EntryTypes
  <2>4. accepted' \subseteq Entry BY <1>6, <1>b, <1>c DEF Count, EntryTypes
  <2> QED BY <1>6, <1>a, <1>c, <2>3, <2>4 DEF Count, EntryTypes
<1>7. ASSUME NEW p \in Writers, Notify(p) PROVE EntryTypes'
  BY <1>7, <1>a, <1>b, <1>c DEF Notify, EntryTypes
<1>8. ASSUME NEW c \in Drainers, Pop(c) PROVE EntryTypes'
  <2>1. /\ ring' = [ring EXCEPT ![target[c]] = Tail(@)] /\ ring[target[c]] # <<>>
        /\ target[c] \in Logs
    BY <1>8, AtLog DEF Pop, Ready, Draining
  <2>2. ring[target[c]] \in Seq([entry : Entry, published : BOOLEAN])
    BY <2>1, <1>c DEF EntryTypes
  <2>3. /\ Tail(ring[target[c]]) \in Seq([entry : Entry, published : BOOLEAN])
        /\ Len(Tail(ring[target[c]])) = Len(ring[target[c]]) - 1
    BY <2>1, <2>2
  <2>4. Len(Tail(ring[target[c]])) <= Cap
    BY <1>b, <1>c, <2>1, <2>2, <2>3 DEF EntryTypes
  <2> QED BY <1>8, <1>a, <1>c, <2>1, <2>3, <2>4 DEF Pop, EntryTypes
<1>9. ASSUME NEW c \in Drainers, Uncount(c) PROVE EntryTypes'
  <2>1. target[c] \in Logs BY <1>9, AtLog DEF Uncount, Draining
  <2>2. depth[target[c]] \in Int /\ depth[target[c]] + Width - 1 \in Int
    BY <2>1, <1>b, <1>c DEF EntryTypes
  <2>3. Lowered(depth[target[c]]) \in 0 .. Width - 1 BY <2>2, Mod DEF Lowered
  <2> QED BY <1>9, <1>a, <1>c, <2>1, <2>3 DEF Uncount, EntryTypes
<1>10. ASSUME NEW c \in Drainers, Write(c) PROVE EntryTypes'
  <2>1. target[c] \in Logs /\ cpc[c] = "write" BY <1>10, AtLog DEF Write, Draining
  <2>2. CASE UNCHANGED file BY <1>1, <1>10, <2>2 DEF Write
  <2>3. CASE ~UNCHANGED file
    <3>1. file' = [file EXCEPT ![target[c]] = Append(@, hold[c])] BY <1>10, <2>3 DEF Write
    <3>2. hold[c] \in Entry BY <2>1, <1>h DEF TypeOK, DrainTypes
    <3>3. file[target[c]] \in Seq(Entry) BY <2>1, <1>c DEF EntryTypes
    <3>4. Append(file[target[c]], hold[c]) \in Seq(Entry) BY <3>2, <3>3
    <3> QED BY <1>10, <1>a, <1>c, <2>1, <3>1, <3>4 DEF Write, EntryTypes
  <2> QED BY <2>2, <2>3
<1> QED
  BY <1>1, <1>2, <1>3, <1>5, <1>6, <1>7, <1>8, <1>9, <1>10, Steps, Elsewhere DEF TryLog, Drain, Shared

LEMMA WriterTypesStep == ASSUME TypeOK, [Next]_vars PROVE WriterTypes'
<1> USE DEF ringVars, logVars, wakeVars, writerVars, drainVars, stopVars, flushVars
<1>a. layout' = layout BY Constant
<1>b. \A p \in Writers : LogOf(p) \in Logs BY LayoutIs
<1>c. WriterTypes BY DEF TypeOK
<1>1. ASSUME UNCHANGED <<ppc, sent, dropped>> PROVE WriterTypes'
  BY <1>1, <1>a, <1>c DEF WriterTypes
<1>2. ASSUME NEW p \in Writers, CheckRunning(p) PROVE WriterTypes'
  <2>1. \A q \in Writers : layout.calls[q] \in Nat BY LayoutIs
  <2>2. /\ sent' = [sent EXCEPT ![p] = @ + 1] /\ sent[p] < layout.calls[p] /\ sent[p] \in Nat
    BY <1>2, <1>c DEF CheckRunning, WriterTypes
  <2>3. /\ sent' \in [Writers -> Nat] /\ \A q \in Writers : sent'[q] <= layout.calls[q]
    BY <1>c, <2>1, <2>2 DEF WriterTypes
  <2> QED BY <1>2, <1>a, <1>b, <1>c, <2>3 DEF CheckRunning, To, Drop, WriterTypes
<1>3. ASSUME NEW p \in Writers, CheckDepth(p) PROVE WriterTypes'
  BY <1>3, <1>a, <1>b, <1>c DEF CheckDepth, To, Drop, WriterTypes
<1>4. ASSUME NEW p \in Writers, Claim(p) PROVE WriterTypes'
  <2>1. LogOf(p) \in Logs BY <1>b
  <2>2. dropped' \in [Logs -> Nat] BY <1>4, <1>c, <2>1 DEF Claim, Drop, WriterTypes
  <2>3. ppc' \in [Writers -> {"idle", "depth", "claim", "publish", "count", "notify"}]
    BY <1>4, <1>c DEF Claim, To, WriterTypes
  <2> QED BY <1>4, <1>a, <1>c, <2>2, <2>3 DEF Claim, WriterTypes
<1>5. ASSUME NEW p \in Writers, Publish(p) \/ Count(p) \/ Notify(p) PROVE WriterTypes'
  BY <1>5, <1>a, <1>c DEF Publish, Count, Notify, To, WriterTypes
<1>6. ASSUME NEW c \in Drainers, Drain(c) PROVE WriterTypes'
  BY <1>1, <1>6 DEF Drain, Pop, Uncount, Write
<1> QED
  BY <1>1, <1>2, <1>3, <1>4, <1>5, <1>6, Steps, Elsewhere DEF TryLog, Shared

LEMMA DrainTypesStep == ASSUME TypeOK, HandInv, [Next]_vars PROVE DrainTypes'
<1> USE DEF ringVars, logVars, wakeVars, writerVars, drainVars, stopVars, flushVars
<1>a. layout' = layout BY Constant
<1>b. layout.slots \in Nat /\ Batch \in Nat \ {0} BY LogAssumption, LayoutIs
<1>c. DrainTypes BY DEF TypeOK
<1>1. ASSUME UNCHANGED <<cpc, target, hold, got, sweep, busy>> PROVE DrainTypes'
  BY <1>1, <1>a, <1>c DEF DrainTypes
<1>2. ASSUME NEW p \in Writers, TryLog(p) PROVE DrainTypes'
  BY <1>1, <1>2 DEF TryLog, CheckRunning, CheckDepth, Claim, Publish, Count, Notify
<1>3. ASSUME FlushStep PROVE DrainTypes'
  BY <1>1, <1>3 DEF FlushStep, FlushBegin, FlushNotify, Flushed, FlushTimeout, flushOnly
<1>4. ASSUME NEW b \in Logs, Start(b) PROVE DrainTypes'
  BY <1>4, <1>a, <1>c DEF Start, DrainTypes
<1>5. ASSUME NEW c \in Drainers, Pop(c) PROVE DrainTypes'
  <2>1. target[c] \in Logs /\ ring[target[c]] # <<>> BY <1>5, AtLog DEF Pop, Ready, Draining
  <2>2. ring[target[c]] \in Seq(Cells) BY <2>1 DEF TypeOK, EntryTypes, Cells
  <2>3. Head(ring[target[c]]).entry \in Entry
    <3>1. Head(ring[target[c]]) \in Cells BY <2>1, <2>2, SeqFacts
    <3> QED BY <3>1 DEF Cells
  <2> QED BY <1>5, <1>a, <1>c, <2>3 DEF Pop, Goes, DrainTypes
<1>6. ASSUME NEW c \in Drainers, Uncount(c) PROVE DrainTypes'
  BY <1>6, <1>a, <1>c DEF Uncount, Goes, DrainTypes
<1>7. ASSUME NEW c \in Drainers, Write(c) PROVE DrainTypes'
  <2>1. got' \in [Drainers -> 0 .. Batch] BY <1>7, <1>b, <1>c DEF Write, DrainTypes
  <2> QED BY <1>7, <1>a, <1>c, <2>1 DEF Write, Goes, DrainTypes
<1>8. ASSUME SweepStep PROVE DrainTypes'
  <2>1. CASE BeginSweep
    <3>1. sweep' \in 1 .. layout.slots + 1 BY <2>1, <1>b DEF BeginSweep
    <3> QED BY <2>1, <1>a, <1>c, <3>1 DEF BeginSweep, serviceOnly, Goes, DrainTypes
  <2>2. CASE LoadSlot
    <3>0. sweep \in Slots BY <2>2, <1>b, <1>c DEF LoadSlot, Slots, DrainTypes
    <3>1. sweep \in Slots /\ slot[sweep] \in Logs \cup {NoLog}
      BY <3>0 DEF TypeOK, LogTypes
    <3>2. sweep' \in 1 .. layout.slots + 1
      BY <2>2, <3>1, <1>b, <1>c DEF LoadSlot, Slots, DrainTypes
    <3>3. got' \in [Drainers -> 0 .. Batch] /\ target' \in [Drainers -> Logs \cup {NoLog}]
      BY <2>2, <3>1, <1>b, <1>c DEF LoadSlot, DrainTypes
    <3> QED BY <2>2, <1>a, <1>c, <3>2, <3>3 DEF LoadSlot, serviceOnly, Goes, DrainTypes
  <2>3. CASE LeaveSlot
    <3>1. sweep \in Slots BY <2>3 DEF LeaveSlot, HandInv, Sweeping, Draining
    <3>2. sweep' \in 1 .. layout.slots + 1 BY <2>3, <3>1, <1>b DEF LeaveSlot, Slots
    <3>3. busy' \in BOOLEAN BY <2>3, <1>c DEF LeaveSlot, DrainTypes
    <3> QED BY <2>3, <1>a, <1>c, <3>2, <3>3 DEF LeaveSlot, serviceOnly, Goes, DrainTypes
  <2>4. CASE EndSweep \/ Unpark
    BY <2>4, <1>a, <1>c DEF EndSweep, Unpark, serviceOnly, Goes, DrainTypes
  <2> QED BY <1>8, <2>1, <2>2, <2>3, <2>4 DEF SweepStep
<1>9. ASSUME NEW b \in Logs, IoStep(b) PROVE DrainTypes'
  BY <1>9, <1>a, <1>c DEF IoStep, IoEmpty, IoExit, IoLook, IoUnpark, ioOnly, Goes, DrainTypes
<1>10. ASSUME NEW b \in Logs, StopStep(b) PROVE DrainTypes'
  <2>1. CASE HandedOff(b) BY <2>1, <1>a, <1>c DEF HandedOff, stopOnly, DrainTypes
  <2>2. CASE DrainedAll(b) BY <2>2, <1>a, <1>b, <1>c DEF DrainedAll, Goes, stopOnly, DrainTypes
  <2>3. CASE UNCHANGED <<cpc, target, hold, got, sweep, busy>> BY <1>1, <2>3
  <2> QED
    BY <1>10, <2>1, <2>2, <2>3 DEF StopStep, StopBegin, ClearSlot, ReadEpoch, PokeService, PokeIo, JoinIo,
       Close, stopOnly
<1> QED
  BY <1>1, <1>2, <1>3, <1>4, <1>5, <1>6, <1>7, <1>8, <1>9, <1>10, Steps DEF Drain, vars

LEMMA LogTypesStep == ASSUME TypeOK, [Next]_vars PROVE LogTypes'
<1> USE DEF ringVars, logVars, wakeVars, writerVars, drainVars, stopVars, flushVars
<1>a. Slots' = Slots BY Constant
<1>c. LogTypes BY DEF TypeOK
<1>1. ASSUME UNCHANGED <<running, open, slot, home>>, wake' \in BOOLEAN, ownWake' \in [Logs -> BOOLEAN]
      PROVE LogTypes'
  BY <1>1, <1>a, <1>c DEF LogTypes
<1>0. wake \in BOOLEAN /\ ownWake \in [Logs -> BOOLEAN] BY <1>c DEF LogTypes
<1>2. ASSUME NEW p \in Writers, TryLog(p) PROVE LogTypes'
  <2>1. CASE Notify(p) BY <1>0, <1>1, <2>1 DEF Notify, Signal
  <2> QED BY <1>0, <1>1, <1>2, <2>1 DEF TryLog, CheckRunning, CheckDepth, Claim, Publish, Count
<1>3. ASSUME FlushStep PROVE LogTypes'
  <2>1. CASE FlushNotify BY <1>0, <1>1, <2>1 DEF FlushNotify, Signal, flushOnly
  <2> QED BY <1>0, <1>1, <1>3, <2>1 DEF FlushStep, FlushBegin, Flushed, FlushTimeout, flushOnly
<1>4. ASSUME NEW b \in Logs, Start(b) PROVE LogTypes'
  <2>1. slot' \in [Slots -> Logs \cup {NoLog}] BY <1>4, <1>c DEF Start, LogTypes
  <2>2. home' \in [Logs -> {"none", "service", "own"}] BY <1>4, <1>c DEF Start, LogTypes
  <2> QED BY <1>4, <1>a, <1>c, <2>1, <2>2 DEF Start, LogTypes
<1>5. ASSUME NEW c \in Drainers, Drain(c) PROVE LogTypes'
  BY <1>0, <1>1, <1>5 DEF Drain, Pop, Uncount, Write
<1>6. ASSUME SweepStep PROVE LogTypes'
  BY <1>0, <1>1, <1>6 DEF SweepStep, BeginSweep, LoadSlot, LeaveSlot, EndSweep, Unpark, serviceOnly
<1>7. ASSUME NEW b \in Logs, IoStep(b) PROVE LogTypes'
  BY <1>0, <1>1, <1>7 DEF IoStep, IoEmpty, IoExit, IoLook, IoUnpark, ioOnly
<1>8. ASSUME NEW b \in Logs, StopStep(b) PROVE LogTypes'
  <2>1. CASE StopBegin(b) BY <2>1, <1>a, <1>c DEF StopBegin, stopOnly, LogTypes
  <2>2. CASE ClearSlot(b)
    <3>1. slot' \in [Slots -> Logs \cup {NoLog}] BY <2>2, <1>c DEF ClearSlot, LogTypes
    <3> QED BY <2>2, <3>1, <1>a, <1>c DEF ClearSlot, stopOnly, LogTypes
  <2>3. CASE HandedOff(b) \/ JoinIo(b)
    BY <2>3, <1>a, <1>c DEF HandedOff, JoinIo, stopOnly, LogTypes
  <2>4. CASE Close(b) BY <2>4, <1>a, <1>c DEF Close, stopOnly, LogTypes
  <2>5. CASE ReadEpoch(b) \/ PokeService(b) \/ DrainedAll(b) \/ PokeIo(b)
    BY <2>5, <1>0, <1>1 DEF ReadEpoch, PokeService, DrainedAll, PokeIo, Poke, stopOnly
  <2> QED BY <1>8, <2>1, <2>2, <2>3, <2>4, <2>5 DEF StopStep
<1> QED
  BY <1>0, <1>1, <1>2, <1>3, <1>4, <1>5, <1>6, <1>7, <1>8, Steps DEF vars

LEMMA StopTypesStep == ASSUME TypeOK, [Next]_vars PROVE StopTypes'
<1> USE DEF ringVars, logVars, wakeVars, writerVars, drainVars, stopVars, flushVars
<1>c. StopTypes BY DEF TypeOK
<1>1. ASSUME accepted \subseteq accepted', UNCHANGED <<spc, begun, before, clean, calm>>
      PROVE StopTypes'
  BY <1>1, <1>c DEF StopTypes
<1>2. ASSUME NEW p \in Writers, TryLog(p) PROVE StopTypes'
  BY <1>1, <1>2 DEF TryLog, CheckRunning, CheckDepth, Claim, Publish, Count, Notify
<1>3. ASSUME FlushStep PROVE StopTypes'
  BY <1>1, <1>3 DEF FlushStep, FlushBegin, FlushNotify, Flushed, FlushTimeout, flushOnly
<1>4. ASSUME NEW b \in Logs, Start(b) PROVE StopTypes'
  BY <1>4, <1>c DEF Start, StopTypes
<1>5. ASSUME NEW c \in Drainers, Drain(c) PROVE StopTypes'
  BY <1>1, <1>5 DEF Drain, Pop, Uncount, Write
<1>6. ASSUME SweepStep PROVE StopTypes'
  <2>1. CASE BeginSweep
    <3>1. begun' \in [Logs -> 0 .. 2] BY <2>1, <1>c DEF BeginSweep, StopTypes
    <3> QED BY <2>1, <3>1, <1>c DEF BeginSweep, serviceOnly, StopTypes
  <2> QED BY <1>1, <1>6, <2>1 DEF SweepStep, LoadSlot, LeaveSlot, EndSweep, Unpark, serviceOnly
<1>7. ASSUME NEW b \in Logs, IoStep(b) PROVE StopTypes'
  BY <1>1, <1>7 DEF IoStep, IoEmpty, IoExit, IoLook, IoUnpark, ioOnly
<1>8. ASSUME NEW b \in Logs, StopStep(b) PROVE StopTypes'
  <2>a. spc' \in [Logs -> {"new", "up", "clear", "epoch", "handoff", "leftovers", "poke",
                           "join", "close", "stopped"}]
    BY <1>8, <1>c DEF StopStep, StopBegin, ClearSlot, ReadEpoch, PokeService, HandedOff, DrainedAll, PokeIo,
       JoinIo, Close, StopGoes, StopTypes
  <2>b. begun' \in [Logs -> 0 .. 2]
    BY <1>8, <1>c DEF StopStep, StopBegin, ClearSlot, ReadEpoch, PokeService, HandedOff, DrainedAll, PokeIo,
       JoinIo, Close, StopTypes
  <2>c. accepted' = accepted BY <1>8, Elsewhere DEF Shared
  <2>1. CASE StopBegin(b)
    <3>1. before' \in [Logs -> SUBSET accepted] BY <2>1, <1>c DEF StopBegin, StopTypes
    <3>2. calm' \in [Logs -> BOOLEAN] BY <2>1, <1>c DEF StopBegin, StopTypes
    <3> QED BY <2>1, <2>a, <2>b, <2>c, <3>1, <3>2, <1>c DEF StopBegin, StopTypes
  <2>2. CASE Close(b)
    <3>1. clean' \in [Logs -> BOOLEAN] BY <2>2, <1>c DEF Close, StopTypes
    <3> QED BY <2>2, <2>a, <2>b, <2>c, <3>1, <1>c DEF Close, ghosts, StopTypes
  <2>3. CASE UNCHANGED <<before, clean, calm>> BY <2>3, <2>a, <2>b, <2>c, <1>c DEF StopTypes
  <2> QED
    BY <1>8, <2>1, <2>2, <2>3 DEF StopStep, ClearSlot, ReadEpoch, PokeService, HandedOff, DrainedAll,
       PokeIo, JoinIo, ghosts
<1> QED
  BY <1>1, <1>2, <1>3, <1>4, <1>5, <1>6, <1>7, <1>8, Steps DEF vars

LEMMA FlushTypesStep == ASSUME TypeOK, [Next]_vars PROVE FlushTypes'
<1> USE DEF ringVars, logVars, wakeVars, writerVars, drainVars, stopVars, flushVars
<1>c. FlushTypes BY DEF TypeOK
<1>1. ASSUME accepted \subseteq accepted', UNCHANGED <<fpc, flog, unsynced>> PROVE FlushTypes'
  BY <1>1, <1>c DEF FlushTypes
<1>2. ASSUME NEW p \in Writers, TryLog(p) PROVE FlushTypes'
  BY <1>1, <1>2 DEF TryLog, CheckRunning, CheckDepth, Claim, Publish, Count, Notify
<1>3. ASSUME FlushStep PROVE FlushTypes'
  BY <1>3, <1>c DEF FlushStep, FlushBegin, FlushNotify, Flushed, FlushTimeout, flushOnly, FlushTypes
<1>4. ASSUME NEW b \in Logs, Start(b) \/ IoStep(b) PROVE FlushTypes'
  BY <1>1, <1>4 DEF Start, IoStep, IoEmpty, IoExit, IoLook, IoUnpark, ioOnly
<1>5. ASSUME NEW c \in Drainers, Drain(c) PROVE FlushTypes'
  BY <1>1, <1>5 DEF Drain, Pop, Uncount, Write
<1>6. ASSUME SweepStep PROVE FlushTypes'
  BY <1>1, <1>6 DEF SweepStep, BeginSweep, LoadSlot, LeaveSlot, EndSweep, Unpark, serviceOnly
<1>8. ASSUME NEW b \in Logs, StopStep(b) PROVE FlushTypes'
  BY <1>1, <1>8 DEF StopStep, StopBegin, ClearSlot, ReadEpoch, PokeService, HandedOff, DrainedAll, PokeIo,
     JoinIo, Close, stopOnly
<1> QED
  BY <1>1, <1>2, <1>3, <1>4, <1>5, <1>6, <1>8, Steps DEF vars

LEMMA TypeStep == ASSUME TypeOK, HandInv, PlaceInv, [Next]_vars PROVE TypeOK'
  BY EntryTypesStep, WriterTypesStep, DrainTypesStep, LogTypesStep, StopTypesStep, FlushTypesStep DEF TypeOK

----------------------------------------------------------------------------
(* The hand-over.                                                          *)

HandOf(b) == Life(b) /\ Registered(b) /\ Served(b) /\ Owned(b) /\ Stopping(b)

LEMMA InitHand == ASSUME Init PROVE HandInv
<1> USE DEF Init
<1>0. NoLog \notin Logs /\ layout.slots \in Nat BY LogAssumption DEF LayoutShape
<1>1. cpc[Service] = "top" /\ target[Service] = NoLog BY DrainersDiffer
<1>2. Sweeping BY <1>1 DEF Sweeping, Draining
<1>3. ASSUME NEW b \in Logs PROVE HandOf(b)
  <2>1. /\ cpc[Io(b)] = "idle" /\ cpc[Stopper(b)] = "idle"
        /\ target[Io(b)] = NoLog /\ target[Stopper(b)] = NoLog
    BY DrainersDiffer
  <2>2. /\ spc[b] = "new" /\ home[b] = "none" /\ running[b] = FALSE /\ open[b] = FALSE
        /\ \A i \in Slots : slot[i] # b
    BY <1>0
  <2> HIDE DEF Init
  <2> QED BY <1>0, <1>1, <2>1, <2>2 DEF HandOf, Life, Registered, Served, Owned, Stopping, Draining
<1> QED BY <1>2, <1>3 DEF HandInv, HandOf

\* A log of which nothing that matters changes.
LEMMA Bystander ==
    ASSUME NEW b \in Logs, HandOf(b), Slots' = Slots,
           running'[b] = running[b], open'[b] = open[b], home'[b] = home[b], spc'[b] = spc[b],
           begun'[b] = begun[b], \A i \in Slots : slot'[i] = b <=> slot[i] = b,
           target'[Service] = b => target[Service] = b,
           cpc'[Io(b)] = cpc[Io(b)], target'[Io(b)] = target[Io(b)],
           cpc'[Stopper(b)] = cpc[Stopper(b)], target'[Stopper(b)] = target[Stopper(b)]
    PROVE  HandOf(b)'
<1>0. Io(b)' = Io(b) /\ Stopper(b)' = Stopper(b) /\ Service' = Service BY DEF Io, Stopper, Service
<1>1. Life(b)' BY DEF HandOf, Life
<1>2. Registered(b)' BY DEF HandOf, Registered
<1>3. Served(b)' BY <1>0 DEF HandOf, Served
<1>4. Owned(b)' BY <1>0 DEF HandOf, Owned
<1>5. Stopping(b)' BY <1>0 DEF HandOf, Stopping
<1> QED BY <1>1, <1>2, <1>3, <1>4, <1>5 DEF HandOf

\* Nobody but the drainer that takes the step moves.
Alone(c) == \A d \in Drainers : d # c => cpc'[d] = cpc[d] /\ target'[d] = target[d]

LEMMA HandDrain ==
    ASSUME TypeOK, HandInv, [Next]_vars, NEW c \in Drainers, Drain(c)
    PROVE  HandInv'
<1> USE DEF ringVars, logVars, wakeVars, writerVars, drainVars, stopVars, flushVars
<1>1. /\ UNCHANGED <<running, open, home, spc, slot, begun, target, sweep>>
      /\ cpc[c] \in Draining /\ cpc'[c] \in Draining /\ \A d \in Drainers : d # c => cpc'[d] = cpc[d]
  BY DEF Drain, Pop, Uncount, Write, Goes, TypeOK, DrainTypes, Draining
<1>2. Slots' = Slots BY Constant
<1>3. Sweeping'
  BY <1>1, <1>2, DrainersDiffer DEF HandInv, Sweeping
<1>4. ASSUME NEW b \in Logs PROVE HandOf(b)'
  <2>1. Io(b) \in Drainers /\ Stopper(b) \in Drainers BY DrainersDiffer
  <2>2. HandOf(b) BY DEF HandInv, HandOf
  <2>3. CASE c # Io(b) /\ c # Stopper(b)
    BY <1>1, <1>2, <2>1, <2>2, <2>3, Bystander
  <2>4. CASE c = Io(b) \/ c = Stopper(b)
    <3>1. Life(b)' /\ Registered(b)' BY <1>1, <1>2, <2>2 DEF HandOf, Life, Registered
    <3>2. Served(b)' BY <1>1, <2>2 DEF HandOf, Served, Service
    <3>3. Owned(b)' BY <1>1, <2>1, <2>2 DEF HandOf, Owned, Io, Draining
    <3>4. Stopping(b)' BY <1>1, <2>1, <2>2 DEF HandOf, Stopping, Stopper, Draining
    <3> QED BY <3>1, <3>2, <3>3, <3>4 DEF HandOf
  <2> QED BY <2>3, <2>4
<1> QED BY <1>3, <1>4 DEF HandInv, HandOf

LEMMA HandSweep == ASSUME TypeOK, HandInv, [Next]_vars, SweepStep PROVE HandInv'
<1> USE DEF ringVars, logVars, wakeVars, writerVars, drainVars, stopVars, flushVars
<1>1. UNCHANGED <<running, open, home, spc, slot>> /\ Slots' = Slots
  BY Constant DEF SweepStep, BeginSweep, LoadSlot, LeaveSlot, EndSweep, Unpark, serviceOnly
<1>2. Alone(Service)
  BY DEF Alone, SweepStep, BeginSweep, LoadSlot, LeaveSlot, EndSweep, Unpark, Goes, TypeOK, DrainTypes
<1>3. NoLog \notin Logs /\ layout.slots \in Nat BY LogAssumption, LayoutIs
<1>4. /\ Sweeping
      /\ cpc \in [Drainers -> {"idle", "top", "slot", "pop", "count", "write", "park", "exit", "look"}]
      /\ target \in [Drainers -> Logs \cup {NoLog}] /\ slot \in [Slots -> Logs \cup {NoLog}]
      /\ sweep \in 1 .. layout.slots + 1 /\ begun \in [Logs -> 0 .. 2]
  BY DEF HandInv, TypeOK, DrainTypes, LogTypes, StopTypes
<1>5. Sweeping'
  <2>1. CASE BeginSweep \/ EndSweep \/ Unpark
    BY <1>1, <1>4, <2>1, DrainersDiffer DEF BeginSweep, EndSweep, Unpark, Goes, Sweeping, Draining
  <2>2. CASE LoadSlot
    <3>1. sweep \in Slots BY <1>3, <1>4, <2>2 DEF LoadSlot, Slots
    <3> QED
      BY <1>1, <1>3, <1>4, <2>2, <3>1, DrainersDiffer DEF LoadSlot, Goes, Sweeping, Draining
  <2>3. CASE LeaveSlot
    BY <1>1, <1>4, <2>3, DrainersDiffer DEF LeaveSlot, Goes, Sweeping, Draining
  <2> QED BY <2>1, <2>2, <2>3 DEF SweepStep
<1>6. ASSUME NEW b \in Logs PROVE HandOf(b)'
  <2>1. HandOf(b) BY DEF HandInv, HandOf
  <2>2. /\ cpc'[Io(b)] = cpc[Io(b)] /\ target'[Io(b)] = target[Io(b)]
        /\ cpc'[Stopper(b)] = cpc[Stopper(b)] /\ target'[Stopper(b)] = target[Stopper(b)]
    BY <1>2, DrainersDiffer DEF Alone
  <2>3. Life(b)' /\ Registered(b)' BY <1>1, <2>1 DEF HandOf, Life, Registered
  <2>4. Owned(b)' BY <1>1, <2>1, <2>2 DEF HandOf, Owned, Io
  <2>5. Stopping(b)' BY <1>1, <2>1, <2>2 DEF HandOf, Stopping, Stopper
  <2>6. Served(b)'
    <3>1. CASE BeginSweep
      <4>1. target'[Service] = NoLog
        BY <3>1, <1>4 DEF BeginSweep, Sweeping, Draining
      <4> QED BY <4>1, <1>3 DEF Served, Service
    <3>2. CASE ~BeginSweep
      <4>1. begun' = begun
        BY <3>2 DEF SweepStep, LoadSlot, LeaveSlot, EndSweep, Unpark
      <4>2. CASE target'[Service] = target[Service]
        BY <1>1, <2>1, <4>1, <4>2 DEF HandOf, Served, Service
      <4>3. CASE LoadSlot /\ target'[Service] = b /\ target[Service] # b
        <5>1. sweep \in Slots BY <1>3, <1>4, <4>3 DEF LoadSlot, Slots
        <5>2. slot[sweep] = b BY <1>4, <4>3, DrainersDiffer DEF LoadSlot
        <5> QED BY <1>1, <2>1, <5>1, <5>2 DEF HandOf, Registered, Served
      <4>4. CASE target'[Service] # b BY <4>4 DEF Served, Service
      <4> QED
        BY <3>2, <4>2, <4>3, <4>4, <1>3, <1>4, DrainersDiffer DEF SweepStep, LeaveSlot, EndSweep, Unpark
    <3> QED BY <3>1, <3>2
  <2> QED BY <2>3, <2>4, <2>5, <2>6 DEF HandOf
<1> QED BY <1>5, <1>6 DEF HandInv, HandOf

LEMMA HandIo == ASSUME TypeOK, HandInv, [Next]_vars, NEW b \in Logs, IoStep(b) PROVE HandInv'
<1> USE DEF ringVars, logVars, wakeVars, writerVars, drainVars, stopVars, flushVars
<1>1. UNCHANGED <<running, open, home, spc, slot, begun, target, sweep>> /\ Slots' = Slots
  BY Constant DEF IoStep, IoEmpty, IoExit, IoLook, IoUnpark, ioOnly
<1>2. \A d \in Drainers : d # Io(b) => cpc'[d] = cpc[d]
  BY DEF IoStep, IoEmpty, IoExit, IoLook, IoUnpark, Goes, TypeOK, DrainTypes
<1>3. Sweeping' BY <1>1, <1>2, DrainersDiffer DEF HandInv, Sweeping
<1>4. ASSUME NEW a \in Logs, a # b PROVE HandOf(a)'
  BY <1>1, <1>2, <1>4, DrainersDiffer, Bystander DEF HandInv, HandOf
<1>5. HandOf(b)'
  <2>1. HandOf(b) BY DEF HandInv, HandOf
  <2>2. Life(b)' /\ Registered(b)' BY <1>1, <2>1 DEF HandOf, Life, Registered
  <2>3. Served(b)' BY <1>1, <2>1 DEF HandOf, Served, Service
  <2>4. Stopping(b)' BY <1>1, <1>2, <2>1, DrainersDiffer DEF HandOf, Stopping, Stopper
  <2>5. Owned(b)'
    <3>1. Io(b) \in Drainers BY DrainersDiffer
    <3>2. /\ cpc'[Io(b)] \in {"idle", "exit", "look", "park", "pop"} /\ cpc[Io(b)] # "idle"
          /\ cpc'[Io(b)] = "exit" => ~running[b]
          /\ cpc'[Io(b)] = "idle" => cpc[Io(b)] = "exit"
      BY <3>1 DEF IoStep, IoEmpty, IoExit, IoLook, IoUnpark, Goes, TypeOK, DrainTypes
    <3> QED BY <1>1, <2>1, <3>2 DEF HandOf, Owned, Life, Io, Draining
  <2> QED BY <2>2, <2>3, <2>4, <2>5 DEF HandOf
<1> QED BY <1>3, <1>4, <1>5 DEF HandInv, HandOf

LEMMA Least ==
    ASSUME NEW S \in SUBSET Nat, S # {}
    PROVE  \E x \in S : \A y \in S : x <= y
<1> DEFINE R == OpToRel(<, Nat)
<1>1. PICK x \in S : \A y \in S : ~(<<y, x>> \in R)
  BY NatLessThanWellFounded, WFMin
<1>2. \A y \in S : y < x => <<y, x>> \in R
  BY DEF OpToRel
<1> HIDE DEF R
<1>3. ASSUME NEW y \in S PROVE x <= y
  <2>1. x \in Nat /\ y \in Nat OBVIOUS
  <2>2. ~(y < x) BY <1>1, <1>2
  <2> QED BY <2>1, <2>2
<1> QED BY <1>3

LEMMA HandStart == ASSUME TypeOK, HandInv, [Next]_vars, NEW b \in Logs, Start(b) PROVE HandInv'
<1> USE DEF ringVars, logVars, wakeVars, writerVars, drainVars, stopVars, flushVars
<1>1. Slots' = Slots /\ NoLog \notin Logs /\ layout.slots \in Nat BY Constant, LogAssumption, LayoutIs
<1>2. /\ spc[b] = "new" /\ spc'[b] = "up" /\ running'[b] = TRUE /\ open'[b] = TRUE
      /\ begun' = begun /\ sweep' = sweep
      /\ \A a \in Logs : a # b => /\ running'[a] = running[a] /\ open'[a] = open[a]
                                 /\ home'[a] = home[a] /\ spc'[a] = spc[a]
  BY DEF Start, TypeOK, LogTypes, StopTypes
<1>3. HandOf(b) BY DEF HandInv, HandOf
<1>4. \A i \in Slots : slot[i] # b
  BY <1>2, <1>3 DEF HandOf, Registered
<1>5. CASE FreeSlots # {}
  <2> DEFINE i == CHOOSE i \in FreeSlots : \A j \in FreeSlots : i <= j
  <2>1. i \in FreeSlots
    <3>1. FreeSlots \in SUBSET Nat BY <1>1 DEF FreeSlots, Slots
    <3> QED BY <1>5, <3>1, Least
  <2>2. /\ slot' = [slot EXCEPT ![i] = b] /\ home'[b] = "service"
        /\ UNCHANGED <<cpc, target>>
    BY <1>5 DEF Start, TypeOK, LogTypes
  <2> HIDE DEF i
  <2>3. i \in Slots /\ slot[i] = NoLog BY <2>1 DEF FreeSlots
  <2>4. slot'[i] = b /\ \A j \in Slots : j # i => slot'[j] = slot[j]
    BY <2>2, <2>3 DEF TypeOK, LogTypes
  <2>5. Sweeping' BY <1>1, <1>2, <2>2 DEF HandInv, Sweeping, Service
  <2>6. ASSUME NEW a \in Logs, a # b PROVE HandOf(a)'
    <3>1. \A j \in Slots : slot'[j] = a <=> slot[j] = a BY <1>1, <2>3, <2>4, <2>6
    <3> QED BY <1>1, <1>2, <2>2, <2>6, <3>1, Bystander DEF HandInv, HandOf
  <2>7. HandOf(b)'
    <3>1. Life(b)' BY <1>2, <2>2 DEF Life
    <3>2. Registered(b)' BY <1>1, <1>2, <1>4, <2>2, <2>3, <2>4 DEF Registered
    <3>3. Served(b)' BY <1>2, <2>2 DEF Served
    <3>4. Owned(b)' BY <1>1, <1>2, <1>3, <2>2 DEF HandOf, Owned, Life, Io
    <3>5. Stopping(b)' BY <1>2, <1>3, <2>2 DEF HandOf, Stopping, Stopper
    <3> QED BY <3>1, <3>2, <3>3, <3>4, <3>5 DEF HandOf
  <2> QED BY <2>5, <2>6, <2>7 DEF HandInv, HandOf
<1>6. CASE FreeSlots = {}
  <2>1. /\ slot' = slot /\ home'[b] = "own"
        /\ cpc' = [cpc EXCEPT ![Io(b)] = "pop"] /\ target' = [target EXCEPT ![Io(b)] = b]
    BY <1>6 DEF Start, TypeOK, LogTypes
  <2>2. /\ cpc'[Io(b)] = "pop" /\ target'[Io(b)] = b
        /\ \A d \in Drainers : d # Io(b) => cpc'[d] = cpc[d] /\ target'[d] = target[d]
    BY <2>1, DrainersDiffer DEF TypeOK, DrainTypes
  <2>3. Sweeping' BY <1>1, <1>2, <2>2, DrainersDiffer DEF HandInv, Sweeping
  <2>4. ASSUME NEW a \in Logs, a # b PROVE HandOf(a)'
    BY <1>1, <1>2, <2>1, <2>2, <2>4, DrainersDiffer, Bystander DEF HandInv, HandOf
  <2>5. HandOf(b)'
    <3>1. Life(b)' BY <1>2, <2>1 DEF Life
    <3>2. Registered(b)' BY <1>1, <1>2, <1>4, <2>1 DEF Registered
    <3>3. Served(b)' BY <1>2, <1>3, <2>2, DrainersDiffer DEF HandOf, Served, Life
    <3>4. Owned(b)' BY <1>2, <2>1, <2>2 DEF Owned, Io, Draining
    <3>5. Stopping(b)' BY <1>2, <1>3, <2>2, DrainersDiffer DEF HandOf, Stopping
    <3> QED BY <3>1, <3>2, <3>3, <3>4, <3>5 DEF HandOf
  <2> QED BY <2>3, <2>4, <2>5 DEF HandInv, HandOf
<1> QED BY <1>5, <1>6

LEMMA HandStop == ASSUME TypeOK, HandInv, [Next]_vars, NEW b \in Logs, StopStep(b) PROVE HandInv'
<1> USE DEF ringVars, logVars, wakeVars, writerVars, drainVars, stopVars, flushVars
<1>1. Slots' = Slots /\ NoLog \notin Logs BY Constant, LogAssumption
<1>2. /\ sweep' = sweep
      /\ \A a \in Logs : a # b => /\ running'[a] = running[a] /\ open'[a] = open[a]
                                 /\ home'[a] = home[a] /\ spc'[a] = spc[a] /\ begun'[a] = begun[a]
                                 /\ \A i \in Slots : slot'[i] = a <=> slot[i] = a
  <2>1. CASE ClearSlot(b)
    BY <1>1, <2>1 DEF ClearSlot, StopGoes, stopOnly, TypeOK, LogTypes, StopTypes
  <2> QED
    BY <2>1 DEF StopStep, StopBegin, ReadEpoch, PokeService, HandedOff, DrainedAll, PokeIo, JoinIo, Close,
       StopGoes, stopOnly, TypeOK, LogTypes, StopTypes
<1>3. \A d \in Drainers : d # Stopper(b) => cpc'[d] = cpc[d] /\ target'[d] = target[d]
  BY DEF StopStep, StopBegin, ClearSlot, ReadEpoch, PokeService, HandedOff, DrainedAll, PokeIo, JoinIo, Close,
     Goes, TypeOK, DrainTypes
<1>4. Sweeping' BY <1>1, <1>2, <1>3, DrainersDiffer DEF HandInv, Sweeping
<1>5. ASSUME NEW a \in Logs, a # b PROVE HandOf(a)'
  BY <1>1, <1>2, <1>3, <1>5, DrainersDiffer, Bystander DEF HandInv, HandOf
<1>6. HandOf(b)'
  <2>1. HandOf(b) BY DEF HandInv, HandOf
  <2>2. /\ cpc'[Io(b)] = cpc[Io(b)] /\ target'[Io(b)] = target[Io(b)]
        /\ target'[Service] = target[Service]
    BY <1>3, DrainersDiffer
  <2> DEFINE Same == UNCHANGED <<running, open, home, slot, begun>>
  <2>3. Stopper(b) \in Drainers BY DrainersDiffer
  <2>4. CASE StopBegin(b)
    <3>1. /\ UNCHANGED <<open, home, slot, begun, cpc, target>> /\ spc[b] = "up" /\ running'[b] = FALSE
          /\ spc'[b] = IF home[b] = "service" THEN "clear" ELSE "poke"
      BY <2>4 DEF StopBegin, StopGoes, TypeOK, LogTypes, StopTypes
    <3>2. Life(b)' BY <2>1, <3>1 DEF HandOf, Life
    <3>3. Registered(b)' BY <1>1, <2>1, <3>1 DEF HandOf, Registered
    <3>4. Served(b)' BY <2>1, <3>1 DEF HandOf, Served, Service
    <3>5. Owned(b)' BY <2>1, <3>1 DEF HandOf, Owned, Io
    <3>6. Stopping(b)' BY <2>1, <3>1 DEF HandOf, Stopping, Stopper
    <3> QED BY <3>2, <3>3, <3>4, <3>5, <3>6 DEF HandOf
  <2>5. CASE ClearSlot(b)
    <3>1. /\ UNCHANGED <<running, open, home, begun, cpc, target>> /\ spc[b] = "clear" /\ spc'[b] = "epoch"
          /\ \A i \in Slots : slot'[i] # b
      BY <1>1, <2>5 DEF ClearSlot, StopGoes, TypeOK, LogTypes, StopTypes
    <3>2. Life(b)' BY <2>1, <3>1 DEF HandOf, Life
    <3>3. Registered(b)' BY <1>1, <3>1 DEF Registered
    <3>4. Served(b)' BY <2>1, <3>1 DEF HandOf, Served, Service
    <3>5. Owned(b)' BY <2>1, <3>1 DEF HandOf, Owned, Io
    <3>6. Stopping(b)' BY <2>1, <3>1 DEF HandOf, Stopping, Stopper
    <3> QED BY <3>2, <3>3, <3>4, <3>5, <3>6 DEF HandOf
  <2>6. CASE ReadEpoch(b)
    <3>1. /\ UNCHANGED <<running, open, home, slot, cpc, target>> /\ spc[b] = "epoch" /\ spc'[b] = "handoff"
          /\ begun'[b] = 0
      BY <2>6 DEF ReadEpoch, StopGoes, stopOnly, TypeOK, StopTypes
    <3>2. Life(b)' BY <2>1, <3>1 DEF HandOf, Life
    <3>3. Registered(b)' BY <1>1, <2>1, <3>1 DEF HandOf, Registered
    <3>4. Served(b)' BY <2>1, <3>1 DEF HandOf, Served, Service
    <3>5. Owned(b)' BY <2>1, <3>1 DEF HandOf, Owned, Io
    <3>6. Stopping(b)' BY <2>1, <3>1 DEF HandOf, Stopping, Stopper
    <3> QED BY <3>2, <3>3, <3>4, <3>5, <3>6 DEF HandOf
  <2>7. CASE PokeService(b)
    <3>1. UNCHANGED <<running, open, home, slot, begun, spc, cpc, target>>
      BY <2>7 DEF PokeService
    <3> QED BY <1>1, <2>1, <3>1, Bystander
  <2>8. CASE HandedOff(b)
    <3>1. /\ UNCHANGED <<running, open, slot, begun>> /\ spc[b] = "handoff" /\ spc'[b] = "leftovers"
          /\ begun[b] = 2 /\ home'[b] = "none"
          /\ cpc'[Stopper(b)] = "pop" /\ target'[Stopper(b)] = b
      BY <2>3, <2>8 DEF HandedOff, SweepsPassed, StopGoes, TypeOK, LogTypes, StopTypes, DrainTypes
    <3>2. Life(b)' BY <2>1, <3>1 DEF HandOf, Life
    <3>3. Registered(b)' BY <1>1, <2>1, <3>1 DEF HandOf, Registered
    <3>4. Served(b)' BY <2>1, <2>2, <3>1 DEF HandOf, Served, Service
    <3>5. Owned(b)' BY <2>1, <2>2, <3>1 DEF HandOf, Owned, Life, Io
    <3>6. Stopping(b)' BY <3>1 DEF Stopping, Stopper, Draining
    <3> QED BY <3>2, <3>3, <3>4, <3>5, <3>6 DEF HandOf
  <2>9. CASE DrainedAll(b)
    <3>0. /\ UNCHANGED <<running, open, home, slot, begun>> /\ spc[b] = "leftovers"
      BY <2>1, <2>9 DEF DrainedAll, HandOf, Stopping
    <3>1. \/ spc' = spc /\ cpc' = cpc /\ target' = target
          \/ /\ spc'[b] = "close"
             /\ cpc'[Stopper(b)] = "idle" /\ target'[Stopper(b)] = NoLog
      BY <2>3, <2>9 DEF DrainedAll, Goes, StopGoes, TypeOK, StopTypes, DrainTypes
    <3>2. Life(b)' BY <2>1, <3>0, <3>1 DEF HandOf, Life
    <3>3. Registered(b)' BY <1>1, <2>1, <3>0, <3>1 DEF HandOf, Registered
    <3>4. Served(b)' BY <2>1, <2>2, <3>0, <3>1 DEF HandOf, Served, Service
    <3>5. Owned(b)' BY <2>1, <2>2, <3>0, <3>1 DEF HandOf, Owned, Life, Io
    <3>6. Stopping(b)' BY <2>1, <3>0, <3>1 DEF HandOf, Stopping, Stopper, Draining
    <3> QED BY <3>2, <3>3, <3>4, <3>5, <3>6 DEF HandOf
  <2>10. CASE PokeIo(b)
    <3>1. /\ UNCHANGED <<running, open, home, slot, begun, cpc, target>>
          /\ spc[b] = "poke" /\ spc'[b] = "join"
      BY <2>10 DEF PokeIo, StopGoes, TypeOK, StopTypes
    <3>2. Life(b)' BY <2>1, <3>1 DEF HandOf, Life
    <3>3. Registered(b)' BY <1>1, <2>1, <3>1 DEF HandOf, Registered
    <3>4. Served(b)' BY <2>1, <3>1 DEF HandOf, Served, Life, Service
    <3>5. Owned(b)' BY <2>1, <3>1 DEF HandOf, Owned, Io
    <3>6. Stopping(b)' BY <2>1, <3>1 DEF HandOf, Stopping, Stopper
    <3> QED BY <3>2, <3>3, <3>4, <3>5, <3>6 DEF HandOf
  <2>11. CASE JoinIo(b)
    <3>1. /\ UNCHANGED <<running, open, slot, begun, cpc, target>> /\ spc[b] = "join" /\ spc'[b] = "close"
          /\ home'[b] = "none" /\ cpc[Io(b)] = "idle"
      BY <2>11 DEF JoinIo, StopGoes, TypeOK, LogTypes, StopTypes
    <3>2. Life(b)' BY <2>1, <3>1 DEF HandOf, Life
    <3>3. Registered(b)' BY <1>1, <2>1, <3>1 DEF HandOf, Registered
    <3>4. Served(b)' BY <2>1, <3>1 DEF HandOf, Served, Life, Service
    <3>5. Owned(b)' BY <2>1, <3>1 DEF HandOf, Owned, Io
    <3>6. Stopping(b)' BY <2>1, <3>1 DEF HandOf, Stopping, Stopper
    <3> QED BY <3>2, <3>3, <3>4, <3>5, <3>6 DEF HandOf
  <2>12. CASE Close(b)
    <3>1. /\ UNCHANGED <<running, home, slot, begun, cpc, target>> /\ spc[b] = "close" /\ spc'[b] = "stopped"
          /\ open'[b] = FALSE
      BY <2>12 DEF Close, StopGoes, TypeOK, LogTypes, StopTypes
    <3>2. Life(b)' BY <2>1, <3>1 DEF HandOf, Life
    <3>3. Registered(b)' BY <1>1, <2>1, <3>1 DEF HandOf, Registered
    <3>4. Served(b)' BY <2>1, <3>1 DEF HandOf, Served, Life, Service
    <3>5. Owned(b)' BY <2>1, <3>1 DEF HandOf, Owned, Io
    <3>6. Stopping(b)' BY <2>1, <3>1 DEF HandOf, Stopping, Stopper
    <3> QED BY <3>2, <3>3, <3>4, <3>5, <3>6 DEF HandOf
  <2> QED
    BY <2>4, <2>5, <2>6, <2>7, <2>8, <2>9, <2>10, <2>11, <2>12 DEF StopStep
<1> QED BY <1>4, <1>5, <1>6 DEF HandInv, HandOf

LEMMA HandStep == ASSUME TypeOK, HandInv, [Next]_vars PROVE HandInv'
<1> USE DEF ringVars, logVars, wakeVars, writerVars, drainVars, stopVars, flushVars
<1>1. ASSUME UNCHANGED <<running, open, home, spc, slot, begun, cpc, target, sweep>> PROVE HandInv'
  <2>1. Slots' = Slots BY Constant
  <2>2. Sweeping' BY <1>1, <2>1 DEF HandInv, Sweeping, Service
  <2>3. ASSUME NEW b \in Logs PROVE HandOf(b)'
    BY <1>1, <2>1, Bystander DEF HandInv, HandOf
  <2> QED BY <2>2, <2>3 DEF HandInv, HandOf
<1>2. ASSUME NEW p \in Writers, TryLog(p) PROVE HandInv'
  BY <1>1, <1>2 DEF TryLog, CheckRunning, CheckDepth, Claim, Publish, Count, Notify
<1>3. ASSUME FlushStep PROVE HandInv'
  BY <1>1, <1>3 DEF FlushStep, FlushBegin, FlushNotify, Flushed, FlushTimeout, flushOnly
<1>4. CASE UNCHANGED vars BY <1>1, <1>4 DEF vars
<1> QED BY <1>2, <1>3, <1>4, Steps, HandDrain, HandSweep, HandIo, HandStart, HandStop

----------------------------------------------------------------------------
(* What the steps do to the entries of a log.                              *)

Entered == <<layout, ring, hold, cpc, target, file>>

LEMMA PlacesKept ==
    ASSUME UNCHANGED <<ring, file>>,
           \A c \in Drainers, b \in Logs : /\ Holds(c, b)' <=> Holds(c, b)
                                           /\ Holds(c, b) => hold'[c] = hold[c]
    PROVE  \A b \in Logs : InRing(b)' = InRing(b) /\ InHand(b)' = InHand(b) /\ InFile(b)' = InFile(b)
<1>1. \A b \in Logs : InRing(b)' = InRing(b) /\ InFile(b)' = InFile(b) BY DEF InRing, InFile
<1>2. ASSUME NEW b \in Logs PROVE InHand(b)' = InHand(b)
  <2>1. Drainers' = Drainers BY DEF Drainers, Service, Io, Stopper
  <2> QED BY <2>1 DEF InHand
<1> QED BY <1>1, <1>2

LEMMA OneDrainer ==
    ASSUME HandInv, NEW c \in Drainers, NEW d \in Drainers, cpc[c] \in Draining, cpc[d] \in Draining,
           target[c] = target[d], target[c] \in Logs
    PROVE  c = d
<1>1. \A b \in Logs : HandOf(b) BY DEF HandInv, HandOf
<1>2. ASSUME NEW e \in Drainers, cpc[e] \in Draining, NEW b \in Logs, target[e] = b
      PROVE  e = Service \/ e = Io(b) \/ e = Stopper(b)
  <2>1. ASSUME NEW a \in Logs, e = Io(a) PROVE a = b
    BY <1>1, <1>2, <2>1, LogAssumption DEF HandOf, Owned, Draining
  <2>2. ASSUME NEW a \in Logs, e = Stopper(a) PROVE a = b
    BY <1>1, <1>2, <2>2, LogAssumption DEF HandOf, Stopping, Draining
  <2> QED BY <2>1, <2>2, DrainersDiffer
<1>3. ASSUME NEW b \in Logs, cpc[Io(b)] \in Draining
      PROVE  target[Service] # b /\ cpc[Stopper(b)] = "idle"
  <2>1. home[b] = "own" BY <1>1, <1>3 DEF HandOf, Owned, Draining
  <2> QED BY <1>1, <2>1 DEF HandOf, Served, Life, Stopping
<1>4. ASSUME NEW b \in Logs, cpc[Stopper(b)] \in Draining PROVE target[Service] # b
  <2>1. spc[b] = "leftovers" BY <1>1, <1>4 DEF HandOf, Stopping, Draining
  <2> QED BY <1>1, <2>1 DEF HandOf, Served
<1> QED BY <1>2, <1>3, <1>4 DEF Draining

\* Drainers that hold an entry do not move in a step of somebody else.
LEMMA HandsStill ==
    ASSUME TypeOK, HandInv,
           \/ SweepStep \/ FlushStep \/ UNCHANGED vars
           \/ \E b \in Logs : Start(b) \/ IoStep(b) \/ StopStep(b)
    PROVE  /\ \A c \in Drainers :
                 cpc[c] \in {"count", "write"} \/ cpc'[c] \in {"count", "write"} =>
                    cpc'[c] = cpc[c] /\ target'[c] = target[c]
           /\ \A b \in Logs : spc'[b] = "new" => spc[b] = "new"
<1> USE DEF ringVars, logVars, wakeVars, writerVars, drainVars, stopVars, flushVars
<1> DEFINE Still == \A c \in Drainers :
                 cpc[c] \in {"count", "write"} \/ cpc'[c] \in {"count", "write"} =>
                    cpc'[c] = cpc[c] /\ target'[c] = target[c]
           Old == \A b \in Logs : spc'[b] = "new" => spc[b] = "new"
<1>0. /\ cpc \in [Drainers -> {"idle", "top", "slot", "pop", "count", "write", "park", "exit", "look"}]
      /\ target \in [Drainers -> Logs \cup {NoLog}]
      /\ spc \in [Logs -> {"new", "up", "clear", "epoch", "handoff", "leftovers", "poke",
                         "join", "close", "stopped"}]
  BY DEF TypeOK, DrainTypes, StopTypes
<1>1. ASSUME SweepStep PROVE Still /\ Old
  BY <1>0, <1>1, DrainersDiffer
     DEF SweepStep, BeginSweep, LoadSlot, LeaveSlot, EndSweep, Unpark, serviceOnly, Goes
<1>2. ASSUME FlushStep PROVE Still /\ Old
  BY <1>2 DEF FlushStep, FlushBegin, FlushNotify, Flushed, FlushTimeout, flushOnly
<1>3. CASE UNCHANGED vars BY <1>3 DEF vars
<1>4. ASSUME NEW b \in Logs, Start(b) PROVE Still /\ Old
  <2>1. spc[b] = "new" /\ HandOf(b) BY <1>4 DEF Start, HandInv, HandOf
  <2>2. cpc[Io(b)] = "idle" BY <2>1 DEF HandOf, Owned, Life
  <2>3. Old BY <1>0, <1>4 DEF Start
  <2>4. Still BY <1>0, <1>4, <2>2, DrainersDiffer DEF Start
  <2> QED BY <2>3, <2>4
<1>5. ASSUME NEW b \in Logs, IoStep(b) PROVE Still /\ Old
  BY <1>0, <1>5, DrainersDiffer DEF IoStep, IoEmpty, IoExit, IoLook, IoUnpark, ioOnly, Goes
<1>6. ASSUME NEW b \in Logs, StopStep(b) PROVE Still /\ Old
  <2>1. Old
    BY <1>0, <1>6 DEF StopStep, StopBegin, ClearSlot, ReadEpoch, PokeService, HandedOff, DrainedAll, PokeIo,
       JoinIo, Close, StopGoes
  <2>2. CASE HandedOff(b)
    <3>1. cpc[Stopper(b)] = "idle" BY <1>0, <2>2, DrainersDiffer DEF HandedOff, HandInv, Stopping
    <3> QED BY <1>0, <2>1, <2>2, <3>1, DrainersDiffer DEF HandedOff
  <2>3. CASE DrainedAll(b) BY <1>0, <2>1, <2>3, DrainersDiffer DEF DrainedAll, Goes
  <2> QED
    BY <1>6, <2>1, <2>2, <2>3
       DEF StopStep, StopBegin, ClearSlot, ReadEpoch, PokeService, PokeIo, JoinIo, Close
<1> QED BY <1>1, <1>2, <1>3, <1>4, <1>5, <1>6

LEMMA ClaimDoes ==
    ASSUME TypeOK, NEW p \in Writers, Claim(p), ~UNCHANGED ring, NEW b \in Logs, b = LogOf(p)
    PROVE  LET n == Len(ring[b])
           IN  /\ n \in Nat /\ DOMAIN ring[b] = 1 .. n
               /\ n < Cap /\ Len(ring'[b]) = n + 1 /\ DOMAIN ring'[b] = 1 .. n + 1
               /\ \A i \in 1 .. n : ring'[b][i] = ring[b][i]
               /\ ring'[b][n + 1].entry = Mine(p) /\ ring'[b][n + 1].published = FALSE
               /\ \A a \in Logs : a # b => ring'[a] = ring[a]
               /\ InRing(b)' = InRing(b) \cup {Mine(p)}
<1> DEFINE n == Len(ring[b]) x == [entry |-> Mine(p), published |-> FALSE]
<1>1. /\ Mine(p) \in Entry /\ ring[b] \in Seq(Cells) /\ ring \in [Logs -> Seq(Cells)]
  BY LayoutIs DEF TypeOK, EntryTypes, Cells
<1>2. ring' = [ring EXCEPT ![b] = Append(ring[b], x)] /\ n < Cap
  BY DEF Claim
<1>3. x \in Cells /\ x.entry = Mine(p) /\ x.published = FALSE BY <1>1 DEF Cells
<1>4. ring'[b] = Append(ring[b], x) /\ \A a \in Logs : a # b => ring'[a] = ring[a] BY <1>1, <1>2
<1> HIDE DEF x
<1>5. /\ n \in Nat /\ DOMAIN ring[b] = 1 .. n /\ Len(ring'[b]) = n + 1
      /\ ring'[b] \in Seq(Cells)
      /\ \A i \in 1 .. n : ring'[b][i] = ring[b][i]
      /\ ring'[b][n + 1] = x
  BY <1>1, <1>3, <1>4, SeqFacts
<1>6. DOMAIN ring'[b] = 1 .. n + 1 BY <1>5, SeqFacts
<1>7. InRing(b)' = InRing(b) \cup {Mine(p)}
  <2>1. \A i \in 1 .. n + 1 : i \in 1 .. n \/ i = n + 1 BY <1>5
  <2>2. (\A i \in 1 .. n : i \in 1 .. n + 1) /\ n + 1 \in 1 .. n + 1 BY <1>5
  <2>3. /\ InRing(b) = {ring[b][i].entry : i \in 1 .. n}
        /\ InRing(b)' = {ring'[b][i].entry : i \in 1 .. n + 1}
    BY <1>5, <1>6 DEF InRing
  <2>4. \A i \in 1 .. n : ring'[b][i].entry = ring[b][i].entry BY <1>5
  <2>5. ring'[b][n + 1].entry = Mine(p) BY <1>3, <1>5
  <2> QED BY <2>1, <2>2, <2>3, <2>4, <2>5
<1> QED BY <1>2, <1>3, <1>4, <1>5, <1>6, <1>7

LEMMA PublishDoes ==
    ASSUME TypeOK, NEW p \in Writers, Publish(p), NEW b \in Logs, b = LogOf(p)
    PROVE  /\ \A a \in Logs : /\ Len(ring'[a]) = Len(ring[a]) /\ DOMAIN ring'[a] = DOMAIN ring[a]
                              /\ \A i \in DOMAIN ring[a] : ring'[a][i].entry = ring[a][i].entry
                              /\ InRing(a)' = InRing(a)
           /\ \A i \in DOMAIN ring[b] :
                 ring'[b][i].published <=> (ring[b][i].entry = Mine(p) \/ ring[b][i].published)
           /\ \A a \in Logs : a # b => ring'[a] = ring[a]
<1> DEFINE r == [i \in DOMAIN ring[b] |-> IF ring[b][i].entry = Mine(p)
                                      THEN [ring[b][i] EXCEPT !.published = TRUE] ELSE ring[b][i]]
<1>1. ring[b] \in Seq(Cells) /\ ring \in [Logs -> Seq(Cells)]
  BY DEF TypeOK, EntryTypes, Cells
<1>2. ring' = [ring EXCEPT ![b] = r] BY DEF Publish
<1>3. ring'[b] = r /\ \A a \in Logs : a # b => ring'[a] = ring[a] BY <1>1, <1>2
<1>4. /\ Len(ring[b]) \in Nat /\ DOMAIN ring[b] = 1 .. Len(ring[b])
      /\ \A i \in DOMAIN ring[b] : ring[b][i] \in Cells
  BY <1>1, SeqFacts
<1>5. DOMAIN r = DOMAIN ring[b] OBVIOUS
<1>6. ASSUME NEW i \in DOMAIN ring[b]
      PROVE  /\ r[i].entry = ring[b][i].entry
             /\ r[i].published <=> (ring[b][i].entry = Mine(p) \/ ring[b][i].published)
  <2>1. \A x \in Cells : /\ [x EXCEPT !.published = TRUE].entry = x.entry
                         /\ [x EXCEPT !.published = TRUE].published = TRUE
    BY DEF Cells
  <2>2. ring[b][i] \in Cells BY <1>4
  <2>3. CASE ring[b][i].entry = Mine(p)
    <3>1. r[i] = [ring[b][i] EXCEPT !.published = TRUE] BY <2>3
    <3> QED BY <2>1, <2>2, <2>3, <3>1
  <2>4. CASE ring[b][i].entry # Mine(p)
    <3>1. r[i] = ring[b][i] BY <2>4
    <3> QED BY <2>4, <3>1
  <2> QED BY <2>3, <2>4
<1>7. Len(r) = Len(ring[b]) BY <1>4, <1>5
<1> HIDE DEF r
<1>8. \A a \in Logs : /\ Len(ring'[a]) = Len(ring[a]) /\ DOMAIN ring'[a] = DOMAIN ring[a]
                      /\ \A i \in DOMAIN ring[a] : ring'[a][i].entry = ring[a][i].entry
  BY <1>3, <1>5, <1>6, <1>7
<1>9. \A a \in Logs : InRing(a)' = InRing(a) BY <1>8 DEF InRing
<1> QED BY <1>3, <1>6, <1>8, <1>9

LEMMA PopDoes ==
    ASSUME TypeOK, HandInv, HoldInv, NEW c \in Drainers, Pop(c), NEW b \in Logs, b = target[c]
    PROVE  LET n == Len(ring[b])
           IN  /\ n \in Nat \ {0} /\ DOMAIN ring[b] = 1 .. n
               /\ Len(ring'[b]) = n - 1 /\ DOMAIN ring'[b] = 1 .. n - 1
               /\ \A i \in 1 .. n - 1 : ring'[b][i] = ring[b][i + 1]
               /\ ring[b][1].published
               /\ InRing(b) = InRing(b)' \cup {ring[b][1].entry}
               /\ InHand(b) = {} /\ InHand(b)' = {ring[b][1].entry}
               /\ \A a \in Logs : a # b => ring'[a] = ring[a] /\ InHand(a)' = InHand(a)
               /\ cpc'[c] = "count" /\ hold'[c] = ring[b][1].entry /\ hold'[c] \in Entry
               /\ \A d \in Drainers : d # c => cpc'[d] = cpc[d] /\ hold'[d] = hold[d]
<1> DEFINE n == Len(ring[b])
<1>1. /\ cpc[c] = "pop" /\ ring[b] # <<>> /\ Head(ring[b]).published
      /\ ring' = [ring EXCEPT ![b] = Tail(@)]
      /\ hold' = [hold EXCEPT ![c] = Head(ring[b]).entry] /\ cpc' = [cpc EXCEPT ![c] = "count"]
      /\ target' = target
  BY AtLog DEF Pop, Ready, Draining, Goes
<1>2. ring[b] \in Seq(Cells) /\ ring \in [Logs -> Seq(Cells)]
  BY <1>1 DEF TypeOK, EntryTypes, Cells
<1>3. ring'[b] = Tail(ring[b]) /\ \A a \in Logs : a # b => ring'[a] = ring[a] BY <1>1, <1>2
<1>4. /\ n \in Nat \ {0} /\ DOMAIN ring[b] = 1 .. n
      /\ Head(ring[b]) = ring[b][1] /\ ring[b][1] \in Cells
      /\ ring'[b] \in Seq(Cells) /\ Len(ring'[b]) = n - 1
      /\ \A i \in 1 .. n - 1 : ring'[b][i] = ring[b][i + 1]
  BY <1>1, <1>2, <1>3, SeqFacts
<1>5. DOMAIN ring'[b] = 1 .. n - 1
  BY <1>4, SeqFacts
<1>6. ring[b][1].entry \in Entry BY <1>4 DEF Cells
<1>7. /\ cpc'[c] = "count" /\ hold'[c] = ring[b][1].entry
      /\ \A d \in Drainers : d # c => cpc'[d] = cpc[d] /\ hold'[d] = hold[d]
  BY <1>1, <1>4 DEF TypeOK, DrainTypes
<1>8. InRing(b) = InRing(b)' \cup {ring[b][1].entry}
  <2> HIDE DEF n
  <2>0. \A i \in 1 .. n - 1 : ring'[b][i] = ring[b][i + 1] BY <1>4
  <2>1. ASSUME NEW i \in 1 .. n
        PROVE  i = 1 \/ (i - 1 \in 1 .. n - 1 /\ ring[b][i] = ring'[b][i - 1])
    <3>1. i # 1 => i - 1 \in 1 .. n - 1 /\ (i - 1) + 1 = i BY <1>4
    <3> QED BY <2>0, <3>1
  <2>2. ASSUME NEW i \in 1 .. n - 1
        PROVE  i + 1 \in 1 .. n /\ ring'[b][i] = ring[b][i + 1]
    <3>1. i + 1 \in 1 .. n BY <1>4
    <3> QED BY <2>0, <3>1
  <2>3. /\ InRing(b) = {ring[b][i].entry : i \in 1 .. n}
        /\ InRing(b)' = {ring'[b][i].entry : i \in 1 .. n - 1}
    BY <1>4, <1>5 DEF InRing
  <2>4. \A i \in 1 .. n : ring[b][i].entry \in InRing(b)' \cup {ring[b][1].entry}
    BY <2>1, <2>3
  <2>5. \A i \in 1 .. n - 1 : ring'[b][i].entry \in InRing(b) BY <2>2, <2>3
  <2>6. ring[b][1].entry \in InRing(b)
    <3>1. 1 \in 1 .. n BY <1>4
    <3> QED BY <2>3, <3>1
  <2> QED BY <2>3, <2>4, <2>5, <2>6
<1>9. \A d \in Drainers : ~Holds(d, b)
  BY <1>1, OneDrainer DEF Holds, Draining
<1>10. \A d \in Drainers, a \in Logs : Holds(d, a)' <=> (Holds(d, a) \/ (d = c /\ a = b))
  BY <1>1, <1>7, <1>9 DEF Holds
<1>11. Drainers' = Drainers BY DEF Drainers, Service, Io, Stopper
<1>12. InHand(b) = {} BY <1>9 DEF InHand
<1>13. InHand(b)' = {ring[b][1].entry}
  <2>1. {d \in Drainers : Holds(d, b)'} = {c} BY <1>1, <1>9, <1>10
  <2>2. InHand(b)' = {hold'[d] : d \in {d \in Drainers : Holds(d, b)'}}
    BY <1>1, <1>11 DEF InHand, Holds
  <2> QED BY <1>7, <2>1, <2>2
<1>14. ASSUME NEW a \in Logs, a # b PROVE InHand(a)' = InHand(a)
  <2>1. \A d \in Drainers : Holds(d, a) => d # c BY <1>1, <1>14 DEF Holds
  <2>2. \A d \in Drainers : Holds(d, a)' <=> Holds(d, a) BY <1>10, <1>14
  <2>3. \A d \in Drainers : Holds(d, a) => hold'[d] = hold[d] BY <1>7, <2>1
  <2> QED BY <1>11, <2>2, <2>3 DEF InHand
<1> QED
  BY <1>1, <1>3, <1>4, <1>5, <1>6, <1>7, <1>8, <1>12, <1>13, <1>14 DEF InRing

LEMMA WriteDoes ==
    ASSUME TypeOK, HandInv, HoldInv, NEW c \in Drainers, Write(c), NEW b \in Logs, b = target[c]
    PROVE  LET n == Len(file[b])
           IN  /\ n \in Nat /\ DOMAIN file[b] = 1 .. n
               /\ hold[c] \in Entry /\ InHand(b) = {hold[c]} /\ InHand(b)' = {}
               /\ Len(file'[b]) = n + 1 /\ DOMAIN file'[b] = 1 .. n + 1
               /\ \A i \in 1 .. n : file'[b][i] = file[b][i]
               /\ file'[b][n + 1] = hold[c]
               /\ InFile(b)' = InFile(b) \cup {hold[c]}
               /\ \A a \in Logs : a # b => file'[a] = file[a] /\ InHand(a)' = InHand(a)
               /\ hold'[c] = NoEntry /\ cpc'[c] = "pop"
               /\ \A d \in Drainers : d # c => cpc'[d] = cpc[d] /\ hold'[d] = hold[d]
<1> DEFINE n == Len(file[b])
<1>1. /\ cpc[c] = "write" /\ hold' = [hold EXCEPT ![c] = NoEntry]
      /\ cpc' = [cpc EXCEPT ![c] = "pop"] /\ target' = target
  BY AtLog DEF Write, Draining, Goes
<1>2. file[b] \in Seq(Entry) /\ file \in [Logs -> Seq(Entry)] BY <1>1 DEF TypeOK, EntryTypes
<1>3. hold[c] \in Entry BY <1>1 DEF TypeOK, DrainTypes, HoldInv
<1>4. open[b]
  <2>1. HandOf(b) /\ \A a \in Logs : HandOf(a) BY <1>1 DEF HandInv, HandOf
  <2>2. CASE c = Service
    BY <1>1, <2>1, <2>2 DEF HandOf, Served, Life
  <2>3. ASSUME NEW a \in Logs, c = Io(a) PROVE open[b]
    <3>1. a = b BY <1>1, <2>1, <2>3, LogAssumption DEF HandOf, Owned
    <3> QED BY <1>1, <2>1, <2>3, <3>1 DEF HandOf, Owned, Life
  <2>4. ASSUME NEW a \in Logs, c = Stopper(a) PROVE open[b]
    <3>1. a = b BY <1>1, <2>1, <2>4, LogAssumption DEF HandOf, Stopping
    <3> QED BY <1>1, <2>1, <2>4, <3>1 DEF HandOf, Stopping, Life
  <2> QED BY <2>2, <2>3, <2>4, DrainersDiffer
<1>5. file' = [file EXCEPT ![b] = Append(file[b], hold[c])] BY <1>4 DEF Write, Writes
<1>6. file'[b] = Append(file[b], hold[c]) /\ \A a \in Logs : a # b => file'[a] = file[a]
  BY <1>1, <1>2, <1>5
<1>7. /\ hold'[c] = NoEntry /\ cpc'[c] = "pop"
      /\ \A d \in Drainers : d # c => cpc'[d] = cpc[d] /\ hold'[d] = hold[d]
  BY <1>1 DEF TypeOK, DrainTypes
<1>8. /\ n \in Nat /\ DOMAIN file[b] = 1 .. n /\ Len(file'[b]) = n + 1
      /\ file'[b] \in Seq(Entry)
      /\ \A i \in 1 .. n : file'[b][i] = file[b][i]
      /\ file'[b][n + 1] = hold[c]
  BY <1>2, <1>3, <1>6, SeqFacts
<1>9. DOMAIN file'[b] = 1 .. n + 1 BY <1>8, SeqFacts
<1>10. InFile(b) = {file[b][i] : i \in DOMAIN file[b]} BY DEF InFile, ToSet
<1>11. InFile(b)' = {file'[b][i] : i \in DOMAIN file'[b]} BY DEF InFile, ToSet
<1>12. InFile(b)' = InFile(b) \cup {hold[c]}
  <2>1. \A i \in DOMAIN file'[b] : i \in DOMAIN file[b] \/ i = n + 1 BY <1>8, <1>9
  <2>2. \A i \in DOMAIN file[b] : i \in DOMAIN file'[b] /\ file'[b][i] = file[b][i] BY <1>8, <1>9
  <2>3. n + 1 \in DOMAIN file'[b] BY <1>8, <1>9
  <2> HIDE DEF n
  <2> QED BY <1>8, <1>10, <1>11, <2>1, <2>2, <2>3
<1>13. Drainers' = Drainers BY DEF Drainers, Service, Io, Stopper
<1>14. \A d \in Drainers : Holds(d, b) <=> d = c
  BY <1>1, OneDrainer DEF Holds, Draining
<1>16. \A d \in Drainers, a \in Logs : Holds(d, a)' <=> (Holds(d, a) /\ d # c)
  BY <1>1, <1>7 DEF Holds
<1>17. InHand(b) = {hold[c]}
  <2>1. {d \in Drainers : Holds(d, b)} = {c} BY <1>14
  <2> QED BY <2>1 DEF InHand
<1>18. InHand(b)' = {}
  <2>1. {d \in Drainers : Holds(d, b)'} = {} BY <1>14, <1>16, <1>1
  <2>2. InHand(b)' = {hold'[d] : d \in {d \in Drainers : Holds(d, b)'}}
    BY <1>13 DEF InHand, Holds
  <2> QED BY <2>1, <2>2
<1>19. ASSUME NEW a \in Logs, a # b PROVE InHand(a)' = InHand(a)
  <2>1. \A d \in Drainers : Holds(d, a) => d # c BY <1>19 DEF Holds
  <2>2. \A d \in Drainers : Holds(d, a)' <=> Holds(d, a) BY <1>16, <1>19, <2>1
  <2>3. \A d \in Drainers : Holds(d, a) => hold'[d] = hold[d] BY <1>7, <2>1
  <2> QED BY <1>13, <2>2, <2>3 DEF InHand
<1> QED BY <1>1, <1>3, <1>6, <1>7, <1>8, <1>9, <1>12, <1>17, <1>18, <1>19

----------------------------------------------------------------------------
(* The places of the entries.                                              *)

\* A writer's step that leaves the rings alone.
Talk(p) == CheckRunning(p) \/ CheckDepth(p) \/ (Claim(p) /\ UNCHANGED ring) \/ Count(p) \/ Notify(p)

LEMMA TalkDoes ==
    ASSUME TypeOK, NEW p \in Writers, Talk(p)
    PROVE  /\ UNCHANGED <<layout, ring, hold, cpc, target, file, spc, running, home>>
           /\ \A q \in Writers : q # p => ppc'[q] = ppc[q] /\ sent'[q] = sent[q]
           /\ ppc[p] # "publish" /\ ppc'[p] \notin {"publish", "count"}
           /\ ppc'[p] = "notify" => ppc[p] = "count"
           /\ \/ /\ sent'[p] = sent[p] + 1 /\ ppc[p] = "idle"
                 /\ IF running[LogOf(p)] THEN ppc'[p] = "depth" ELSE ppc'[p] = "idle"
              \/ /\ sent'[p] = sent[p] /\ ppc[p] # "idle"
                 /\ ppc'[p] = "claim" => ppc[p] = "depth"
                 /\ ppc'[p] # "depth"
           /\ \/ accepted' = accepted
              \/ /\ accepted' = accepted \cup {Mine(p)}
                 /\ ppc[p] \in {"count", "notify"} /\ ppc'[p] = "idle"
<1> USE DEF ringVars, logVars, wakeVars, writerVars, drainVars, stopVars, flushVars, To
<1>1. /\ ppc \in [Writers -> {"idle", "depth", "claim", "publish", "count", "notify"}]
      /\ sent \in [Writers -> Nat]
  BY DEF TypeOK, WriterTypes
<1>2. CASE CheckRunning(p) BY <1>1, <1>2 DEF CheckRunning
<1>3. CASE CheckDepth(p) BY <1>1, <1>3 DEF CheckDepth
<1>4. CASE Claim(p) /\ UNCHANGED ring
  <2>1. ppc'[p] \in {"publish", "idle"} /\ (ppc'[p] = "publish" => Len(ring[LogOf(p)]) < Cap)
    BY <1>1, <1>4 DEF Claim
  <2>2. LogOf(p) \in Logs /\ ring \in [Logs -> Seq(Cells)] BY LayoutIs DEF TypeOK, EntryTypes, Cells
  <2>3. ~(Len(ring[LogOf(p)]) < Cap)
    <3>1. SUFFICES ASSUME Len(ring[LogOf(p)]) < Cap PROVE FALSE OBVIOUS
    <3> DEFINE s == ring[LogOf(p)] x == [entry |-> Mine(p), published |-> FALSE]
    <3>2. ring' = [ring EXCEPT ![LogOf(p)] = Append(s, x)] BY <1>4, <3>1 DEF Claim
    <3>3. s = Append(s, x) BY <1>4, <2>2, <3>2
    <3>4. s \in Seq(Cells) /\ x \in Cells BY <2>2, LayoutIs DEF Cells
    <3> HIDE DEF s, x
    <3> QED BY <3>3, <3>4, SeqFacts
  <2> QED BY <1>1, <1>4, <2>3 DEF Claim
<1>5. CASE Count(p) BY <1>1, <1>5 DEF Count
<1>6. CASE Notify(p) BY <1>1, <1>6 DEF Notify
<1> QED BY <1>2, <1>3, <1>4, <1>5, <1>6 DEF Talk

LEMMA Hidden ==
    ASSUME TypeOK, NEW e \in Entry
    PROVE  e[1] \in Writers /\ e[2] \in Nat /\ (e = Mine(e[1]) <=> e[2] = sent[e[1]])
  BY DEF Entry, Mine

LEMMA PlaceTalk ==
    ASSUME TypeOK, HandInv, PlaceInv, NEW p \in Writers, Talk(p)
    PROVE  PlaceInv'
<1> USE DEF PlaceInv
<1>1. HoldInv' BY TalkDoes DEF HoldInv, Drainers, Service, Io, Stopper
<1>2. \A b \in Logs : InRing(b)' = InRing(b) /\ InHand(b)' = InHand(b) /\ InFile(b)' = InFile(b)
  BY TalkDoes, PlacesKept DEF Holds
<1>3. \A b \in Logs : Placed(b)' = Placed(b) BY <1>2 DEF Placed
<1>4. \A q \in Writers : LogOf(q)' = LogOf(q) /\ LogOf(q) \in Logs BY TalkDoes, LayoutIs DEF LogOf
<1>5. \A b \in Logs : \A e \in Placed(b) : Claimed(e, b) BY DEF PlacedInv, PlacedOf
<1>6. sent[p] \in Nat /\ sent \in [Writers -> Nat]
  BY DEF TypeOK, WriterTypes
<1>7. ASSUME NEW b \in Logs, NEW e \in Placed(b)
      PROVE  Claimed(e, b)' /\ (Unpublished(e)' <=> Unpublished(e)) /\ e \in Entry
  <2>1. Claimed(e, b) /\ e \in Entry /\ e[1] \in Writers /\ e[2] \in Nat BY <1>5, Hidden DEF Claimed
  <2>2. CASE e[1] # p
    BY <1>4, <2>1, <2>2, TalkDoes DEF Claimed, Unpublished, Mine
  <2>3. CASE e[1] = p
    <3>1. Claimed(e, b)' BY <1>4, <1>6, <2>1, <2>3, TalkDoes DEF Claimed
    <3> QED BY <3>1, <2>1, <2>3, TalkDoes DEF Unpublished
  <2> QED BY <2>2, <2>3
<1>8. ASSUME NEW b \in Logs PROVE PlacedOf(b)'
  <2>0. PlacedOf(b) BY DEF PlacedInv
  <2>1. \A i \in DOMAIN ring[b] : ring[b][i].entry \in Placed(b) BY DEF InRing, Placed
  <2>2. InHand(b) \cup InFile(b) \subseteq Placed(b) BY DEF Placed
  <2>3. spc'[b] = "new" => \A q \in Writers : LogOf(q)' = b => ppc'[q] = "idle"
    <3>1. spc[b] = "new" => ~running[b] BY DEF HandInv, Life
    <3> QED BY <1>4, <2>0, <3>1, TalkDoes DEF PlacedOf
  <2> QED BY <1>2, <1>3, <1>7, <2>0, <2>1, <2>2, <2>3, TalkDoes DEF PlacedOf
<1>9. ASSUME NEW q \in Writers, NEW b \in Logs, LogOf(q) = b PROVE FoundOf(q, b)'
  <2>0. FoundOf(q, b) BY <1>9 DEF FoundInv
  <2>1. \A e \in accepted : e \in Entry /\ e[1] \in Writers /\ e[2] \in Nat
    BY Hidden DEF TypeOK, EntryTypes
  <2>2. Mine(p) \in Entry /\ Mine(p)[1] = p BY LayoutIs DEF Mine
  <2>3. CASE q # p
    <3>1. \A e \in accepted' : e[1] = q => e \in accepted BY <2>2, <2>3, TalkDoes
    <3> QED BY <1>3, <2>0, <2>3, <3>1, TalkDoes DEF FoundOf, Mine
  <2>4. CASE q = p
    <3>1. ppc'[p] # "idle" => sent'[p] > 0 BY <1>6, <2>0, <2>4, TalkDoes DEF FoundOf
    <3>2. ppc'[p] \in {"publish", "count", "notify"} => Mine(p)' \in Placed(b)'
      BY <1>3, <2>0, <2>4, TalkDoes DEF FoundOf, Mine
    <3>3. ASSUME NEW e \in accepted', e[1] = p PROVE e \in Placed(b)' /\ (e = Mine(p)' => ppc'[p] = "idle")
      <4>1. CASE e \in accepted
        <5>1. e \in Placed(b) /\ (e = Mine(p) => ppc[p] = "idle") BY <2>0, <2>4, <3>3, <4>1 DEF FoundOf
        <5>2. e \in Entry /\ e[2] \in Nat /\ e[2] <= sent[p]
          BY <1>5, <1>6, <2>1, <3>3, <4>1, <5>1 DEF Claimed
        <5>3. CASE sent'[p] = sent[p] + 1
          <6>1. e[2] # sent'[p] BY <1>6, <5>2, <5>3
          <6> QED BY <1>3, <5>1, <6>1 DEF Mine
        <5>4. CASE sent'[p] = sent[p] /\ ppc[p] # "idle"
          BY <1>3, <5>1, <5>4 DEF Mine
        <5> QED BY <5>3, <5>4, TalkDoes
      <4>2. CASE e \notin accepted
        <5>1. e = Mine(p) /\ ppc[p] \in {"count", "notify"} /\ ppc'[p] = "idle" BY <3>3, <4>2, TalkDoes
        <5> QED BY <1>3, <2>0, <2>4, <5>1 DEF FoundOf
      <4> QED BY <4>1, <4>2
    <3> QED BY <2>4, <3>1, <3>2, <3>3 DEF FoundOf
  <2> QED BY <2>3, <2>4
<1> QED BY <1>1, <1>4, <1>8, <1>9 DEF PlacedInv, FoundInv

LEMMA PlaceStill ==
    ASSUME TypeOK, HandInv, PlaceInv, UNCHANGED <<layout, ring, ppc, sent, hold, accepted, file>>,
           \A c \in Drainers : cpc[c] \in {"count", "write"} \/ cpc'[c] \in {"count", "write"} =>
                                 /\ target'[c] = target[c]
                                 /\ cpc[c] \in {"count", "write"} /\ cpc'[c] \in {"count", "write"},
           \A b \in Logs : spc'[b] = "new" => spc[b] = "new"
    PROVE  /\ PlaceInv'
           /\ \A b \in Logs : InRing(b)' = InRing(b) /\ InHand(b)' = InHand(b) /\ InFile(b)' = InFile(b)
<1> USE DEF PlaceInv
<1>1. HoldInv' BY DEF HoldInv, Drainers, Service, Io, Stopper
<1>2. \A b \in Logs : InRing(b)' = InRing(b) /\ InHand(b)' = InHand(b) /\ InFile(b)' = InFile(b)
  BY PlacesKept DEF Holds
<1>3. \A b \in Logs : Placed(b)' = Placed(b) BY <1>2 DEF Placed
<1>4. \A q \in Writers : LogOf(q)' = LogOf(q) /\ Mine(q)' = Mine(q)
  BY DEF LogOf, Mine
<1>5. \A e \in Entry : Unpublished(e)' <=> Unpublished(e) BY <1>4, Hidden DEF Unpublished
<1>6. \A b \in Logs, e \in Entry : Claimed(e, b)' <=> Claimed(e, b) BY <1>4, Hidden DEF Claimed
<1>8. ASSUME NEW b \in Logs PROVE PlacedOf(b)'
  <2>0. PlacedOf(b) BY DEF PlacedInv
  <2>1. \A i \in DOMAIN ring[b] : ring[b][i].entry \in Placed(b) BY DEF InRing, Placed
  <2>2. InHand(b) \cup InFile(b) \subseteq Placed(b) BY DEF Placed
  <2>3. \A e \in Placed(b) : e \in Entry BY <2>0 DEF PlacedOf, Claimed
  <2> QED BY <1>2, <1>3, <1>4, <1>5, <1>6, <2>0, <2>1, <2>2, <2>3 DEF PlacedOf
<1>9. ASSUME NEW q \in Writers, NEW b \in Logs, LogOf(q) = b PROVE FoundOf(q, b)'
  BY <1>3, <1>4, <1>9 DEF FoundInv, FoundOf
<1> QED BY <1>1, <1>2, <1>4, <1>8, <1>9 DEF PlacedInv, FoundInv


LEMMA PlaceClaim ==
    ASSUME TypeOK, HandInv, PlaceInv, NEW p \in Writers, Claim(p), ~UNCHANGED ring
    PROVE  PlaceInv'
<1> USE DEF PlaceInv, writerVars, drainVars, stopVars
<1>b. PICK b \in Logs : b = LogOf(p) BY LayoutIs
<1>0. b \in Logs /\ Mine(p) \in Entry /\ Mine(p)[1] = p /\ Mine(p)[2] = sent[p] BY LayoutIs DEF Mine
<1>1. /\ UNCHANGED <<layout, sent, hold, cpc, target, file, spc, accepted>>
      /\ ppc[p] = "claim" /\ ppc'[p] = "publish"
      /\ \A q \in Writers : q # p => ppc'[q] = ppc[q]
      /\ sent[p] \in Nat /\ sent[p] > 0
  <2>1. sent[p] \in Nat /\ ppc \in [Writers -> {"idle", "depth", "claim", "publish", "count", "notify"}]
    BY DEF TypeOK, WriterTypes
  <2>2. ppc[p] = "claim" /\ ppc'[p] = "publish" BY <2>1 DEF Claim, To
  <2>3. sent[p] > 0 BY <1>0, <1>b, <2>2 DEF FoundInv, FoundOf
  <2> QED BY <2>1, <2>2, <2>3 DEF Claim, To
<1>2. HoldInv' BY <1>1 DEF HoldInv, Drainers, Service, Io, Stopper
<1>3. \A q \in Writers : LogOf(q)' = LogOf(q) /\ Mine(q)' = Mine(q) BY <1>1 DEF LogOf, Mine
<1>4. \A a \in Logs : InHand(a)' = InHand(a) /\ InFile(a)' = InFile(a)
  BY <1>1 DEF InHand, Holds, Drainers, Service, Io, Stopper, InFile
<1>5. \A a \in Logs : a # b => ring'[a] = ring[a] /\ InRing(a)' = InRing(a)
  <2>1. \A a \in Logs : a # b => ring'[a] = ring[a] BY <1>0, <1>b, ClaimDoes
  <2> QED BY <2>1 DEF InRing
<1>6. InRing(b)' = InRing(b) \cup {Mine(p)} BY <1>0, <1>b, ClaimDoes
<1>7. Placed(b)' = Placed(b) \cup {Mine(p)} /\ \A a \in Logs : a # b => Placed(a)' = Placed(a)
  BY <1>4, <1>5, <1>6 DEF Placed
<1>8. ASSUME NEW a \in Logs, NEW e \in Placed(a)
      PROVE  /\ Claimed(e, a)' /\ (Unpublished(e)' <=> Unpublished(e)) /\ e \in Entry /\ e # Mine(p)
  <2>1. Claimed(e, a) BY DEF PlacedInv, PlacedOf
  <2>2. e \in Entry /\ e[1] \in Writers /\ (e = Mine(e[1]) <=> e[2] = sent[e[1]]) BY <2>1, Hidden DEF Claimed
  <2>3. CASE e[1] # p
    BY <1>0, <1>b, <1>1, <1>3, <2>1, <2>2, <2>3 DEF Claimed, Unpublished
  <2>4. CASE e[1] = p
    <3>1. e[2] # sent[p] BY <1>1, <2>1, <2>4 DEF Claimed
    <3>2. Claimed(e, a)' BY <1>1, <1>3, <2>1, <2>4, <3>1 DEF Claimed
    <3>3. ~Unpublished(e) /\ ~Unpublished(e)' BY <1>1, <1>3, <2>2, <2>4, <3>1 DEF Unpublished
    <3> QED BY <1>0, <1>b, <2>2, <3>1, <3>2, <3>3
  <2> QED BY <2>3, <2>4
<1>9. ASSUME NEW e, e = Mine(p) PROVE Claimed(e, b)' /\ Unpublished(e)'
  <2>1. Claimed(e, b)' BY <1>0, <1>1, <1>3, <1>9, <1>b DEF Claimed
  <2>2. Unpublished(e)' BY <1>0, <1>1, <1>3, <1>9 DEF Unpublished
  <2> QED BY <2>1, <2>2
<1>10. ASSUME NEW a \in Logs PROVE PlacedOf(a)'
  <2>0. PlacedOf(a) BY DEF PlacedInv
  <2>1. \A i \in DOMAIN ring[a] : ring[a][i].entry \in Placed(a) BY DEF InRing, Placed
  <2>2. InHand(a) \cup InFile(a) \subseteq Placed(a) BY DEF Placed
  <2>3. spc'[a] = "new" => a # b BY <1>0, <1>b, <1>1, <2>0 DEF PlacedOf
  <2>4. spc'[a] = "new" => \A q \in Writers : LogOf(q)' = a => ppc'[q] = "idle"
    BY <1>1, <1>3, <1>b, <2>0, <2>3 DEF PlacedOf
  <2>5. CASE a # b
    BY <1>1, <1>4, <1>5, <1>7, <1>8, <2>0, <2>1, <2>2, <2>4, <2>5 DEF PlacedOf
  <2>6. CASE a = b
    <3>1. \A e \in Placed(b)' : Claimed(e, b)' BY <1>7, <1>8, <1>9, <2>6
    <3> DEFINE n == Len(ring[b])
    <3>2. /\ n \in Nat /\ DOMAIN ring[b] = 1 .. n /\ DOMAIN ring'[b] = 1 .. n + 1
          /\ \A i \in 1 .. n : ring'[b][i] = ring[b][i]
          /\ ring'[b][n + 1].entry = Mine(p) /\ ring'[b][n + 1].published = FALSE
      BY <1>0, <1>b, ClaimDoes
    <3>3. ASSUME NEW i \in DOMAIN ring'[b]
          PROVE  ring'[b][i].published <=> ~Unpublished(ring[b][i].entry)'
      <4>1. CASE i \in DOMAIN ring[b]
        BY <1>8, <2>0, <2>1, <2>6, <3>2, <4>1 DEF PlacedOf
      <4>2. CASE i = n + 1
        BY <1>9, <3>2, <4>2
      <4> QED BY <3>2, <4>1, <4>2
    <3>4. \A e \in InHand(b)' \cup InFile(b)' : ~Unpublished(e)'
      BY <1>4, <1>8, <2>0, <2>2, <2>6 DEF PlacedOf
    <3> QED BY <1>1, <2>3, <2>6, <3>1, <3>3, <3>4 DEF PlacedOf
  <2> QED BY <2>5, <2>6
<1>11. ASSUME NEW q \in Writers, NEW a \in Logs, LogOf(q) = a PROVE FoundOf(q, a)'
  <2>0. FoundOf(q, a) BY <1>11 DEF FoundInv
  <2>1. Placed(a) \subseteq Placed(a)' BY <1>7
  <2>2. CASE q # p BY <1>1, <1>3, <2>0, <2>1, <2>2 DEF FoundOf
  <2>3. CASE q = p
    <3>1. a = b BY <1>11, <1>b, <2>3
    <3>2. \A e \in accepted : e[1] = p => e # Mine(p) BY <1>1, <2>0, <2>3 DEF FoundOf
    <3>3. Mine(p)' \in Placed(a)' BY <1>3, <1>7, <3>1
    <3> QED BY <1>1, <1>3, <2>0, <2>1, <2>3, <3>2, <3>3 DEF FoundOf
  <2> QED BY <2>2, <2>3
<1> QED BY <1>2, <1>3, <1>10, <1>11 DEF PlacedInv, FoundInv

LEMMA PlacePublish ==
    ASSUME TypeOK, HandInv, PlaceInv, NEW p \in Writers, Publish(p)
    PROVE  PlaceInv'
<1> USE DEF PlaceInv, logVars, wakeVars, writerVars, drainVars, stopVars, flushVars
<1>b. PICK b \in Logs : b = LogOf(p) BY LayoutIs
<1>0. b \in Logs /\ Mine(p) \in Entry /\ Mine(p)[1] = p BY LayoutIs DEF Mine
<1>1. /\ UNCHANGED <<layout, sent, hold, cpc, target, file, spc, accepted>>
      /\ ppc[p] = "publish" /\ ppc'[p] = "count"
      /\ \A q \in Writers : q # p => ppc'[q] = ppc[q]
  BY DEF Publish, To, TypeOK, WriterTypes
<1>2. HoldInv' BY <1>1 DEF HoldInv, Drainers, Service, Io, Stopper
<1>3. \A q \in Writers : LogOf(q)' = LogOf(q) /\ Mine(q)' = Mine(q) BY <1>1 DEF LogOf, Mine
<1>4. \A a \in Logs : InHand(a)' = InHand(a) /\ InFile(a)' = InFile(a)
  BY <1>1 DEF InHand, Holds, Drainers, Service, Io, Stopper, InFile
<1>5. \A a \in Logs : Placed(a)' = Placed(a)
  BY <1>0, <1>b, <1>4, PublishDoes DEF Placed
<1>6. ASSUME NEW e \in Entry PROVE Unpublished(e)' <=> Unpublished(e) /\ e # Mine(p)
  <2>1. e[1] \in Writers /\ (e = Mine(e[1]) <=> e[2] = sent[e[1]]) BY Hidden
  <2> QED BY <1>0, <1>b, <1>1, <1>3, <2>1 DEF Unpublished
<1>7. ASSUME NEW e \in Entry, NEW a \in Logs, Claimed(e, a) PROVE Claimed(e, a)'
  <2>1. e[1] \in Writers BY Hidden
  <2> QED BY <1>1, <1>3, <1>7, <2>1 DEF Claimed
<1>8. ASSUME NEW a \in Logs PROVE PlacedOf(a)'
  <2>0. PlacedOf(a) BY DEF PlacedInv
  <2>1. \A i \in DOMAIN ring[a] : ring[a][i].entry \in Placed(a) BY DEF InRing, Placed
  <2>2. InHand(a) \cup InFile(a) \subseteq Placed(a) BY DEF Placed
  <2>3. \A e \in Placed(a) : e \in Entry BY <2>0 DEF PlacedOf, Claimed
  <2>4. spc'[a] # "new" \/ a # b BY <1>0, <1>b, <1>1, <2>0 DEF PlacedOf
  <2>5. spc'[a] = "new" => ring'[a] = <<>> /\ \A q \in Writers : LogOf(q)' = a => ppc'[q] = "idle"
    BY <1>0, <1>b, <1>1, <1>3, <2>0, <2>4, PublishDoes DEF PlacedOf
  <2>6. \A e \in Placed(a)' : Claimed(e, a)' BY <1>5, <1>7, <2>0, <2>3 DEF PlacedOf
  <2>7. \A e \in InHand(a)' \cup InFile(a)' : ~Unpublished(e)' BY <1>4, <1>6, <2>0, <2>2, <2>3 DEF PlacedOf
  <2>8. ASSUME NEW i \in DOMAIN ring'[a]
        PROVE  ring'[a][i].published <=> ~Unpublished(ring[a][i].entry)'
    <3>1. /\ i \in DOMAIN ring[a] /\ ring'[a][i].entry = ring[a][i].entry
          /\ (a = b => (ring'[a][i].published <=> (ring[a][i].entry = Mine(p) \/ ring[a][i].published)))
          /\ (a # b => ring'[a][i].published = ring[a][i].published)
      BY <1>0, <1>b, PublishDoes
    <3>2. ring[a][i].entry \in Entry /\ ring'[a][i].entry \in Entry BY <2>1, <2>3, <3>1
    <3>3. ring[a][i].published <=> ~Unpublished(ring[a][i].entry) BY <2>0, <3>1 DEF PlacedOf
    <3>4. a # b => ring[a][i].entry # Mine(p)
      BY <1>0, <1>b, <2>0, <2>1, <3>1 DEF PlacedOf, Claimed
    <3>5. \A e \in Entry : e = ring'[a][i].entry =>
                                    (Unpublished(e)' <=> Unpublished(e) /\ e # Mine(p))
      BY <1>6
    <3> QED BY <3>1, <3>2, <3>3, <3>4, <3>5
  <2> QED BY <2>5, <2>6, <2>7, <2>8 DEF PlacedOf
<1>9. ASSUME NEW q \in Writers, NEW a \in Logs, LogOf(q) = a PROVE FoundOf(q, a)'
  <2>0. FoundOf(q, a) BY <1>9 DEF FoundInv
  <2> QED BY <1>1, <1>3, <1>5, <2>0 DEF FoundOf
<1> QED BY <1>2, <1>3, <1>8, <1>9 DEF PlacedInv, FoundInv


\* Taking an entry out of a ring or writing one to a file moves it.
LEMMA PlaceMove ==
    ASSUME TypeOK, HandInv, PlaceInv, NEW c \in Drainers, Pop(c) \/ Write(c), NEW b \in Logs, b = target[c]
    PROVE  /\ PlaceInv'
           /\ \A a \in Logs : Placed(a)' = Placed(a)
           /\ UNCHANGED <<layout, ppc, sent, accepted, spc, target>>
           /\ \A q \in Writers : LogOf(q)' = LogOf(q) /\ Mine(q)' = Mine(q)
<1> USE DEF PlaceInv, ringVars, logVars, wakeVars, writerVars, stopVars, flushVars
<1>1. UNCHANGED <<layout, ppc, sent, accepted, spc, target>>
  BY DEF Pop, Write
<1>2. \A q \in Writers : LogOf(q)' = LogOf(q) /\ Mine(q)' = Mine(q) BY <1>1 DEF LogOf, Mine
<1>3. \A e \in Entry : Unpublished(e)' <=> Unpublished(e) BY <1>1, <1>2, Hidden DEF Unpublished
<1>4. \A a \in Logs, e \in Entry : Claimed(e, a)' <=> Claimed(e, a) BY <1>1, <1>2, Hidden DEF Claimed
<1>5. \A a \in Logs : \A e \in Placed(a) : e \in Entry BY DEF PlacedInv, PlacedOf, Claimed
<1>6. /\ HoldInv'
      /\ \A a \in Logs : Placed(a)' = Placed(a)
      /\ \A a \in Logs : \A e \in InHand(a)' \cup InFile(a)' : ~Unpublished(e)
      /\ \A a \in Logs : \A i \in DOMAIN ring'[a] :
            \E j \in DOMAIN ring[a] : ring'[a][i] = ring[a][j]
      /\ \A a \in Logs : ring[a] = <<>> => ring'[a] = <<>>
  <2>0. \A a \in Logs : PlacedOf(a) BY DEF PlacedInv
  <2>1. CASE Pop(c)
    <3> DEFINE n == Len(ring[b])
    <3>1. /\ n \in Nat \ {0} /\ DOMAIN ring[b] = 1 .. n
          /\ DOMAIN ring'[b] = 1 .. n - 1
          /\ \A i \in 1 .. n - 1 : ring'[b][i] = ring[b][i + 1]
          /\ ring[b][1].published
          /\ InRing(b) = InRing(b)' \cup {ring[b][1].entry}
          /\ InHand(b) = {} /\ InHand(b)' = {ring[b][1].entry}
          /\ \A a \in Logs : a # b => ring'[a] = ring[a] /\ InHand(a)' = InHand(a)
          /\ cpc'[c] = "count" /\ hold'[c] = ring[b][1].entry /\ hold'[c] \in Entry
          /\ \A d \in Drainers : d # c => cpc'[d] = cpc[d] /\ hold'[d] = hold[d]
      BY <2>1, PopDoes
    <3>2. \A a \in Logs : InFile(a)' = InFile(a) BY <2>1 DEF Pop, InFile
    <3>3. \A e \in Entry : e # NoEntry
      <4>1. \A p \in Writers, k \in Nat : <<p, k>> # <<>> OBVIOUS
      <4>2. \A e \in Entry : \E p \in Writers, k \in Nat : e = <<p, k>> BY DEF Entry
      <4> QED BY <4>1, <4>2 DEF NoEntry
    <3>4. HoldInv'
      <4>1. Drainers' = Drainers BY DEF Drainers, Service, Io, Stopper
      <4> QED BY <3>1, <3>3, <4>1 DEF HoldInv
    <3>5. \A a \in Logs : a # b => InRing(a)' = InRing(a) BY <3>1 DEF InRing
    <3>6. \A a \in Logs : Placed(a)' = Placed(a) BY <3>1, <3>2, <3>5 DEF Placed
    <3>7. 1 \in DOMAIN ring[b] /\ ~Unpublished(ring[b][1].entry) BY <2>0, <3>1 DEF PlacedOf
    <3>8. \A a \in Logs : \A e \in InHand(a)' \cup InFile(a)' : ~Unpublished(e)
      BY <2>0, <3>1, <3>2, <3>7 DEF PlacedOf
    <3>9. ring[b] # <<>> BY <3>7
    <3>10. \A i \in 1 .. n - 1 : i + 1 \in 1 .. n BY <3>1
    <3>11. \A a \in Logs : \A i \in DOMAIN ring'[a] :
              \E j \in DOMAIN ring[a] : ring'[a][i] = ring[a][j]
      <4>1. ASSUME NEW i \in DOMAIN ring'[b] PROVE \E j \in DOMAIN ring[b] : ring'[b][i] = ring[b][j]
        <5>1. i \in 1 .. n - 1 /\ i + 1 \in DOMAIN ring[b] BY <3>1, <3>10
        <5>2. ring'[b][i] = ring[b][i + 1] BY <3>1, <5>1
        <5> QED BY <5>1, <5>2
      <4>2. ASSUME NEW a \in Logs, a # b, NEW i \in DOMAIN ring'[a]
            PROVE  \E j \in DOMAIN ring[a] : ring'[a][i] = ring[a][j]
        <5>1. i \in DOMAIN ring[a] /\ ring'[a][i] = ring[a][i] BY <3>1, <4>2
        <5> QED BY <5>1
      <4> QED BY <4>1, <4>2
    <3> QED BY <3>1, <3>4, <3>6, <3>8, <3>9, <3>11
  <2>2. CASE Write(c)
    <3>1. /\ hold[c] \in Entry /\ InHand(b) = {hold[c]} /\ InHand(b)' = {}
          /\ InFile(b)' = InFile(b) \cup {hold[c]}
          /\ \A a \in Logs : a # b => file'[a] = file[a] /\ InHand(a)' = InHand(a)
          /\ hold'[c] = NoEntry /\ cpc'[c] = "pop"
          /\ \A d \in Drainers : d # c => cpc'[d] = cpc[d] /\ hold'[d] = hold[d]
      BY <2>2, WriteDoes
    <3>2. ring' = ring BY <2>2 DEF Write
    <3>3. \A a \in Logs : InRing(a)' = InRing(a) BY <3>2 DEF InRing
    <3>4. HoldInv'
      <4>1. Drainers' = Drainers BY DEF Drainers, Service, Io, Stopper
      <4> QED BY <3>1, <4>1 DEF HoldInv
    <3>5. \A a \in Logs : a # b => InFile(a)' = InFile(a) BY <3>1 DEF InFile
    <3>6. \A a \in Logs : Placed(a)' = Placed(a) BY <3>1, <3>3, <3>5 DEF Placed
    <3>7. \A a \in Logs : \A e \in InHand(a)' \cup InFile(a)' : ~Unpublished(e)
      BY <2>0, <3>1, <3>5 DEF PlacedOf
    <3> QED BY <3>2, <3>4, <3>6, <3>7
  <2> QED BY <2>1, <2>2
<1>7. ASSUME NEW a \in Logs PROVE PlacedOf(a)'
  <2>0. PlacedOf(a) BY DEF PlacedInv
  <2>1. \A i \in DOMAIN ring[a] : ring[a][i].entry \in Placed(a) BY DEF InRing, Placed
  <2>2. InHand(a)' \cup InFile(a)' \subseteq Placed(a)' BY DEF Placed
  <2>3. \A e \in Placed(a)' : Claimed(e, a)' BY <1>4, <1>5, <1>6, <2>0 DEF PlacedOf
  <2>4. \A e \in InHand(a)' \cup InFile(a)' : ~Unpublished(e)' BY <1>3, <1>5, <1>6, <2>2
  <2>5. ASSUME NEW i \in DOMAIN ring'[a]
        PROVE  ring'[a][i].published <=> ~Unpublished(ring[a][i].entry)'
    <3>1. PICK j \in DOMAIN ring[a] : ring'[a][i] = ring[a][j] BY <1>6
    <3>2. ring'[a][i].entry \in Entry BY <1>5, <2>1, <3>1
    <3>3. ring'[a][i].published <=> ~Unpublished(ring'[a][i].entry) BY <2>0, <3>1 DEF PlacedOf
    <3> QED BY <1>3, <3>2, <3>3
  <2>6. spc'[a] = "new" => ring'[a] = <<>> /\ \A q \in Writers : LogOf(q)' = a => ppc'[q] = "idle"
    BY <1>1, <1>2, <1>6, <2>0 DEF PlacedOf
  <2> QED BY <2>3, <2>4, <2>5, <2>6 DEF PlacedOf
<1>8. ASSUME NEW q \in Writers, NEW a \in Logs, LogOf(q) = a PROVE FoundOf(q, a)'
  <2>0. FoundOf(q, a) BY <1>8 DEF FoundInv
  <2> QED BY <1>1, <1>2, <1>6, <2>0 DEF FoundOf
<1> QED BY <1>1, <1>2, <1>6, <1>7, <1>8 DEF PlacedInv, FoundInv


LEMMA StillAll ==
    ASSUME TypeOK, HandInv, PlaceInv,
           \/ SweepStep \/ FlushStep \/ UNCHANGED vars
           \/ \E b \in Logs : Start(b) \/ IoStep(b) \/ StopStep(b)
           \/ \E c \in Drainers : Uncount(c)
    PROVE  /\ PlaceInv' /\ UNCHANGED <<ring, file>>
           /\ \A b \in Logs : InRing(b)' = InRing(b) /\ InHand(b)' = InHand(b) /\ InFile(b)' = InFile(b)
<1> USE DEF logVars, wakeVars, writerVars, drainVars, stopVars, flushVars
<1>1. ASSUME NEW c \in Drainers, Uncount(c)
      PROVE  /\ UNCHANGED <<layout, ring, ppc, sent, hold, accepted, file>>
             /\ \A d \in Drainers : cpc[d] \in {"count", "write"} \/ cpc'[d] \in {"count", "write"} =>
                                 /\ target'[d] = target[d]
                                 /\ cpc[d] \in {"count", "write"} /\ cpc'[d] \in {"count", "write"}
             /\ \A b \in Logs : spc'[b] = "new" => spc[b] = "new"
  BY <1>1 DEF Uncount, Goes, TypeOK, DrainTypes
<1>2. CASE \E c \in Drainers : Uncount(c)
  <2>1. /\ UNCHANGED <<layout, ring, ppc, sent, hold, accepted, file>>
        /\ \A d \in Drainers : cpc[d] \in {"count", "write"} \/ cpc'[d] \in {"count", "write"} =>
                                 /\ target'[d] = target[d]
                                 /\ cpc[d] \in {"count", "write"} /\ cpc'[d] \in {"count", "write"}
        /\ \A b \in Logs : spc'[b] = "new" => spc[b] = "new"
    BY <1>1, <1>2
  <2> QED BY <2>1, PlaceStill
<1>3. CASE ~ \E c \in Drainers : Uncount(c)
  <2>1. UNCHANGED Shared BY <1>3, Elsewhere
  <2>2. UNCHANGED <<layout, ring, ppc, sent, hold, accepted, file>> BY <2>1 DEF Shared
  <2>3. /\ \A d \in Drainers : cpc[d] \in {"count", "write"} \/ cpc'[d] \in {"count", "write"} =>
                                 /\ target'[d] = target[d]
                                 /\ cpc[d] \in {"count", "write"} /\ cpc'[d] \in {"count", "write"}
        /\ \A b \in Logs : spc'[b] = "new" => spc[b] = "new"
    BY <1>3, HandsStill
  <2> QED BY <2>2, <2>3, PlaceStill
<1> QED BY <1>2, <1>3

LEMMA PlaceStep == ASSUME TypeOK, HandInv, PlaceInv, [Next]_vars PROVE PlaceInv'
<1>1. ASSUME NEW p \in Writers, TryLog(p) PROVE PlaceInv'
  BY <1>1, PlaceTalk, PlaceClaim, PlacePublish DEF TryLog, Talk
<1>2. ASSUME NEW c \in Drainers, Pop(c) \/ Write(c) PROVE PlaceInv'
  <2>1. target[c] \in Logs BY <1>2, AtLog DEF Pop, Write, Draining
  <2> QED BY <1>2, <2>1, PlaceMove
<1> QED BY <1>1, <1>2, Steps, StillAll DEF Drain

----------------------------------------------------------------------------
(* The order of the entries.                                               *)

LEMMA OrderKept ==
    ASSUME OrderInv, UNCHANGED <<ring, file>>,
           \A b \in Logs : InRing(b)' = InRing(b) /\ InHand(b)' = InHand(b) /\ InFile(b)' = InFile(b)
    PROVE  OrderInv'
  BY DEF OrderInv, OrderOf, Later

LEMMA OrderClaim ==
    ASSUME TypeOK, HandInv, PlaceInv, OrderInv, NEW p \in Writers, Claim(p), ~UNCHANGED ring
    PROVE  OrderInv'
<1>b. PICK b \in Logs : b = LogOf(p) BY LayoutIs
<1>1. ASSUME NEW e \in Placed(b) PROVE Later(e, Mine(p))
  <2>1. Claimed(e, b) BY DEF PlaceInv, PlacedInv, PlacedOf
  <2>2. Mine(p)[1] = p /\ Mine(p)[2] = sent[p] BY DEF Mine
  <2>3. ppc[p] = "claim" /\ sent[p] \in Nat BY DEF Claim, TypeOK, WriterTypes
  <2> QED BY <2>1, <2>2, <2>3 DEF Claimed, Later
<1>2. UNCHANGED <<hold, cpc, target, file>> BY DEF Claim, drainVars
<1>3. \A a \in Logs : InHand(a)' = InHand(a) /\ InFile(a)' = InFile(a)
  BY <1>2 DEF InHand, Holds, Drainers, Service, Io, Stopper, InFile
<1> DEFINE n == Len(ring[b])
<1>4. /\ n \in Nat /\ DOMAIN ring[b] = 1 .. n /\ DOMAIN ring'[b] = 1 .. n + 1
      /\ \A i \in 1 .. n : ring'[b][i] = ring[b][i]
      /\ ring'[b][n + 1].entry = Mine(p)
      /\ \A a \in Logs : a # b => ring'[a] = ring[a]
      /\ InRing(b)' = InRing(b) \cup {Mine(p)}
  BY <1>b, ClaimDoes
<1>5. \A a \in Logs : a # b => InRing(a)' = InRing(a) BY <1>4 DEF InRing
<1>6. ASSUME NEW a \in Logs PROVE OrderOf(a)'
  <2>0. OrderOf(a) BY DEF OrderInv
  <2>1. CASE a # b BY <1>2, <1>3, <1>4, <1>5, <2>0, <2>1 DEF OrderOf, Later
  <2>2. CASE a = b
    <3>1. ASSUME NEW i \in DOMAIN ring'[b], NEW j \in DOMAIN ring'[b], i < j
          PROVE  Later(ring'[b][i].entry, ring'[b][j].entry)
      <4>1. i \in DOMAIN ring[b] /\ ring'[b][i] = ring[b][i] BY <1>4, <3>1
      <4>2. ring[b][i].entry \in Placed(b) BY <4>1 DEF Placed, InRing
      <4>3. CASE j \in DOMAIN ring[b]
        <5>1. ring'[b][j] = ring[b][j] BY <1>4, <4>3
        <5> QED BY <2>0, <2>2, <3>1, <4>1, <4>3, <5>1 DEF OrderOf
      <4>4. CASE j = n + 1 BY <1>1, <1>4, <4>1, <4>2, <4>4
      <4> QED BY <1>4, <4>3, <4>4
    <3>2. \A e \in InFile(b) \cup InHand(b) : Later(e, Mine(p)) BY <1>1 DEF Placed
    <3>3. \A e \in InFile(b)', f \in InHand(b)' \cup InRing(b)' : Later(e, f)
      BY <1>3, <1>4, <2>0, <2>2, <3>2 DEF OrderOf
    <3>4. \A e \in InHand(b)', f \in InRing(b)' : Later(e, f)
      BY <1>3, <1>4, <2>0, <2>2, <3>2 DEF OrderOf
    <3>5. \A i, j \in DOMAIN file'[b] : i < j => Later(file'[b][i], file'[b][j])
      BY <1>2, <2>0, <2>2 DEF OrderOf
    <3> QED BY <2>2, <3>1, <3>3, <3>4, <3>5 DEF OrderOf, Later
  <2> QED BY <2>1, <2>2
<1> QED BY <1>6 DEF OrderInv

LEMMA OrderPublish ==
    ASSUME TypeOK, OrderInv, NEW p \in Writers, Publish(p)
    PROVE  OrderInv'
<1>b. PICK b \in Logs : b = LogOf(p) BY LayoutIs
<1>1. UNCHANGED <<hold, cpc, target, file>> BY DEF Publish, drainVars
<1>2. \A a \in Logs : InHand(a)' = InHand(a) /\ InFile(a)' = InFile(a)
  BY <1>1 DEF InHand, Holds, Drainers, Service, Io, Stopper, InFile
<1>3. \A a \in Logs : /\ DOMAIN ring'[a] = DOMAIN ring[a] /\ InRing(a)' = InRing(a)
                      /\ \A i \in DOMAIN ring[a] : ring'[a][i].entry = ring[a][i].entry
  BY <1>b, PublishDoes
<1>4. ASSUME NEW a \in Logs PROVE OrderOf(a)'
  BY <1>1, <1>2, <1>3 DEF OrderInv, OrderOf, Later
<1> QED BY <1>4 DEF OrderInv

LEMMA OrderPop ==
    ASSUME TypeOK, HandInv, PlaceInv, OrderInv, NEW c \in Drainers, Pop(c)
    PROVE  OrderInv'
<1>b. PICK b \in Logs : b = target[c] BY AtLog DEF Pop, Draining
<1>1. \A a \in Logs : InFile(a)' = InFile(a) /\ file' = file BY DEF Pop, InFile
<1> DEFINE n == Len(ring[b])
<1>2. /\ n \in Nat \ {0} /\ DOMAIN ring[b] = 1 .. n /\ DOMAIN ring'[b] = 1 .. n - 1
      /\ \A i \in 1 .. n - 1 : ring'[b][i] = ring[b][i + 1]
      /\ InRing(b) = InRing(b)' \cup {ring[b][1].entry}
      /\ InHand(b)' = {ring[b][1].entry}
      /\ \A a \in Logs : a # b => ring'[a] = ring[a] /\ InHand(a)' = InHand(a)
  BY <1>b, PopDoes DEF PlaceInv
<1>3. \A a \in Logs : a # b => InRing(a)' = InRing(a) BY <1>2 DEF InRing
<1>4. ASSUME NEW a \in Logs PROVE OrderOf(a)'
  <2>0. OrderOf(a) BY DEF OrderInv
  <2>1. CASE a # b BY <1>1, <1>2, <1>3, <2>0, <2>1 DEF OrderOf, Later
  <2>2. CASE a = b
    <3>1. ASSUME NEW i \in DOMAIN ring'[b], NEW j \in DOMAIN ring'[b], i < j
          PROVE  Later(ring'[b][i].entry, ring'[b][j].entry)
      <4>1. /\ i + 1 \in DOMAIN ring[b] /\ j + 1 \in DOMAIN ring[b] /\ i + 1 < j + 1
            /\ ring'[b][i] = ring[b][i + 1] /\ ring'[b][j] = ring[b][j + 1]
        <5>1. i \in 1 .. n - 1 /\ j \in 1 .. n - 1 BY <1>2, <3>1
        <5>2. i + 1 \in 1 .. n /\ j + 1 \in 1 .. n /\ i + 1 < j + 1 BY <1>2, <3>1, <5>1
        <5> QED BY <1>2, <5>1, <5>2
      <4> QED BY <2>0, <2>2, <4>1 DEF OrderOf
    <3>2. \A e \in InFile(b)', f \in InHand(b)' \cup InRing(b)' : Later(e, f)
      BY <1>1, <1>2, <2>0, <2>2 DEF OrderOf
    <3>3. ASSUME NEW f \in InRing(b)' PROVE Later(ring[b][1].entry, f)
      <4>1. PICK j \in DOMAIN ring'[b] : f = ring'[b][j].entry BY DEF InRing
      <4>2. 1 \in DOMAIN ring[b] /\ j + 1 \in DOMAIN ring[b] /\ 1 < j + 1 /\ ring'[b][j] = ring[b][j + 1]
        BY <1>2, <4>1
      <4> QED BY <2>0, <2>2, <4>1, <4>2 DEF OrderOf
    <3>4. \A e \in InHand(b)', f \in InRing(b)' : Later(e, f) BY <1>2, <3>3
    <3>5. \A i, j \in DOMAIN file'[b] : i < j => Later(file'[b][i], file'[b][j])
      BY <1>1, <2>0, <2>2 DEF OrderOf
    <3> QED BY <2>2, <3>1, <3>2, <3>4, <3>5 DEF OrderOf, Later
  <2> QED BY <2>1, <2>2
<1> QED BY <1>4 DEF OrderInv

LEMMA OrderWrite ==
    ASSUME TypeOK, HandInv, PlaceInv, OrderInv, NEW c \in Drainers, Write(c)
    PROVE  OrderInv'
<1>b. PICK b \in Logs : b = target[c] BY AtLog DEF Write, Draining
<1>1. ring' = ring /\ \A a \in Logs : InRing(a)' = InRing(a) BY DEF Write, ringVars, InRing
<1> DEFINE n == Len(file[b])
<1>2. /\ n \in Nat /\ DOMAIN file[b] = 1 .. n /\ DOMAIN file'[b] = 1 .. n + 1
      /\ InHand(b) = {hold[c]} /\ InHand(b)' = {}
      /\ \A i \in 1 .. n : file'[b][i] = file[b][i]
      /\ file'[b][n + 1] = hold[c]
      /\ InFile(b)' = InFile(b) \cup {hold[c]}
      /\ \A a \in Logs : a # b => file'[a] = file[a] /\ InHand(a)' = InHand(a)
  BY <1>b, WriteDoes DEF PlaceInv
<1>3. \A a \in Logs : a # b => InFile(a)' = InFile(a) BY <1>2 DEF InFile
<1>4. \A i \in DOMAIN file[b] : file[b][i] \in InFile(b) BY DEF InFile, ToSet
<1>5. ASSUME NEW a \in Logs PROVE OrderOf(a)'
  <2>0. OrderOf(a) BY DEF OrderInv
  <2>1. CASE a # b BY <1>1, <1>2, <1>3, <2>0, <2>1 DEF OrderOf, Later
  <2>2. CASE a = b
    <3>1. ASSUME NEW i \in DOMAIN file'[b], NEW j \in DOMAIN file'[b], i < j
          PROVE  Later(file'[b][i], file'[b][j])
      <4>1. i \in DOMAIN file[b] /\ file'[b][i] = file[b][i] BY <1>2, <3>1
      <4>2. CASE j \in DOMAIN file[b]
        <5>1. file'[b][j] = file[b][j] BY <1>2, <4>2
        <5> QED BY <2>0, <2>2, <3>1, <4>1, <4>2, <5>1 DEF OrderOf
      <4>3. CASE j = n + 1
        <5>1. file[b][i] \in InFile(b) BY <1>4, <4>1
        <5> QED BY <1>2, <2>0, <2>2, <4>1, <4>3, <5>1 DEF OrderOf
      <4> QED BY <1>2, <4>2, <4>3
    <3>2. \A e \in InFile(b)', f \in InHand(b)' \cup InRing(b)' : Later(e, f)
      <4>1. \A e \in InFile(b), f \in InRing(b) : Later(e, f) BY <2>0, <2>2 DEF OrderOf
      <4>2. \A f \in InRing(b) : Later(hold[c], f) BY <1>2, <2>0, <2>2 DEF OrderOf
      <4> QED BY <1>1, <1>2, <4>1, <4>2
    <3>3. \A e \in InHand(b)', f \in InRing(b)' : Later(e, f) BY <1>2
    <3>4. \A i, j \in DOMAIN ring'[b] : i < j => Later(ring'[b][i].entry, ring'[b][j].entry)
      BY <1>1, <2>0, <2>2 DEF OrderOf
    <3> QED BY <2>2, <3>1, <3>2, <3>3, <3>4 DEF OrderOf, Later
  <2> QED BY <2>1, <2>2
<1> QED BY <1>5 DEF OrderInv

LEMMA OrderStep == ASSUME TypeOK, HandInv, PlaceInv, OrderInv, [Next]_vars PROVE OrderInv'
<1>1. ASSUME NEW p \in Writers, TryLog(p) PROVE OrderInv'
  <2>1. CASE Talk(p)
    <3>1. UNCHANGED <<ring, file, hold, cpc, target>> BY <2>1, TalkDoes
    <3>2. \A b \in Logs : InRing(b)' = InRing(b) /\ InHand(b)' = InHand(b) /\ InFile(b)' = InFile(b)
      BY <3>1, PlacesKept DEF Holds
    <3> QED BY <3>1, <3>2, OrderKept
  <2> QED BY <1>1, <2>1, OrderClaim, OrderPublish DEF TryLog, Talk
<1>2. ASSUME NEW c \in Drainers, Pop(c) \/ Write(c) PROVE OrderInv'
  BY <1>2, OrderPop, OrderWrite
<1> QED BY <1>1, <1>2, Steps, StillAll, OrderKept DEF Drain


----------------------------------------------------------------------------
(* The depth.                                                              *)

LEMMA Counts ==
    ASSUME NEW x \in Int, 0 - Width < x, x < Width
    PROVE  /\ x + 1 < Width => (AsDepth(x) + 1) % Width = AsDepth(x + 1)
           /\ 0 - Width < x - 1 => Lowered(AsDepth(x)) = AsDepth(x - 1)
<1>0. Width \in Nat BY LogAssumption
<1>1. ASSUME x + 1 < Width PROVE (AsDepth(x) + 1) % Width = AsDepth(x + 1)
  <2>1. CASE x >= 0
    <3>1. x + 1 \in Int /\ 0 <= x + 1 /\ x + 1 < Width BY <1>1, <2>1
    <3>2. (x + 1) % Width = x + 1 BY <3>1, Wraps
    <3> QED BY <2>1, <3>1, <3>2 DEF AsDepth
  <2>2. CASE x = 0 - 1
    <3>1. (0 + Width) % Width = 0 BY <1>0, <1>1, Wraps
    <3>2. AsDepth(x) + 1 = 0 + Width BY <1>0, <2>2 DEF AsDepth
    <3>3. AsDepth(x + 1) = 0 BY <2>2 DEF AsDepth
    <3> QED BY <3>1, <3>2, <3>3
  <2>3. CASE x < 0 - 1
    <3> DEFINE y == x + 1 + Width
    <3>1. y \in Int /\ 0 <= y /\ y < Width BY <1>0, <2>3
    <3>2. AsDepth(x) + 1 = y /\ AsDepth(x + 1) = y BY <1>0, <2>3 DEF AsDepth
    <3> HIDE DEF y
    <3>3. y % Width = y BY <3>1, Wraps
    <3> QED BY <3>2, <3>3
  <2> QED BY <2>1, <2>2, <2>3
<1>2. ASSUME 0 - Width < x - 1 PROVE Lowered(AsDepth(x)) = AsDepth(x - 1)
  <2> DEFINE y == AsDepth(x - 1)
  <2>1. y \in Int /\ 0 <= y /\ y < Width BY <1>0, <1>2 DEF AsDepth
  <2>2. (y + Width) % Width = y /\ y % Width = y
    <3> HIDE DEF y
    <3> QED BY <2>1, Wraps
  <2>3. AsDepth(x) + Width - 1 = y + Width \/ AsDepth(x) + Width - 1 = y
    BY <1>0 DEF AsDepth
  <2> HIDE DEF y
  <2>4. Lowered(AsDepth(x)) = y BY <2>2, <2>3 DEF Lowered
  <2> QED BY <2>4 DEF y
<1> QED BY <1>1, <1>2

LEMMA Bounds ==
    ASSUME TypeOK, NEW b \in Logs
    PROVE  /\ IsFiniteSet(Uncounted(b)) /\ Cardinality(Uncounted(b)) \in Nat
           /\ Len(ring[b]) \in Nat /\ Taken(b) \in {0, 1}
           /\ Balance(b) \in Int
           /\ 0 - Width < Balance(b)
           /\ Writers # {} => Balance(b) < Width /\ Len(ring[b]) + Taken(b) < Width
<1>1. Uncounted(b) \in SUBSET Writers BY DEF Uncounted
<1>2. /\ IsFiniteSet(Uncounted(b)) /\ Cardinality(Uncounted(b)) \in Nat
      /\ Cardinality(Uncounted(b)) <= Cardinality(Writers) /\ Cardinality(Writers) \in Nat
  BY <1>1, LogAssumption, FS_Subset, FS_CardinalityType
<1>3. Writers # {} => Cardinality(Writers) >= 1
  <2>1. Cardinality(Writers) = 0 <=> Writers = {} BY LogAssumption, FS_EmptySet
  <2> QED BY <1>2, <2>1
<1>4. Len(ring[b]) \in Nat /\ Len(ring[b]) <= Cap
  <2>1. ring[b] \in Seq(Cells) BY DEF TypeOK, EntryTypes, Cells
  <2> QED BY <2>1, SeqFacts DEF TypeOK, EntryTypes
<1>5. Taken(b) \in {0, 1} BY DEF Taken
<1>6. Cap \in Nat /\ Width \in Nat /\ Width > Cap + Cardinality(Writers) BY LogAssumption
<1> DEFINE u == Cardinality(Uncounted(b)) l == Len(ring[b]) w == Cardinality(Writers) t == Taken(b)
<1>7. Balance(b) = l + t - u BY DEF Balance
<1> HIDE DEF u, l, w, t
<1>8. u \in Nat /\ l \in Nat /\ w \in Nat /\ t \in {0, 1} /\ u <= w /\ l <= Cap /\ Width > Cap + w
      /\ (Writers # {} => w >= 1)
  BY <1>2, <1>3, <1>4, <1>5, <1>6 DEF u, l, w, t
<1>9. l + t - u \in Int /\ 0 - Width < l + t - u /\ (Writers # {} => l + t - u < Width /\ l + t < Width)
  BY <1>6, <1>8
<1> QED BY <1>2, <1>4, <1>5, <1>7, <1>9 DEF l, t

LEMMA DepthKept ==
    ASSUME DepthInv, UNCHANGED depth,
           \A b \in Logs : Balance(b)' = Balance(b)
    PROVE  DepthInv'
  BY DEF DepthInv, AsDepth

LEMMA TakenKept ==
    ASSUME UNCHANGED <<cpc, target>>
    PROVE  \A b \in Logs : Taken(b)' = Taken(b)
  BY DEF Taken, Drainers, Service, Io, Stopper

LEMMA DepthWriter ==
    ASSUME TypeOK, DepthInv, [Next]_vars, NEW p \in Writers, TryLog(p)
    PROVE  DepthInv'
<1> USE DEF logVars, wakeVars, writerVars, drainVars, stopVars, flushVars
<1>b. PICK b \in Logs : b = LogOf(p) BY LayoutIs
<1>1. \A q \in Writers : LogOf(q)' = LogOf(q) BY Constant
<1>2. UNCHANGED <<cpc, target>>
  BY DEF TryLog, CheckRunning, CheckDepth, Claim, Publish, Count, Notify
<1>3. \A a \in Logs : Taken(a)' = Taken(a) BY <1>2, TakenKept
<1>4. /\ ppc \in [Writers -> {"idle", "depth", "claim", "publish", "count", "notify"}]
      /\ \A q \in Writers : q # p => ppc'[q] = ppc[q]
  BY DEF TypeOK, WriterTypes, TryLog, CheckRunning, CheckDepth, Claim, Publish, Count, Notify, To
<1>5. \A a \in Logs : a # b => Uncounted(a)' = Uncounted(a)
  BY <1>1, <1>4, <1>b DEF Uncounted
<1>6. CASE Talk(p) /\ ~Count(p)
  <2>1. ppc[p] \notin {"publish", "count"} /\ ppc'[p] \notin {"publish", "count"} /\ ring' = ring
    <3>1. ppc[p] # "count" BY <1>6 DEF Talk, CheckRunning, CheckDepth, Claim, Notify
    <3> QED BY <1>6, <3>1, TalkDoes
  <2>2. \A a \in Logs : Uncounted(a)' = Uncounted(a) BY <1>1, <1>4, <2>1 DEF Uncounted
  <2>3. \A a \in Logs : Balance(a)' = Balance(a) BY <1>3, <2>1, <2>2 DEF Balance
  <2>4. depth' = depth BY <1>6 DEF Talk, CheckRunning, CheckDepth, Claim, Notify, ringVars
  <2> QED BY <2>3, <2>4, DepthKept
<1>7. CASE Publish(p)
  <2>1. \A a \in Logs : Len(ring'[a]) = Len(ring[a]) BY <1>7, <1>b, PublishDoes
  <2>2. ppc[p] = "publish" /\ ppc'[p] = "count" /\ depth' = depth BY <1>4, <1>7 DEF Publish, To
  <2>3. \A a \in Logs : Uncounted(a)' = Uncounted(a) BY <1>1, <1>4, <2>2 DEF Uncounted
  <2>4. \A a \in Logs : Balance(a)' = Balance(a) BY <1>3, <2>1, <2>3 DEF Balance
  <2> QED BY <2>2, <2>4, DepthKept
<1>8. CASE Claim(p) /\ ~UNCHANGED ring
  <2>1. /\ Len(ring'[b]) = Len(ring[b]) + 1 /\ \A a \in Logs : a # b => ring'[a] = ring[a]
    BY <1>8, <1>b, ClaimDoes
  <2>2. ppc[p] = "claim" /\ ppc'[p] = "publish" /\ depth' = depth BY <1>4, <1>8 DEF Claim, To
  <2>3. Uncounted(b)' = Uncounted(b) \cup {p} /\ p \notin Uncounted(b)
    BY <1>1, <1>4, <1>b, <2>2 DEF Uncounted
  <2>4. Cardinality(Uncounted(b)') = Cardinality(Uncounted(b)) + 1
    BY <2>3, Bounds, FS_AddElement
  <2>5. Len(ring[b]) \in Nat /\ Taken(b) \in Int /\ Cardinality(Uncounted(b)) \in Nat BY Bounds
  <2>6. Balance(b)' = Balance(b) BY <1>3, <2>1, <2>4, <2>5 DEF Balance
  <2>7. \A a \in Logs : a # b => Balance(a)' = Balance(a) BY <1>3, <1>5, <2>1 DEF Balance
  <2> QED BY <2>2, <2>6, <2>7, DepthKept
<1>9. CASE Count(p)
  <2>1. /\ ring' = ring /\ ppc[p] = "count" /\ ppc'[p] \notin {"publish", "count"}
        /\ depth' = [depth EXCEPT ![b] = (@ + 1) % Width]
    BY <1>4, <1>9, <1>b, TalkDoes DEF Count, Talk
  <2>2. Uncounted(b)' = Uncounted(b) \ {p} /\ p \in Uncounted(b)
    BY <1>1, <1>4, <1>b, <2>1 DEF Uncounted
  <2>3. Cardinality(Uncounted(b)') = Cardinality(Uncounted(b)) - 1
    BY <2>2, Bounds, FS_RemoveElement
  <2>4. Len(ring[b]) \in Nat /\ Taken(b) \in Int /\ Cardinality(Uncounted(b)) \in Nat BY Bounds
  <2>5. Balance(b)' = Balance(b) + 1 BY <1>3, <2>1, <2>3, <2>4 DEF Balance
  <2>6. /\ Balance(b) \in Int /\ 0 - Width < Balance(b) /\ Balance(b) < Width
        /\ Balance(b)' < Width
    <3>1. Balance(b)' < Width
      <4>1. Cardinality(Uncounted(b)) >= 1 BY <2>2, Bounds, FS_EmptySet
      <4>2. Len(ring[b]) + Taken(b) < Width /\ Width \in Nat BY Bounds, LogAssumption
      <4> QED BY <1>3, <2>1, <2>3, <2>4, <4>1, <4>2 DEF Balance
    <3> QED BY <3>1, Bounds
  <2>7. (AsDepth(Balance(b)) + 1) % Width = AsDepth(Balance(b) + 1) BY <2>5, <2>6, Counts
  <2>8. \A a \in Logs : a # b => Balance(a)' = Balance(a) /\ depth'[a] = depth[a]
    BY <1>3, <1>5, <2>1 DEF Balance, TypeOK, EntryTypes
  <2>9. depth'[b] = AsDepth(Balance(b) + 1) BY <2>1, <2>7 DEF DepthInv, TypeOK, EntryTypes
  <2> QED BY <2>5, <2>8, <2>9 DEF DepthInv, AsDepth
<1> QED BY <1>6, <1>7, <1>8, <1>9 DEF TryLog, Talk

LEMMA DepthDrainer ==
    ASSUME TypeOK, HandInv, PlaceInv, DepthInv, NEW c \in Drainers, Drain(c)
    PROVE  DepthInv'
<1> USE DEF logVars, wakeVars, writerVars, drainVars, stopVars, flushVars
<1>b. PICK b \in Logs : b = target[c] BY AtLog DEF Drain, Pop, Uncount, Write, Draining
<1>1. layout' = layout /\ ppc' = ppc /\ target' = target BY DEF Drain, Pop, Uncount, Write
<1>2. \A a \in Logs : Uncounted(a)' = Uncounted(a) BY <1>1 DEF Uncounted, LogOf
<1>3. /\ cpc[c] \in Draining
      /\ cpc \in [Drainers -> {"idle", "top", "slot", "pop", "count", "write", "park", "exit", "look"}]
      /\ \A d \in Drainers : d # c => cpc'[d] = cpc[d]
  BY DEF Drain, Pop, Uncount, Write, Draining, Goes, TypeOK, DrainTypes
<1>4. \A d \in Drainers : d # c /\ target[d] = b => cpc[d] # "count"
  BY <1>3, <1>b, OneDrainer DEF Draining
<1>5. Drainers' = Drainers BY DEF Drainers, Service, Io, Stopper
<1>6. Taken(b) = (IF cpc[c] = "count" THEN 1 ELSE 0) /\ Taken(b)' = (IF cpc'[c] = "count" THEN 1 ELSE 0)
  BY <1>1, <1>3, <1>4, <1>5, <1>b DEF Taken
<1>7. \A a \in Logs : a # b => Taken(a)' = Taken(a)
  BY <1>1, <1>3, <1>5, <1>b DEF Taken
<1>8. CASE Pop(c)
  <2>1. /\ Len(ring'[b]) = Len(ring[b]) - 1 /\ \A a \in Logs : a # b => ring'[a] = ring[a]
        /\ cpc'[c] = "count"
    BY <1>8, <1>b, PopDoes DEF PlaceInv
  <2>2. cpc[c] # "count" /\ depth' = depth BY <1>8 DEF Pop
  <2>3. Len(ring[b]) \in Nat /\ Cardinality(Uncounted(b)) \in Nat BY Bounds
  <2>4. Balance(b)' = Balance(b) BY <1>2, <1>6, <2>1, <2>2, <2>3 DEF Balance
  <2>5. \A a \in Logs : a # b => Balance(a)' = Balance(a) BY <1>2, <1>7, <2>1 DEF Balance
  <2> QED BY <2>2, <2>4, <2>5, DepthKept
<1>9. CASE Uncount(c)
  <2>1. /\ cpc[c] = "count" /\ cpc'[c] = "write" /\ ring' = ring
        /\ depth' = [depth EXCEPT ![b] = Lowered(@)]
    BY <1>3, <1>9, <1>b DEF Uncount, Goes
  <2>3. Len(ring[b]) \in Nat /\ Cardinality(Uncounted(b)) \in Nat BY Bounds
  <2>4. Balance(b)' = Balance(b) - 1 BY <1>2, <1>6, <2>1, <2>3 DEF Balance
  <2>5. Cardinality(Uncounted(b)) <= Cardinality(Writers) /\ Cardinality(Writers) \in Nat
    <3>1. Uncounted(b) \in SUBSET Writers BY DEF Uncounted
    <3> QED BY <3>1, LogAssumption, FS_Subset, FS_CardinalityType
  <2>6. /\ Balance(b) \in Int /\ 0 - Width < Balance(b) - 1 /\ 0 - Width < Balance(b) /\ Balance(b) < Width
    <3>1. Cap \in Nat \ {0} /\ Width \in Nat /\ Width > Cap + Cardinality(Writers) BY LogAssumption
    <3>2. Balance(b) = Len(ring[b]) + 1 - Cardinality(Uncounted(b)) BY <1>6, <2>1 DEF Balance
    <3>3. Len(ring[b]) <= Cap BY DEF TypeOK, EntryTypes
    <3>4. Writers # {} => Balance(b) < Width BY Bounds
    <3>5. Writers # {}
      <4>1. hold[c] \in Entry BY <2>1 DEF PlaceInv, HoldInv, TypeOK, DrainTypes
      <4> QED BY <4>1 DEF Entry
    <3> QED BY <2>3, <2>5, <3>1, <3>2, <3>4, <3>5
  <2>7. Lowered(AsDepth(Balance(b))) = AsDepth(Balance(b) - 1) BY <2>6, Counts
  <2>8. \A a \in Logs : a # b => Balance(a)' = Balance(a) /\ depth'[a] = depth[a]
    BY <1>2, <1>7, <2>1 DEF Balance, TypeOK, EntryTypes
  <2>9. depth'[b] = AsDepth(Balance(b) - 1) BY <2>1, <2>7 DEF DepthInv, TypeOK, EntryTypes
  <2> QED BY <2>4, <2>8, <2>9 DEF DepthInv, AsDepth
<1>10. CASE Write(c)
  <2>1. cpc[c] = "write" /\ cpc'[c] = "pop" /\ ring' = ring /\ depth' = depth
    BY <1>3, <1>10 DEF Write, Goes, ringVars
  <2>2. \A a \in Logs : Balance(a)' = Balance(a) BY <1>2, <1>6, <1>7, <2>1 DEF Balance
  <2> QED BY <2>1, <2>2, DepthKept
<1> QED BY <1>8, <1>9, <1>10 DEF Drain

LEMMA DepthElse ==
    ASSUME TypeOK, HandInv, DepthInv, [Next]_vars,
           \/ SweepStep \/ FlushStep \/ UNCHANGED vars
           \/ \E b \in Logs : Start(b) \/ IoStep(b) \/ StopStep(b)
    PROVE  DepthInv'
<1>1. UNCHANGED <<layout, ring, depth, ppc>> BY Elsewhere DEF Shared
<1>2. \A a \in Logs : Uncounted(a)' = Uncounted(a) BY <1>1 DEF Uncounted, LogOf
<1>3. \A c \in Drainers : cpc[c] = "count" \/ cpc'[c] = "count" => cpc'[c] = cpc[c] /\ target'[c] = target[c]
  BY HandsStill
<1>4. Drainers' = Drainers BY DEF Drainers, Service, Io, Stopper
<1>5. \A a \in Logs : Taken(a)' = Taken(a) BY <1>3, <1>4 DEF Taken
<1>6. \A a \in Logs : Balance(a)' = Balance(a) BY <1>1, <1>2, <1>5 DEF Balance
<1> QED BY <1>1, <1>6, DepthKept

LEMMA DepthStep == ASSUME TypeOK, HandInv, PlaceInv, DepthInv, [Next]_vars PROVE DepthInv'
  BY Steps, DepthWriter, DepthDrainer, DepthElse


----------------------------------------------------------------------------
(* Who writes a log, and what a depth of zero says.                        *)

LEMMA AtMostOne ==
    ASSUME NEW S, IsFiniteSet(S), Cardinality(S) <= 1, NEW x \in S, NEW y \in S
    PROVE  x = y
<1>1. SUFFICES ASSUME x # y PROVE FALSE OBVIOUS
<1>2. IsFiniteSet(S \ {x}) /\ Cardinality(S \ {x}) = Cardinality(S) - 1 BY FS_RemoveElement
<1>3. Cardinality(S) \in Nat /\ Cardinality(S \ {x}) \in Nat BY <1>2, FS_CardinalityType
<1>4. Cardinality(S \ {x}) = 0 BY <1>2, <1>3
<1>5. S \ {x} = {} BY <1>2, <1>4, FS_EmptySet
<1> QED BY <1>1, <1>5

LEMMA AtMostTwo ==
    ASSUME NEW S, IsFiniteSet(S), Cardinality(S) = 2, NEW x \in S, NEW y \in S, NEW z \in S, x # y
    PROVE  z = x \/ z = y
<1>1. SUFFICES ASSUME z # x PROVE z = y OBVIOUS
<1>2. IsFiniteSet(S \ {x}) /\ Cardinality(S \ {x}) = Cardinality(S) - 1 BY FS_RemoveElement
<1>3. Cardinality(S \ {x}) <= 1 BY <1>2
<1> QED BY <1>1, <1>2, <1>3, AtMostOne

LEMMA WritersFinite ==
    ASSUME NEW b \in Logs
    PROVE  IsFiniteSet(WritersOf(b))
<1>1. WritersOf(b) \in SUBSET Writers BY DEF WritersOf
<1> QED BY <1>1, LogAssumption, FS_Subset

LEMMA Writing ==
    ASSUME TypeOK, PlaceInv, NEW b \in Logs
    PROVE  /\ \A p \in Writers : LogOf(p) = b /\ ppc[p] # "idle" => p \in WritersOf(b)
           /\ \A e \in Placed(b) : /\ e \in Entry /\ e[1] \in WritersOf(b)
                                   /\ e[2] \in Nat /\ e[2] <= sent[e[1]]
           /\ \A e \in accepted : LogOf(e[1]) = b => e \in Placed(b)
           /\ Uncounted(b) \subseteq WritersOf(b)
<1>0. /\ sent \in [Writers -> Nat]
      /\ \A p \in Writers : layout.calls[p] \in Nat /\ sent[p] \in Nat /\ sent[p] <= layout.calls[p]
  BY LayoutIs DEF TypeOK, WriterTypes
<1>1. ASSUME NEW p \in Writers, LogOf(p) = b, ppc[p] # "idle" PROVE p \in WritersOf(b)
  <2>1. sent[p] > 0 BY <1>1 DEF PlaceInv, FoundInv, FoundOf
  <2> QED BY <1>0, <1>1, <2>1 DEF WritersOf
<1>2. ASSUME NEW e \in Placed(b)
      PROVE  /\ e \in Entry /\ e[1] \in WritersOf(b)
             /\ e[2] \in Nat /\ e[2] <= sent[e[1]]
  <2>1. Claimed(e, b) BY DEF PlaceInv, PlacedInv, PlacedOf
  <2>2. e \in Entry /\ e[1] \in Writers /\ e[2] \in Nat /\ LogOf(e[1]) = b /\ e[2] \in 1 .. sent[e[1]]
    BY <2>1, Hidden DEF Claimed
  <2> QED BY <1>0, <2>2 DEF WritersOf
<1>3. ASSUME NEW e \in accepted, LogOf(e[1]) = b PROVE e \in Placed(b)
  <2>1. e[1] \in Writers BY Hidden DEF TypeOK, EntryTypes
  <2> QED BY <1>3, <2>1 DEF PlaceInv, FoundInv, FoundOf
<1>4. Uncounted(b) \subseteq WritersOf(b) BY <1>1 DEF Uncounted
<1> QED BY <1>1, <1>2, <1>3, <1>4

\* What is behind an unpublished or uncounted entry of a writer is not of that writer.
LEMMA NotBehind ==
    ASSUME TypeOK, PlaceInv, NEW b \in Logs, NEW p \in Writers, NEW e \in Placed(b), e[1] = p
    PROVE  ~Later(Mine(p), e)
<1>1. e[2] \in Nat /\ e[2] <= sent[p] /\ sent[p] \in Nat BY Writing DEF TypeOK, WriterTypes
<1>2. Mine(p)[1] = p /\ Mine(p)[2] = sent[p] BY DEF Mine
<1> QED BY <1>1, <1>2 DEF Later

LEMMA DepthZero ==
    ASSUME TypeOK, PlaceInv, OrderInv, DepthInv, NEW b \in Logs, depth[b] = 0,
           Cardinality(WritersOf(b)) <= 1, NEW e \in accepted, LogOf(e[1]) = b
    PROVE  e \in InFile(b) \cup InHand(b)
<1>1. SUFFICES ASSUME e \in InRing(b) PROVE FALSE
  BY Writing DEF Placed
<1>2. PICK i \in DOMAIN ring[b] : e = ring[b][i].entry BY <1>1 DEF InRing
<1>3. Len(ring[b]) \in Nat /\ DOMAIN ring[b] = 1 .. Len(ring[b])
  <2>1. ring[b] \in Seq(Cells) BY DEF TypeOK, EntryTypes, Cells
  <2> QED BY <2>1, SeqFacts
<1>4. Balance(b) = 0
  <2>1. Balance(b) \in Int /\ 0 - Width < Balance(b) /\ Width \in Nat BY Bounds, LogAssumption
  <2> QED BY <2>1 DEF DepthInv, AsDepth
<1>5. Uncounted(b) # {}
  <2>1. Cardinality(Uncounted(b)) >= 1 /\ Cardinality(Uncounted(b)) \in Nat
    BY <1>2, <1>3, <1>4, Bounds DEF Balance
  <2> QED BY <2>1, FS_EmptySet
<1>6. PICK p \in Writers : p \in Uncounted(b) BY <1>5 DEF Uncounted
<1>7. \A q \in WritersOf(b) : q = p
  <2>1. p \in WritersOf(b) BY <1>6, Writing
  <2> QED BY <2>1, WritersFinite, AtMostOne
<1>8. e[1] = p /\ e \in Placed(b) BY <1>7, Writing
<1>9. e # Mine(p) /\ Mine(p) \in Placed(b)
  BY <1>6, <1>8 DEF Uncounted, PlaceInv, FoundInv, FoundOf
<1>10. Mine(p) \in InRing(b)
  <2>1. SUFFICES ASSUME Mine(p) \in InFile(b) \cup InHand(b) PROVE FALSE BY <1>9 DEF Placed
  <2>2. Later(Mine(p), e) BY <1>1, <2>1 DEF OrderInv, OrderOf
  <2> QED BY <1>8, <2>2, NotBehind
<1>11. PICK j \in DOMAIN ring[b] : Mine(p) = ring[b][j].entry BY <1>10 DEF InRing
<1>12. Len(ring[b]) <= 1
  <2>1. Cardinality(Uncounted(b)) <= 1
    <3>1. Uncounted(b) \in SUBSET WritersOf(b) BY Writing
    <3>2. Cardinality(Uncounted(b)) <= Cardinality(WritersOf(b)) BY <3>1, WritersFinite, FS_Subset
    <3>3. Cardinality(WritersOf(b)) \in Nat /\ Cardinality(Uncounted(b)) \in Nat
      BY WritersFinite, FS_CardinalityType, Bounds
    <3> QED BY <3>2, <3>3
  <2> QED BY <1>3, <1>4, <2>1, Bounds DEF Balance
<1>13. i = j BY <1>3, <1>12
<1> QED BY <1>2, <1>9, <1>11, <1>13


----------------------------------------------------------------------------
(* Sleep.                                                                  *)

\* While a log's own thread parks, nobody takes an entry out of its ring.
LEMMA ParkedAlone ==
    ASSUME HandInv, NEW b \in Logs, cpc[Io(b)] = "park", NEW c \in Drainers, cpc[c] \in Draining
    PROVE  target[c] # b
<1>1. \A a \in Logs : HandOf(a) BY DEF HandInv, HandOf
<1>2. home[b] = "own" BY <1>1 DEF HandOf, Owned
<1>3. CASE c = Service BY <1>1, <1>2, <1>3 DEF HandOf, Served
<1>4. ASSUME NEW a \in Logs, c = Io(a) PROVE target[c] # b
  BY <1>1, <1>4, LogAssumption DEF HandOf, Owned, Draining
<1>5. ASSUME NEW a \in Logs, c = Stopper(a) PROVE target[c] # b
  BY <1>1, <1>2, <1>5, LogAssumption DEF HandOf, Stopping, Life, Draining
<1> QED BY <1>3, <1>4, <1>5, DrainersDiffer

LEMMA ParkedWriter ==
    ASSUME TypeOK, HandInv, SleepInv, [Next]_vars, NEW p \in Writers, TryLog(p), NEW b \in Logs
    PROVE  Parked(b)'
<1> USE DEF logVars, drainVars
<1>0. Parked(b) BY DEF SleepInv
<1>1. UNCHANGED <<cpc, target, home>>
  BY DEF TryLog, CheckRunning, CheckDepth, Claim, Publish, Count, Notify
<1>2. \A q \in Writers : LogOf(q)' = LogOf(q) BY Constant
<1>3. /\ ppc \in [Writers -> {"idle", "depth", "claim", "publish", "count", "notify"}]
      /\ \A q \in Writers : q # p => ppc'[q] = ppc[q]
  BY DEF TypeOK, WriterTypes, TryLog, CheckRunning, CheckDepth, Claim, Publish, Count, Notify, To
<1>4. Io(b) \in Drainers /\ home \in [Logs -> {"none", "service", "own"}]
      /\ ownWake \in [Logs -> BOOLEAN] /\ depth \in [Logs -> 0 .. Width - 1]
  BY DrainersDiffer DEF TypeOK, LogTypes, EntryTypes
<1>5. CASE Count(p)
  <2>1. UNCHANGED ownWake /\ ppc[p] = "count" BY <1>5 DEF Count, wakeVars
  <2>2. Notifying(b) => Notifying(b)' BY <1>2, <1>3, <2>1 DEF Notifying
  <2>3. CASE LogOf(p) = b
    <3>1. depth[b] = 0 => ppc'[p] = "notify" BY <1>3, <1>5, <2>3 DEF Count, Wakes, To
    <3>2. depth[b] = 0 => Notifying(b)' BY <1>2, <2>3, <3>1 DEF Notifying
    <3> QED BY <1>0, <1>1, <2>1, <2>2, <3>2 DEF Parked, Io
  <2>4. CASE LogOf(p) # b
    <3>1. depth'[b] = depth[b] BY <1>4, <1>5, <2>4 DEF Count
    <3> QED BY <1>0, <1>1, <2>1, <2>2, <3>1 DEF Parked, Io
  <2> QED BY <2>3, <2>4
<1>6. CASE Notify(p)
  <2>0. depth' = depth BY <1>6 DEF Notify, ringVars
  <2>1. CASE LogOf(p) = b
    <3>1. cpc[Io(b)] = "park" => home[b] = "own" BY DEF HandInv, Owned
    <3>2. home[b] = "own" => ownWake'[b] = TRUE BY <1>4, <1>6, <2>1 DEF Notify, Signal
    <3> QED BY <1>1, <3>1, <3>2 DEF Parked, Io
  <2>2. CASE LogOf(p) # b
    <3>1. ownWake'[b] = ownWake[b] BY <1>4, <1>6, <2>2 DEF Notify, Signal
    <3>2. Notifying(b) => Notifying(b)' BY <1>2, <1>3, <2>2 DEF Notifying
    <3> QED BY <1>0, <1>1, <2>0, <3>1, <3>2 DEF Parked, Io
  <2> QED BY <2>1, <2>2
<1>7. CASE ~Count(p) /\ ~Notify(p)
  <2>1. UNCHANGED <<depth, ownWake>> /\ ppc[p] # "notify"
    BY <1>7 DEF TryLog, CheckRunning, CheckDepth, Claim, Publish, wakeVars, ringVars
  <2>2. Notifying(b) => Notifying(b)' BY <1>2, <1>3, <2>1 DEF Notifying
  <2> QED BY <1>0, <1>1, <2>1, <2>2 DEF Parked, Io
<1> QED BY <1>5, <1>6, <1>7

LEMMA ParkedElse ==
    ASSUME TypeOK, HandInv, SleepInv, [Next]_vars, NEW b \in Logs,
           \/ SweepStep \/ FlushStep \/ UNCHANGED vars
           \/ \E a \in Logs : Start(a) \/ IoStep(a) \/ StopStep(a)
           \/ \E c \in Drainers : Drain(c)
    PROVE  Parked(b)'
<1> USE DEF writerVars, wakeVars
<1>0. Parked(b) BY DEF SleepInv
<1>1. Io(b) \in Drainers /\ ownWake \in [Logs -> BOOLEAN] /\ depth \in [Logs -> 0 .. Width - 1]
      /\ cpc \in [Drainers -> {"idle", "top", "slot", "pop", "count", "write", "park", "exit", "look"}]
      /\ home \in [Logs -> {"none", "service", "own"}]
  BY DrainersDiffer DEF TypeOK, LogTypes, EntryTypes, DrainTypes
<1>2. ASSUME ppc' = ppc PROVE Notifying(b)' <=> Notifying(b)
  <2>1. \A q \in Writers : LogOf(q)' = LogOf(q) BY Constant
  <2> QED BY <1>2, <2>1 DEF Notifying
<1>3. ASSUME ppc' = ppc, depth'[b] = depth[b], ownWake[b] => ownWake'[b],
             cpc'[Io(b)] = "park" => cpc[Io(b)] = "park"
      PROVE  Parked(b)'
  BY <1>0, <1>2, <1>3 DEF Parked, Io
<1>4. ASSUME NEW c \in Drainers, Drain(c) PROVE Parked(b)'
  <2>1. ppc' = ppc /\ ownWake' = ownWake /\ cpc[c] \in Draining
    BY <1>4 DEF Drain, Pop, Uncount, Write, Draining
  <2>2. cpc'[Io(b)] = "park" => cpc[Io(b)] = "park"
    BY <1>1, <1>4 DEF Drain, Pop, Uncount, Write, Goes
  <2>3. cpc[Io(b)] = "park" => depth'[b] = depth[b]
    <3>1. cpc[Io(b)] = "park" => target[c] # b BY <1>4, <2>1, ParkedAlone
    <3> QED BY <1>1, <1>4, <3>1 DEF Drain, Pop, Uncount, Write, ringVars
  <2> QED BY <1>0, <1>2, <2>1, <2>2, <2>3 DEF Parked, Io
<1>5. CASE \E a \in Logs : IoLook(a)
  <2>1. PICK a \in Logs : IoLook(a) BY <1>5
  <2>2. UNCHANGED <<ppc, depth, ownWake>> BY <2>1 DEF IoLook, ioOnly, ringVars
  <2>3. CASE a = b
    <3>1. cpc'[Io(b)] = "park" => depth[b] = 0 BY <1>1, <2>1, <2>3 DEF IoLook, Goes
    <3> QED BY <2>2, <3>1 DEF Parked, Io
  <2>4. CASE a # b
    <3>1. cpc'[Io(b)] = cpc[Io(b)] BY <1>1, <2>1, <2>4, DrainersDiffer DEF IoLook, Goes
    <3> QED BY <1>3, <2>2, <3>1
  <2> QED BY <2>3, <2>4
<1>6. CASE \E a \in Logs : IoUnpark(a)
  <2>1. PICK a \in Logs : IoUnpark(a) BY <1>6
  <2>2. UNCHANGED <<ppc, depth>> BY <2>1 DEF IoUnpark, ioOnly, ringVars
  <2>3. CASE a = b
    <3>1. cpc'[Io(b)] = "pop" BY <1>1, <2>1, <2>3 DEF IoUnpark, Goes
    <3> QED BY <3>1 DEF Parked, Io
  <2>4. CASE a # b
    <3>1. cpc'[Io(b)] = cpc[Io(b)] BY <1>1, <2>1, <2>4, DrainersDiffer DEF IoUnpark, Goes
    <3>2. ownWake'[b] = ownWake[b] BY <1>1, <2>1, <2>4 DEF IoUnpark
    <3> QED BY <1>3, <2>2, <3>1, <3>2
  <2> QED BY <2>3, <2>4
<1>7. ASSUME NEW a \in Logs, Start(a) \/ IoEmpty(a) \/ IoExit(a) PROVE Parked(b)'
  <2>1. UNCHANGED <<ppc, depth, ownWake>>
    BY <1>7 DEF Start, IoEmpty, IoExit, ioOnly, ringVars
  <2>2. cpc'[Io(b)] = "park" => cpc[Io(b)] = "park"
    BY <1>1, <1>7 DEF Start, IoEmpty, IoExit, Goes
  <2> QED BY <1>3, <2>1, <2>2
<1>8. CASE SweepStep
  <2>1. UNCHANGED <<ppc, depth, ownWake>>
    BY <1>8 DEF SweepStep, BeginSweep, LoadSlot, LeaveSlot, EndSweep, Unpark, serviceOnly, ringVars
  <2>2. cpc'[Io(b)] = cpc[Io(b)]
    BY <1>1, <1>8, DrainersDiffer DEF SweepStep, BeginSweep, LoadSlot, LeaveSlot, EndSweep, Unpark, Goes
  <2> QED BY <1>3, <2>1, <2>2
<1>9. CASE FlushStep
  <2>1. UNCHANGED <<ppc, depth, cpc>>
    BY <1>9 DEF FlushStep, FlushBegin, FlushNotify, Flushed, FlushTimeout, flushOnly, drainVars, ringVars
  <2>2. ownWake[b] => ownWake'[b]
    BY <1>1, <1>9 DEF FlushStep, FlushBegin, FlushNotify, Flushed, FlushTimeout, Signal
  <2> QED BY <1>3, <2>1, <2>2
<1>10. ASSUME NEW a \in Logs, StopStep(a) PROVE Parked(b)'
  <2>1. UNCHANGED <<ppc, depth>>
    BY <1>10 DEF StopStep, StopBegin, ClearSlot, ReadEpoch, PokeService, HandedOff, DrainedAll, PokeIo, JoinIo,
       Close, stopOnly, ringVars
  <2>2. ownWake[b] => ownWake'[b]
    BY <1>1, <1>10 DEF StopStep, StopBegin, ClearSlot, ReadEpoch, PokeService, HandedOff, DrainedAll, PokeIo,
       JoinIo, Close
  <2>3. cpc'[Io(b)] = cpc[Io(b)]
    BY <1>1, <1>10, DrainersDiffer DEF StopStep, StopBegin, ClearSlot, ReadEpoch, PokeService, HandedOff,
       DrainedAll, PokeIo, JoinIo, Close, Goes
  <2> QED BY <1>3, <2>1, <2>2, <2>3
<1>11. CASE UNCHANGED vars
  <2>1. UNCHANGED <<ppc, depth, ownWake, cpc>> BY <1>11 DEF vars, ringVars, drainVars
  <2> QED BY <1>3, <2>1
<1> QED BY <1>4, <1>5, <1>6, <1>7, <1>8, <1>9, <1>10, <1>11 DEF IoStep


\* Nobody but the service drains a running log that is registered.
LEMMA ServiceAlone ==
    ASSUME HandInv, NEW b \in Logs, running[b], home[b] = "service",
           NEW c \in Drainers, cpc[c] \in Draining, target[c] = b
    PROVE  c = Service
<1>1. \A a \in Logs : HandOf(a) BY DEF HandInv, HandOf
<1>2. ASSUME NEW a \in Logs, c = Io(a) PROVE FALSE
  BY <1>1, <1>2, LogAssumption DEF HandOf, Owned, Draining
<1>3. ASSUME NEW a \in Logs, c = Stopper(a) PROVE FALSE
  BY <1>1, <1>3, LogAssumption DEF HandOf, Stopping, Life, Draining
<1> QED BY <1>2, <1>3, DrainersDiffer

\* The only writer of a log.
LEMMA OnlyWriter ==
    ASSUME TypeOK, PlaceInv, NEW b \in Logs, Cardinality(WritersOf(b)) = 1,
           NEW p \in Writers, LogOf(p) = b, ppc[p] # "idle"
    PROVE  /\ \A q \in WritersOf(b) : q = p
           /\ \A q \in Writers : LogOf(q) = b /\ ppc[q] # "idle" => q = p
<1>1. p \in WritersOf(b) BY Writing
<1>2. \A q \in WritersOf(b) : q = p BY <1>1, WritersFinite, AtMostOne
<1> QED BY <1>2, Writing

LEMMA SweptWriter ==
    ASSUME TypeOK, HandInv, PlaceInv, DepthInv, SleepInv, [Next]_vars, NEW p \in Writers, TryLog(p),
           NEW b \in Logs
    PROVE  Swept(b)'
<1> USE DEF logVars, drainVars
<1>0. Swept(b) BY DEF SleepInv
<1>1. UNCHANGED <<cpc, target, home, running, slot, sweep, busy, got, layout>> /\ (wake => wake')
  <2>1. CASE Notify(p) BY <2>1 DEF Notify, Signal
  <2> QED BY <2>1 DEF TryLog, CheckRunning, CheckDepth, Claim, Publish, Count, wakeVars
<1>2. /\ \A q \in Writers : LogOf(q)' = LogOf(q)
      /\ WritersOf(b)' = WritersOf(b)
  BY Constant
<1>3. /\ ppc \in [Writers -> {"idle", "depth", "claim", "publish", "count", "notify"}]
      /\ \A q \in Writers : q # p => ppc'[q] = ppc[q]
  BY DEF TypeOK, WriterTypes, TryLog, CheckRunning, CheckDepth, Claim, Publish, Count, Notify, To
<1>4. WillVisit(b)' <=> WillVisit(b) BY <1>1 DEF WillVisit, Slots, Service
<1>5. SUFFICES ASSUME running[b], home[b] = "service", Cardinality(WritersOf(b)) = 1, ~wake', ~WillVisit(b)
      PROVE  ring'[b] = <<>> \/ (Len(ring'[b]) = 1 /\ Uncounted(b)' # {}) \/ Notifying(b)'
  BY <1>1, <1>2, <1>4 DEF Swept
<1>6. ring[b] = <<>> \/ (Len(ring[b]) = 1 /\ Uncounted(b) # {}) \/ Notifying(b)
  BY <1>0, <1>1, <1>5 DEF Swept
<1>7. CASE LogOf(p) # b
  <2>1. ring'[b] = ring[b]
    <3>1. ring \in [Logs -> Seq(Cells)] BY DEF TypeOK, EntryTypes, Cells
    <3> QED BY <1>7, <3>1 DEF TryLog, CheckRunning, CheckDepth, Claim, Publish, Count, Notify, ringVars
  <2>2. Uncounted(b)' = Uncounted(b) BY <1>2, <1>3, <1>7 DEF Uncounted
  <2>3. Notifying(b)' <=> Notifying(b) BY <1>2, <1>3, <1>7 DEF Notifying
  <2> QED BY <1>6, <2>1, <2>2, <2>3
<1>8. CASE LogOf(p) = b
  <2>1. CASE CheckRunning(p) \/ CheckDepth(p) \/ (Claim(p) /\ UNCHANGED ring)
    <3>1. ring' = ring /\ ppc[p] \notin {"publish", "count", "notify"}
      BY <2>1 DEF CheckRunning, CheckDepth, Claim, ringVars
    <3>2. p \notin Uncounted(b) BY <3>1 DEF Uncounted
    <3>3. Uncounted(b) # {} => Uncounted(b)' # {} BY <1>2, <1>3, <3>2 DEF Uncounted
    <3>4. Notifying(b) => Notifying(b)' BY <1>2, <1>3, <3>1 DEF Notifying
    <3> QED BY <1>6, <3>1, <3>3, <3>4
  <2>2. CASE Claim(p) /\ ~UNCHANGED ring
    <3>1. ppc[p] = "claim" /\ ppc'[p] = "publish" BY <1>3, <2>2 DEF Claim, To
    <3>2. \A q \in Writers : LogOf(q) = b => ppc[q] \notin {"publish", "count", "notify"}
      BY <1>5, <1>8, <3>1, OnlyWriter
    <3>3. ring[b] = <<>> BY <1>6, <3>2 DEF Uncounted, Notifying
    <3>4. Len(ring'[b]) = 1
      <4>1. Len(ring'[b]) = Len(ring[b]) + 1 BY <1>8, <2>2, ClaimDoes
      <4> QED BY <3>3, <4>1
    <3>5. p \in Uncounted(b)' BY <1>2, <1>8, <3>1 DEF Uncounted
    <3> QED BY <3>4, <3>5
  <2>3. CASE Publish(p)
    <3>1. ppc[p] = "publish" /\ ppc'[p] = "count" BY <1>3, <2>3 DEF Publish, To
    <3>2. Len(ring'[b]) = Len(ring[b]) /\ DOMAIN ring'[b] = DOMAIN ring[b] BY <1>8, <2>3, PublishDoes
    <3>3. p \in Uncounted(b)' BY <1>2, <1>8, <3>1 DEF Uncounted
    <3>4. ~Notifying(b) BY <1>5, <1>8, <3>1, OnlyWriter DEF Notifying
    <3>5. ring[b] = <<>> => ring'[b] = <<>> BY <1>8, <2>3 DEF Publish, TypeOK, EntryTypes
    <3> QED BY <1>6, <3>2, <3>3, <3>4, <3>5
  <2>4. CASE Count(p)
    <3>1. ppc[p] = "count" /\ ring' = ring BY <2>4 DEF Count
    <3>2. ~Notifying(b) BY <1>5, <1>8, <3>1, OnlyWriter DEF Notifying
    <3>3. SUFFICES ASSUME Len(ring[b]) = 1 PROVE Notifying(b)' BY <1>6, <3>1, <3>2
    <3>4. Uncounted(b) = {p} BY <1>5, <1>8, <3>1, OnlyWriter DEF Uncounted
    <3>5. Cardinality(Uncounted(b)) = 1 BY <3>4, FS_Singleton
    <3>6. Taken(b) = 0
      <4>1. ASSUME NEW c \in Drainers, target[c] = b, cpc[c] = "count" PROVE FALSE
        <5>1. c = Service BY <1>5, <4>1, ServiceAlone DEF Draining
        <5> QED BY <1>5, <4>1, <5>1 DEF WillVisit
      <4> QED BY <4>1 DEF Taken
    <3>7. depth[b] = 0
      <4>1. Balance(b) = 0 BY <3>3, <3>5, <3>6 DEF Balance
      <4> QED BY <4>1 DEF DepthInv, AsDepth
    <3>8. ppc'[p] = "notify" BY <1>3, <1>8, <2>4, <3>7 DEF Count, Wakes, To
    <3> QED BY <1>2, <1>8, <3>8 DEF Notifying
  <2>5. CASE Notify(p)
    <3>1. wake' BY <1>5, <1>8, <2>5 DEF Notify, Signal
    <3> QED BY <1>5, <3>1
  <2> QED BY <2>1, <2>2, <2>3, <2>4, <2>5 DEF TryLog
<1> QED BY <1>7, <1>8

\* Unless the service is on its way to the log, a step of another thread
\* changes nothing of this.
LEMMA SweptKept ==
    ASSUME SleepInv, NEW b \in Logs, [Next]_vars, UNCHANGED <<ring, ppc>>,
           running'[b] => running[b] /\ home'[b] = home[b],
           wake => wake', WillVisit(b) => WillVisit(b)'
    PROVE  Swept(b)'
<1>1. Swept(b) BY DEF SleepInv
<1>2. Uncounted(b)' = Uncounted(b) /\ (Notifying(b)' <=> Notifying(b)) /\ WritersOf(b)' = WritersOf(b)
  <2>1. /\ \A q \in Writers : LogOf(q)' = LogOf(q)
        /\ WritersOf(b)' = WritersOf(b)
    BY Constant
  <2> QED BY <2>1 DEF Uncounted, Notifying
<1> QED BY <1>1, <1>2 DEF Swept

LEMMA SweptDrainer ==
    ASSUME TypeOK, HandInv, SleepInv, [Next]_vars, NEW c \in Drainers, Drain(c), NEW b \in Logs
    PROVE  Swept(b)'
<1>1. /\ UNCHANGED <<ppc, running, home, wake, slot, sweep, busy, target, layout>>
      /\ cpc[c] \in Draining
  BY DEF Drain, Pop, Uncount, Write, Draining, logVars, wakeVars, writerVars
<1>2. /\ \A d \in Drainers : d # c => cpc'[d] = cpc[d] /\ got'[d] = got[d]
      /\ cpc \in [Drainers -> {"idle", "top", "slot", "pop", "count", "write", "park", "exit", "look"}]
      /\ got \in [Drainers -> 0 .. Batch] /\ Batch \in Nat \ {0}
  BY LogAssumption DEF Drain, Pop, Uncount, Write, Goes, TypeOK, DrainTypes
<1>3. CASE c = Service
  <2>1. WillVisit(b)'
    <3>1. cpc'[c] \in {"count", "write"} \/ (cpc'[c] = "pop" /\ got'[c] > 0)
      BY <1>2 DEF Drain, Pop, Uncount, Write, Goes
    <3> QED BY <1>3, <3>1 DEF WillVisit, Service
  <2> QED BY <2>1 DEF Swept
<1>4. CASE c # Service
  <2>1. cpc'[Service] = cpc[Service] /\ got'[Service] = got[Service] BY <1>2, <1>4, DrainersDiffer
  <2>2. WillVisit(b)' <=> WillVisit(b) BY <1>1, <2>1 DEF WillVisit, Slots, Service
  <2>3. CASE target[c] = b
    <3>1. ~(running[b] /\ home[b] = "service") BY <1>1, <1>4, <2>3, ServiceAlone
    <3> QED BY <1>1, <3>1 DEF Swept
  <2>4. CASE target[c] # b
    <3>1. ring'[b] = ring[b]
      BY <2>4 DEF Drain, Pop, Uncount, Write, ringVars, TypeOK, EntryTypes
    <3>2. Uncounted(b)' = Uncounted(b) /\ (Notifying(b)' <=> Notifying(b)) /\ WritersOf(b)' = WritersOf(b)
      <4>1. /\ \A q \in Writers : LogOf(q)' = LogOf(q)
            /\ WritersOf(b)' = WritersOf(b)
        BY Constant
      <4> QED BY <1>1, <4>1 DEF Uncounted, Notifying
    <3> QED BY <1>1, <2>2, <3>1, <3>2 DEF SleepInv, Swept
  <2> QED BY <2>3, <2>4
<1> QED BY <1>3, <1>4


\* The service leaves a log behind with nothing in its ring, or with the one
\* entry whose writer is about to count it and wakes the service.
LEMMA LeftEmpty ==
    ASSUME TypeOK, PlaceInv, OrderInv, NEW b \in Logs, Cardinality(WritersOf(b)) = 1,
           ~Ready(b), ring[b] # <<>>
    PROVE  Len(ring[b]) = 1 /\ Uncounted(b) # {}
<1>1. ring[b] \in Seq(Cells) BY DEF TypeOK, EntryTypes, Cells
<1>2. /\ Len(ring[b]) \in Nat /\ DOMAIN ring[b] = 1 .. Len(ring[b]) /\ Len(ring[b]) >= 1
      /\ Head(ring[b]) = ring[b][1]
  BY <1>1, SeqFacts
<1>3. 1 \in DOMAIN ring[b] BY <1>2
<1>4. Unpublished(ring[b][1].entry)
  <2>1. ~ring[b][1].published BY <1>2 DEF Ready
  <2> QED BY <1>3, <2>1 DEF PlaceInv, PlacedInv, PlacedOf
<1>5. PICK p : p = ring[b][1].entry[1] OBVIOUS
<1>6. ring[b][1].entry \in Placed(b) BY <1>3 DEF Placed, InRing
<1>7. p \in WritersOf(b) /\ p \in Writers /\ LogOf(p) = b BY <1>5, <1>6, Writing DEF WritersOf
<1>8. ring[b][1].entry = Mine(p) /\ ppc[p] = "publish" BY <1>4, <1>5 DEF Unpublished
<1>9. p \in Uncounted(b) BY <1>7, <1>8 DEF Uncounted
<1>10. \A q \in WritersOf(b) : q = p BY <1>7, WritersFinite, AtMostOne
<1>11. ASSUME Len(ring[b]) # 1 PROVE FALSE
  <2>1. 2 \in DOMAIN ring[b]
    <3>1. PICK m \in Nat : m = Len(ring[b]) BY <1>2
    <3>2. m >= 1 /\ m # 1 BY <1>2, <1>11, <3>1
    <3>3. 2 \in 1 .. m BY <3>2
    <3> QED BY <1>2, <3>1, <3>3
  <2>2. PICK e : e = ring[b][2].entry OBVIOUS
  <2>3. e \in Placed(b) BY <2>1, <2>2 DEF Placed, InRing
  <2>4. e[1] = p BY <1>10, <2>3, Writing
  <2>5. Later(Mine(p), e) BY <1>3, <1>8, <2>1, <2>2 DEF OrderInv, OrderOf
  <2> QED BY <1>7, <2>3, <2>4, <2>5, NotBehind
<1> QED BY <1>9, <1>11

LEMMA SweptSweep ==
    ASSUME TypeOK, HandInv, PlaceInv, OrderInv, SleepInv, [Next]_vars, SweepStep, NEW b \in Logs
    PROVE  Swept(b)'
<1> USE DEF logVars, drainVars, writerVars, ringVars
<1>1. /\ UNCHANGED <<ring, ppc, running, home, slot, layout>>
  BY DEF SweepStep, BeginSweep, LoadSlot, LeaveSlot, EndSweep, Unpark, serviceOnly
<1>2. /\ Service \in Drainers /\ got \in [Drainers -> 0 .. Batch] /\ Batch \in Nat \ {0}
      /\ cpc \in [Drainers -> {"idle", "top", "slot", "pop", "count", "write", "park", "exit", "look"}]
      /\ target \in [Drainers -> Logs \cup {NoLog}] /\ busy \in BOOLEAN
      /\ sweep \in Nat /\ NoLog \notin Logs /\ layout.slots \in Nat
  <2>1. sweep \in 1 .. layout.slots + 1 /\ layout.slots \in Nat BY LayoutIs DEF TypeOK, DrainTypes
  <2>2. sweep \in Nat BY <2>1
  <2> QED BY <2>1, <2>2, LogAssumption, DrainersDiffer DEF TypeOK, DrainTypes
<1>3. cpc[Service] = "park" => ~busy BY DEF SleepInv
<1>4. Slots' = Slots BY Constant
<1>5. Service' = Service BY DEF Service
<1>6. CASE BeginSweep
  <2>1. cpc'[Service] = "slot" /\ sweep' = 1 BY <1>2, <1>6 DEF BeginSweep, Goes
  <2>2. CASE running[b] /\ home[b] = "service"
    <3>1. \E i \in Slots : slot[i] = b BY <2>2 DEF HandInv, Life, Registered
    <3>2. PICK i \in Slots : slot[i] = b BY <3>1
    <3>3. 1 < i \/ i = 1 BY <1>2, <3>2 DEF Slots
    <3>4. WillVisit(b)' BY <1>1, <1>4, <1>5, <2>1, <3>2, <3>3 DEF WillVisit
    <3> QED BY <2>1, <3>4 DEF Swept
  <2> QED BY <1>1, <2>1, <2>2 DEF Swept
<1>7. CASE LoadSlot
  <2>1. cpc[Service] = "slot" /\ sweep \in Slots /\ UNCHANGED <<wake, busy>>
    BY <1>2, <1>7 DEF LoadSlot, Slots, TypeOK, DrainTypes, wakeVars
  <2>2. CASE slot[sweep] = NoLog
    <3>1. UNCHANGED <<cpc, target, got>> /\ sweep' = sweep + 1 BY <1>7, <2>2 DEF LoadSlot
    <3>2. WillVisit(b) => WillVisit(b)'
      <4>1. ASSUME NEW i \in Slots, slot[i] = b, sweep < i \/ sweep = i
            PROVE  slot'[i] = b /\ (sweep' < i \/ sweep' = i)
        <5>1. sweep # i BY <1>2, <2>2, <4>1
        <5> QED BY <1>1, <1>2, <3>1, <4>1, <5>1 DEF Slots
      <4> QED BY <1>1, <1>4, <1>5, <2>1, <3>1, <4>1 DEF WillVisit
    <3>3. Swept(b)' BY <1>1, <2>1, <3>2, SweptKept
    <3> QED BY <2>1, <3>1, <3>3
  <2>3. CASE slot[sweep] # NoLog
    <3>1. /\ cpc'[Service] = "pop" /\ target'[Service] = slot[sweep] /\ sweep' = sweep
      BY <1>2, <1>7, <2>3, <2>1 DEF LoadSlot, Goes
    <3>2. WillVisit(b) => WillVisit(b)'
      <4>1. ASSUME NEW i \in Slots, slot[i] = b, sweep < i \/ sweep = i
            PROVE  slot'[i] = b /\ (sweep' < i \/ (sweep' = i /\ target'[Service] = b))
        BY <1>1, <3>1, <4>1
      <4> QED BY <1>1, <1>4, <1>5, <2>1, <3>1, <4>1 DEF WillVisit
    <3>3. Swept(b)' BY <1>1, <2>1, <3>2, SweptKept
    <3> QED BY <3>1, <3>3
  <2> QED BY <2>2, <2>3
<1>8. CASE LeaveSlot
  <2>1. /\ cpc[Service] = "pop" /\ cpc'[Service] = "slot" /\ sweep' = sweep + 1 /\ UNCHANGED wake
        /\ ~(WithinBatch(Service) /\ Ready(target[Service])) /\ busy' = (busy \/ got[Service] > 0)
    BY <1>2, <1>8 DEF LeaveSlot, Goes, wakeVars
  <2>2. CASE busy'
    <3>1. WillVisit(b)' BY <2>1, <2>2 DEF WillVisit, Service
    <3> QED BY <2>1, <3>1 DEF Swept
  <2>3. CASE ~busy' /\ target[Service] = b
    <3>1. got[Service] < Batch
      <4>1. got[Service] \in 0 .. Batch /\ ~(got[Service] > 0) BY <1>2, <2>1, <2>3
      <4> QED BY <1>2, <4>1
    <3>2. ~Ready(b) BY <2>1, <2>3, <3>1 DEF WithinBatch
    <3>3. Cardinality(WritersOf(b)) = 1 => ring[b] = <<>> \/ (Len(ring[b]) = 1 /\ Uncounted(b) # {})
      BY <3>2, LeftEmpty
    <3>4. Uncounted(b)' = Uncounted(b) /\ WritersOf(b)' = WritersOf(b)
      <4>1. \A q \in Writers : LogOf(q)' = LogOf(q) BY Constant
      <4> QED BY <1>1, <4>1, Constant DEF Uncounted
    <3> QED BY <1>1, <2>1, <3>3, <3>4 DEF Swept
  <2>4. CASE ~busy' /\ target[Service] # b
    <3>1. WillVisit(b) => WillVisit(b)'
      <4>1. ASSUME NEW i \in Slots, slot[i] = b, sweep < i
            PROVE  slot'[i] = b /\ (sweep' < i \/ sweep' = i)
        BY <1>1, <1>2, <2>1, <4>1 DEF Slots
      <4> QED BY <1>1, <1>4, <1>5, <2>1, <2>4, <4>1 DEF WillVisit
    <3>2. Swept(b)' BY <1>1, <2>1, <3>1, SweptKept
    <3> QED BY <2>1, <3>2
  <2> QED BY <2>2, <2>3, <2>4
<1>9. CASE EndSweep
  <2>1. /\ cpc[Service] = "slot" /\ sweep > layout.slots /\ UNCHANGED <<wake, busy>>
        /\ cpc'[Service] = IF busy THEN "top" ELSE "park"
    BY <1>2, <1>9 DEF EndSweep, Goes, wakeVars
  <2>2. CASE busy
    <3>1. WillVisit(b)' BY <2>1, <2>2 DEF WillVisit, Service
    <3> QED BY <2>1, <2>2, <3>1 DEF Swept
  <2>3. CASE ~busy
    <3>1. ~WillVisit(b)
      <4>1. \A i \in Slots : ~(sweep < i) /\ sweep # i BY <1>2, <2>1 DEF Slots
      <4> QED BY <2>1, <2>3, <4>1 DEF WillVisit
    <3>2. Swept(b)' BY <1>1, <2>1, <3>1, SweptKept
    <3> QED BY <2>1, <2>3, <3>2
  <2> QED BY <2>2, <2>3
<1>10. CASE Unpark
  <2>1. cpc'[Service] = "top" BY <1>2, <1>10 DEF Unpark, Goes
  <2>2. WillVisit(b)' BY <2>1 DEF WillVisit, Service
  <2> QED BY <2>1, <2>2 DEF Swept
<1> QED BY <1>6, <1>7, <1>8, <1>9, <1>10 DEF SweepStep

LEMMA SweptElse ==
    ASSUME TypeOK, HandInv, PlaceInv, SleepInv, [Next]_vars, NEW b \in Logs,
           \/ FlushStep \/ UNCHANGED vars
           \/ \E a \in Logs : Start(a) \/ IoStep(a) \/ StopStep(a)
    PROVE  Swept(b)'
<1> USE DEF logVars, drainVars, writerVars, ringVars
<1>1. UNCHANGED <<ring, ppc>> BY Elsewhere DEF Shared
<1>2. /\ Service \in Drainers /\ \A a \in Logs : Io(a) # Service /\ Stopper(a) # Service
      /\ cpc \in [Drainers -> {"idle", "top", "slot", "pop", "count", "write", "park", "exit", "look"}]
      /\ target \in [Drainers -> Logs \cup {NoLog}] /\ got \in [Drainers -> 0 .. Batch]
      /\ running \in [Logs -> BOOLEAN] /\ home \in [Logs -> {"none", "service", "own"}] /\ wake \in BOOLEAN
      /\ slot \in [Slots -> Logs \cup {NoLog}]
  BY DrainersDiffer DEF TypeOK, DrainTypes, LogTypes
<1>3. Slots' = Slots /\ Service' = Service BY Constant DEF Service
<1>4. /\ cpc'[Service] = cpc[Service] /\ target'[Service] = target[Service] /\ got'[Service] = got[Service]
      /\ UNCHANGED <<sweep, busy>> /\ (wake => wake')
  <2>1. CASE FlushStep
    BY <1>2, <2>1 DEF FlushStep, FlushBegin, FlushNotify, Flushed, FlushTimeout, flushOnly, Signal, wakeVars
  <2>2. CASE UNCHANGED vars BY <2>2 DEF vars, wakeVars
  <2>3. ASSUME NEW a \in Logs, Start(a) \/ IoStep(a)
        PROVE  /\ cpc'[Service] = cpc[Service] /\ target'[Service] = target[Service]
               /\ got'[Service] = got[Service] /\ UNCHANGED <<sweep, busy, wake>>
    BY <1>2, <2>3 DEF Start, IoStep, IoEmpty, IoExit, IoLook, IoUnpark, ioOnly, Goes, wakeVars
  <2>4. ASSUME NEW a \in Logs, StopStep(a)
        PROVE  /\ cpc'[Service] = cpc[Service] /\ target'[Service] = target[Service]
               /\ got'[Service] = got[Service] /\ UNCHANGED <<sweep, busy>> /\ (wake => wake')
    BY <1>2, <2>4 DEF StopStep, StopBegin, ClearSlot, ReadEpoch, PokeService, HandedOff, DrainedAll,
       PokeIo, JoinIo, Close, stopOnly, Goes, wakeVars, stopVars
  <2> QED BY <2>1, <2>2, <2>3, <2>4
<1>5. CASE running'[b] /\ running[b]
  <2>1. spc[b] = "up" BY <1>5 DEF HandInv, Life
  <2>2. home'[b] = home[b] /\ \A i \in Slots : slot[i] = b => slot'[i] = b
    <3>1. CASE FlushStep BY <3>1 DEF FlushStep, FlushBegin, FlushNotify, Flushed, FlushTimeout, flushOnly
    <3>2. CASE UNCHANGED vars BY <3>2 DEF vars
    <3>3. ASSUME NEW a \in Logs, Start(a)
          PROVE  home'[b] = home[b] /\ \A i \in Slots : slot[i] = b => slot'[i] = b
      <4>1. home'[b] = home[b] BY <1>2, <2>1, <3>3 DEF Start
      <4>2. CASE FreeSlots = {} BY <3>3, <4>1, <4>2 DEF Start
      <4>3. CASE FreeSlots # {}
        <5> DEFINE j == CHOOSE i \in FreeSlots : \A k \in FreeSlots : i <= k
        <5>1. j \in FreeSlots
          <6>1. FreeSlots \in SUBSET Nat BY LayoutIs DEF FreeSlots, Slots
          <6> QED BY <4>3, <6>1, Least
        <5>2. slot' = [slot EXCEPT ![j] = a] BY <3>3, <4>3 DEF Start
        <5> HIDE DEF j
        <5>3. slot[j] # b BY <5>1, LogAssumption DEF FreeSlots
        <5> QED BY <1>2, <4>1, <5>2, <5>3
      <4> QED BY <4>2, <4>3
    <3>4. ASSUME NEW a \in Logs, IoStep(a) PROVE UNCHANGED <<home, slot>>
      BY <3>4 DEF IoStep, IoEmpty, IoExit, IoLook, IoUnpark, ioOnly
    <3>5. ASSUME NEW a \in Logs, StopStep(a)
          PROVE  home'[b] = home[b] /\ \A i \in Slots : slot[i] = b => slot'[i] = b
      <4>1. CASE ClearSlot(a)
        <5>1. a # b BY <2>1, <4>1 DEF ClearSlot
        <5> QED BY <1>2, <1>3, <4>1, <5>1 DEF ClearSlot
      <4>2. CASE HandedOff(a)
        <5>1. a # b BY <2>1, <4>2 DEF HandedOff
        <5> QED BY <1>2, <4>2, <5>1 DEF HandedOff
      <4>3. CASE JoinIo(a)
        <5>1. a # b BY <2>1, <4>3 DEF JoinIo
        <5> QED BY <1>2, <4>3, <5>1 DEF JoinIo
      <4> QED
        BY <3>5, <4>1, <4>2, <4>3 DEF StopStep, StopBegin, ReadEpoch, PokeService, DrainedAll, PokeIo, Close,
           stopOnly
    <3> QED BY <3>1, <3>2, <3>3, <3>4, <3>5
  <2>3. WillVisit(b) => WillVisit(b)' BY <1>3, <1>4, <2>2 DEF WillVisit
  <2> QED BY <1>1, <1>4, <1>5, <2>2, <2>3, SweptKept
<1>6. CASE running'[b] /\ ~running[b]
  <2>1. PICK a \in Logs : Start(a)
    BY <1>6 DEF FlushStep, FlushBegin, FlushNotify, Flushed, FlushTimeout, flushOnly, vars, IoStep, IoEmpty,
       IoExit, IoLook, IoUnpark, ioOnly, StopStep, StopBegin, ClearSlot, ReadEpoch, PokeService, HandedOff,
       DrainedAll, PokeIo, JoinIo, Close, stopOnly, TypeOK, LogTypes
  <2>2. a = b BY <1>2, <1>6, <2>1 DEF Start
  <2>3. ring[b] = <<>> BY <2>1, <2>2 DEF Start, PlaceInv, PlacedInv, PlacedOf
  <2> QED BY <1>1, <1>4, <2>3 DEF Swept
<1>7. CASE ~running'[b] BY <1>4, <1>7 DEF Swept
<1> QED BY <1>5, <1>6, <1>7

LEMMA BusyStep ==
    ASSUME TypeOK, HandInv, SleepInv, [Next]_vars
    PROVE  cpc'[Service] = "park" => ~busy'
<1> USE DEF drainVars
<1>0. /\ cpc[Service] = "park" => ~busy
      /\ Service \in Drainers /\ \A a \in Logs : Io(a) # Service /\ Stopper(a) # Service
      /\ cpc \in [Drainers -> {"idle", "top", "slot", "pop", "count", "write", "park", "exit", "look"}]
  BY DrainersDiffer DEF SleepInv, TypeOK, DrainTypes
<1>1. ASSUME NEW p \in Writers, TryLog(p) PROVE UNCHANGED <<cpc, busy>>
  BY <1>1 DEF TryLog, CheckRunning, CheckDepth, Claim, Publish, Count, Notify
<1>2. ASSUME NEW c \in Drainers, Drain(c)
      PROVE  busy' = busy /\ (cpc'[Service] = "park" => cpc[Service] = "park")
  BY <1>0, <1>2 DEF Drain, Pop, Uncount, Write, Goes
<1>3. CASE SweepStep
  BY <1>0, <1>3 DEF SweepStep, BeginSweep, LoadSlot, LeaveSlot, EndSweep, Unpark, Goes
<1>4. CASE FlushStep \/ UNCHANGED vars
  BY <1>0, <1>4 DEF FlushStep, FlushBegin, FlushNotify, Flushed, FlushTimeout, flushOnly, vars
<1>5. ASSUME NEW a \in Logs, Start(a) \/ IoStep(a) \/ StopStep(a)
      PROVE  cpc'[Service] = cpc[Service] /\ busy' = busy
  <2>1. CASE Start(a) \/ IoStep(a)
    BY <1>0, <2>1 DEF Start, IoStep, IoEmpty, IoExit, IoLook, IoUnpark, ioOnly, Goes
  <2>2. CASE StopStep(a)
    BY <1>0, <2>2 DEF StopStep, StopBegin, ClearSlot, ReadEpoch, PokeService, HandedOff, DrainedAll,
       PokeIo, JoinIo, Close, stopOnly, Goes
  <2> QED BY <1>5, <2>1, <2>2
<1> QED BY <1>0, <1>1, <1>2, <1>3, <1>4, <1>5, Steps

LEMMA SleepStep ==
    ASSUME TypeOK, HandInv, PlaceInv, OrderInv, DepthInv, SleepInv, [Next]_vars
    PROVE  SleepInv'
<1>1. cpc'[Service] = "park" => ~busy' BY BusyStep
<1>2. ASSUME NEW b \in Logs PROVE Parked(b)' /\ Swept(b)'
  BY Steps, ParkedWriter, ParkedElse, SweptWriter, SweptDrainer, SweptSweep, SweptElse
<1> QED BY <1>1, <1>2 DEF SleepInv, Service


----------------------------------------------------------------------------
(* What flush and stop leave.                                              *)

\* Entries only move on, from the ring to a drainer and to the file.
LEMMA Advance ==
    ASSUME TypeOK, HandInv, PlaceInv, [Next]_vars, NEW b \in Logs
    PROVE  /\ InFile(b) \subseteq InFile(b)'
           /\ InHand(b) \subseteq InFile(b)' \cup InHand(b)'
           /\ accepted \subseteq accepted'
<1>0. Drainers' = Drainers BY DEF Drainers, Service, Io, Stopper
<1>1. ASSUME NEW p \in Writers, TryLog(p)
      PROVE  InFile(b)' = InFile(b) /\ InHand(b)' = InHand(b) /\ accepted \subseteq accepted'
  <2>1. UNCHANGED <<hold, cpc, target, file>> /\ accepted \subseteq accepted'
    BY <1>1 DEF TryLog, CheckRunning, CheckDepth, Claim, Publish, Count, Notify, drainVars
  <2> QED BY <1>0, <2>1 DEF InFile, InHand, Holds
<1>2. ASSUME NEW c \in Drainers, Pop(c)
      PROVE  InFile(b)' = InFile(b) /\ InHand(b) \subseteq InHand(b)' /\ accepted' = accepted
  <2>1. file' = file /\ accepted' = accepted BY <1>2 DEF Pop
  <2>2. PICK a \in Logs : a = target[c] BY <1>2, AtLog DEF Pop, Draining
  <2>3. InHand(a) = {} /\ \A d \in Logs : d # a => InHand(d)' = InHand(d)
    BY <1>2, <2>2, PopDoes DEF PlaceInv
  <2> QED BY <2>1, <2>3 DEF InFile
<1>3. ASSUME NEW c \in Drainers, Write(c)
      PROVE  /\ InFile(b) \subseteq InFile(b)' /\ InHand(b) \subseteq InFile(b)' \cup InHand(b)'
             /\ accepted' = accepted
  <2>1. accepted' = accepted BY <1>3 DEF Write
  <2>2. PICK a \in Logs : a = target[c] BY <1>3, AtLog DEF Write, Draining
  <2>3. /\ InHand(a) = {hold[c]} /\ InFile(a)' = InFile(a) \cup {hold[c]}
        /\ \A d \in Logs : d # a => file'[d] = file[d] /\ InHand(d)' = InHand(d)
    BY <1>3, <2>2, WriteDoes DEF PlaceInv
  <2>4. b # a => InFile(b)' = InFile(b) BY <2>3 DEF InFile
  <2> QED BY <2>1, <2>3, <2>4
<1>4. ASSUME NEW c \in Drainers, Uncount(c) PROVE accepted' = accepted
  BY <1>4 DEF Uncount
<1>5. ASSUME \/ SweepStep \/ FlushStep \/ UNCHANGED vars
             \/ \E a \in Logs : Start(a) \/ IoStep(a) \/ StopStep(a)
      PROVE  accepted' = accepted
  BY <1>5, Elsewhere DEF Shared
<1> QED BY <1>1, <1>2, <1>3, <1>4, <1>5, Steps, StillAll DEF Drain

LEMMA FlushInvStep ==
    ASSUME TypeOK, HandInv, PlaceInv, OrderInv, DepthInv, FlushInv, [Next]_vars
    PROVE  FlushInv'
<1> USE DEF stopVars, ringVars
<1>0. /\ \A p \in Writers : LogOf(p)' = LogOf(p)
      /\ \A b \in Logs : WritersOf(b)' = WritersOf(b)
  BY Constant
<1>1. \A e \in accepted : e[1] \in Writers BY Hidden DEF TypeOK, EntryTypes
<1>2. unsynced \subseteq accepted BY DEF TypeOK, FlushTypes
<1>3. ASSUME UNCHANGED <<flog, unsynced>>, fpc' # "idle" => fpc # "idle", fpc' = "flushed" => fpc = "flushed"
      PROVE  FlushInv'
  <2>1. ASSUME NEW b \in Logs PROVE FlushOf(b)'
    <3>1. \A e \in unsynced : LogOf(e[1])' = LogOf(e[1]) BY <1>0, <1>1, <1>2
    <3>2. FlushOf(b) BY DEF FlushInv
    <3> QED BY <1>0, <1>3, <3>1, <3>2, Advance DEF FlushOf
  <2> QED BY <1>3, <2>1 DEF FlushInv
<1>4. CASE \E b \in Logs : FlushBegin(b)
  <2>1. PICK a \in Logs : FlushBegin(a) BY <1>4
  <2>2. flog' = a /\ fpc' = "notify" /\ unsynced' = {e \in accepted : LogOf(e[1]) = a} BY <2>1 DEF FlushBegin
  <2>3. ASSUME NEW b \in Logs PROVE FlushOf(b)'
    <3>1. \A e \in unsynced' : LogOf(e[1])' = a BY <1>0, <1>1, <2>2
    <3> QED BY <2>2, <3>1 DEF FlushOf
  <2> QED BY <2>2, <2>3 DEF FlushInv
<1>5. CASE Flushed
  <2>1. /\ UNCHANGED <<flog, unsynced, file, hold, cpc, target>> /\ fpc = "wait" /\ fpc' = "flushed"
        /\ depth[flog] = 0
    BY <1>5 DEF Flushed, Drained, flushOnly, drainVars
  <2>2. PICK a \in Logs : a = flog BY <2>1 DEF FlushInv
  <2>3. \A e \in unsynced : LogOf(e[1]) = a BY <2>1, <2>2 DEF FlushInv, FlushOf
  <2>4. Cardinality(WritersOf(a)) = 1 => unsynced \subseteq InFile(a) \cup InHand(a)
    BY <1>2, <2>1, <2>2, <2>3, DepthZero
  <2>5. ASSUME NEW b \in Logs PROVE FlushOf(b)'
    <3>1. CASE b # a BY <2>1, <2>2, <3>1 DEF FlushOf
    <3>2. CASE b = a
      <4>1. \A e \in unsynced : LogOf(e[1])' = a BY <1>0, <1>1, <1>2, <2>3
      <4> QED BY <1>0, <2>1, <2>4, <3>2, <4>1, Advance DEF FlushOf
    <3> QED BY <3>1, <3>2
  <2> QED BY <2>1, <2>2, <2>5 DEF FlushInv
<1>6. CASE FlushNotify \/ FlushTimeout
  BY <1>3, <1>6 DEF FlushNotify, FlushTimeout
<1>7. ASSUME NEW p \in Writers, TryLog(p) PROVE FlushInv'
  BY <1>3, <1>7 DEF TryLog, CheckRunning, CheckDepth, Claim, Publish, Count, Notify, flushVars
<1>8. ASSUME NEW c \in Drainers, Drain(c) PROVE FlushInv'
  BY <1>3, <1>8 DEF Drain, Pop, Uncount, Write, flushVars
<1>9. CASE SweepStep \/ UNCHANGED vars
  BY <1>3, <1>9 DEF SweepStep, BeginSweep, LoadSlot, LeaveSlot, EndSweep, Unpark, serviceOnly, flushVars, vars
<1>10. ASSUME NEW a \in Logs, Start(a) \/ IoStep(a) PROVE FlushInv'
  BY <1>3, <1>10 DEF Start, IoStep, IoEmpty, IoExit, IoLook, IoUnpark, ioOnly, flushVars
<1>11. ASSUME NEW a \in Logs, StopStep(a) PROVE FlushInv'
  BY <1>3, <1>11 DEF StopStep, StopBegin, ClearSlot, ReadEpoch, PokeService, HandedOff, DrainedAll, PokeIo,
     JoinIo, Close, stopOnly, flushVars
<1> QED BY <1>4, <1>5, <1>6, <1>7, <1>8, <1>9, <1>10, <1>11, Steps DEF FlushStep


LEMMA Handed ==
    ASSUME HandInv, NEW b \in Logs, spc[b] \in {"leftovers", "close", "stopped"},
           NEW c \in Drainers, c # Stopper(b), target[c] = b
    PROVE  cpc[c] = "idle"
<1>1. \A a \in Logs : HandOf(a) BY DEF HandInv, HandOf
<1>2. CASE c = Service BY <1>1, <1>2 DEF HandOf, Served
<1>3. ASSUME NEW a \in Logs, c = Io(a) PROVE cpc[c] = "idle"
  <2>1. a = b BY <1>1, <1>3, LogAssumption DEF HandOf, Owned
  <2> QED BY <1>1, <1>3, <2>1 DEF HandOf, Owned, Life
<1>4. ASSUME NEW a \in Logs, c = Stopper(a) PROVE cpc[c] = "idle"
  BY <1>1, <1>4, LogAssumption DEF HandOf, Stopping
<1> QED BY <1>2, <1>3, <1>4, DrainersDiffer

LEMMA NoHand ==
    ASSUME NEW b \in Logs, \A c \in Drainers : target[c] = b => cpc[c] \notin {"count", "write"}
    PROVE  InHand(b) = {}
  BY DEF InHand, Holds

\* stop() drains until there is nothing ready: what one had logged is written, but
\* for what is behind an entry that another writer has yet to publish.
LEMMA Blocked ==
    ASSUME TypeOK, PlaceInv, OrderInv, NEW b \in Logs, InHand(b) = {}, ~Ready(b),
           NEW e \in accepted, LogOf(e[1]) = b, e \notin InFile(b)
    PROVE  \E q \in WritersOf(b) : /\ e[1] # q /\ e[1] \in WritersOf(b)
                                   /\ Mine(q) \in InRing(b) /\ e \in InRing(b)
<1>1. e \in Placed(b) /\ e \in InRing(b) /\ e[1] \in WritersOf(b) BY Writing DEF Placed
<1>2. PICK j \in DOMAIN ring[b] : e = ring[b][j].entry BY <1>1 DEF InRing
<1>3. ring[b] \in Seq(Cells) BY DEF TypeOK, EntryTypes, Cells
<1>4. Len(ring[b]) \in Nat /\ DOMAIN ring[b] = 1 .. Len(ring[b]) BY <1>3, SeqFacts
<1>5. ring[b] # <<>> BY <1>2
<1>6. 1 \in DOMAIN ring[b] /\ Head(ring[b]) = ring[b][1] BY <1>2, <1>3, <1>4, <1>5, SeqFacts
<1>7. Unpublished(ring[b][1].entry)
  <2>1. ~ring[b][1].published BY <1>5, <1>6 DEF Ready
  <2> QED BY <1>6, <2>1 DEF PlaceInv, PlacedInv, PlacedOf
<1>8. PICK q : q = ring[b][1].entry[1] OBVIOUS
<1>9. ring[b][1].entry \in Placed(b) /\ ring[b][1].entry \in InRing(b) BY <1>6 DEF Placed, InRing
<1>10. q \in WritersOf(b) /\ q \in Writers /\ LogOf(q) = b BY <1>8, <1>9, Writing DEF WritersOf
<1>11. Mine(q) = ring[b][1].entry /\ ppc[q] = "publish" BY <1>7, <1>8 DEF Unpublished
<1>12. e[1] # q
  <2>1. SUFFICES ASSUME e[1] = q PROVE FALSE OBVIOUS
  <2>2. e # Mine(q) BY <1>10, <1>11, <2>1 DEF PlaceInv, FoundInv, FoundOf
  <2>3. 1 < j BY <1>2, <1>4, <1>11, <2>2
  <2>4. Later(Mine(q), e) BY <1>2, <1>6, <1>11, <2>3 DEF OrderInv, OrderOf
  <2> QED BY <1>1, <1>10, <2>1, <2>4, NotBehind
<1> QED BY <1>1, <1>9, <1>10, <1>11, <1>12

LEMMA BlockedOne ==
    ASSUME TypeOK, PlaceInv, OrderInv, NEW b \in Logs, InHand(b) = {}, ~Ready(b),
           Cardinality(WritersOf(b)) <= 1, NEW e \in accepted, LogOf(e[1]) = b
    PROVE  e \in InFile(b)
<1>1. SUFFICES ASSUME e \notin InFile(b) PROVE FALSE OBVIOUS
<1>2. PICK q \in WritersOf(b) : e[1] # q /\ e[1] \in WritersOf(b) BY <1>1, Blocked
<1> QED BY <1>2, WritersFinite, AtMostOne

LEMMA BlockedTwo ==
    ASSUME TypeOK, PlaceInv, OrderInv, NEW b \in Logs, InHand(b) = {}, ~Ready(b),
           Cardinality(WritersOf(b)) = 2, NEW e \in accepted, LogOf(e[1]) = b, e \notin InFile(b),
           NEW p \in Uncounted(b)
    PROVE  Mine(p) \in InRing(b)
<1>1. PICK q \in WritersOf(b) : /\ e[1] # q /\ e[1] \in WritersOf(b)
                                /\ Mine(q) \in InRing(b) /\ e \in InRing(b)
  BY Blocked
<1>2. p \in WritersOf(b) /\ p \in Writers /\ LogOf(p) = b BY Writing DEF WritersOf
<1>3. SUFFICES ASSUME p # q PROVE Mine(p) \in InRing(b) BY <1>1
<1>4. e[1] = p BY <1>1, <1>2, <1>3, WritersFinite, AtMostTwo
<1>5. Mine(p) \in Placed(b) BY <1>2 DEF Uncounted, PlaceInv, FoundInv, FoundOf
<1>6. SUFFICES ASSUME Mine(p) \in InFile(b) PROVE FALSE BY <1>5 DEF Placed
<1>7. Later(Mine(p), e) BY <1>1, <1>6 DEF OrderInv, OrderOf
<1>8. e \in Placed(b) BY <1>1 DEF Placed
<1> QED BY <1>2, <1>4, <1>7, <1>8, NotBehind

\* A ring with the uncounted entries and an accepted one has a depth.
LEMMA Cramped ==
    ASSUME TypeOK, PlaceInv, DepthInv, NEW b \in Logs, depth[b] = 0,
           \A p \in Uncounted(b) : Mine(p) \in InRing(b),
           NEW e \in InRing(b), e \in accepted
    PROVE  FALSE
<1> DEFINE n == Len(ring[b])
<1>1. n \in Nat /\ DOMAIN ring[b] = 1 .. n
  <2>1. ring[b] \in Seq(Cells) BY DEF TypeOK, EntryTypes, Cells
  <2> QED BY <2>1, SeqFacts
<1>2. PICK i \in 1 .. n : e = ring[b][i].entry BY <1>1 DEF InRing
<1>3. Balance(b) = 0
  <2>1. Balance(b) \in Int /\ 0 - Width < Balance(b) /\ Width \in Nat BY Bounds, LogAssumption
  <2> QED BY <2>1 DEF DepthInv, AsDepth
<1>4. n <= Cardinality(Uncounted(b)) BY <1>1, <1>3, Bounds DEF Balance
<1> DEFINE T == (1 .. n) \ {i}
           f == [p \in Uncounted(b) |-> CHOOSE k \in 1 .. n : ring[b][k].entry = Mine(p)]
<1>5. IsFiniteSet(T) /\ Cardinality(T) = n - 1
  <2> HIDE DEF n, f
  <2>1. IsFiniteSet(1 .. n) /\ Cardinality(1 .. n) = n BY <1>1, <1>2, FS_Interval
  <2>2. IsFiniteSet((1 .. n) \ {i}) /\ Cardinality((1 .. n) \ {i}) = Cardinality(1 .. n) - 1
    BY <1>2, <2>1, FS_RemoveElement
  <2> QED BY <2>1, <2>2
<1>6. ASSUME NEW p \in Uncounted(b) PROVE f[p] \in T /\ ring[b][f[p]].entry = Mine(p)
  <2>1. \E k \in 1 .. n : ring[b][k].entry = Mine(p) BY <1>1 DEF InRing
  <2>2. f[p] \in 1 .. n /\ ring[b][f[p]].entry = Mine(p) BY <2>1
  <2>3. f[p] # i
    <3>1. SUFFICES ASSUME e = Mine(p) PROVE FALSE BY <1>2, <2>2
    <3>2. p \in Writers /\ LogOf(p) = b /\ ppc[p] # "idle" BY DEF Uncounted
    <3>3. e[1] = p BY <3>1 DEF Mine
    <3> QED BY <3>1, <3>2, <3>3 DEF PlaceInv, FoundInv, FoundOf
  <2> QED BY <2>2, <2>3
<1>7. f \in Injection(Uncounted(b), T)
  <2>1. f \in [Uncounted(b) -> T] BY <1>6
  <2> HIDE DEF f, T
  <2>2. ASSUME NEW p \in Uncounted(b), NEW q \in Uncounted(b), f[p] = f[q] PROVE p = q
    <3>1. Mine(p) = Mine(q) BY <1>6, <2>2
    <3> QED BY <3>1 DEF Mine
  <2>3. DOMAIN f = Uncounted(b) BY <2>1
  <2> QED BY <2>1, <2>2, <2>3 DEF Injection, IsInjective
<1> HIDE DEF f, T, n
<1>8. Cardinality(Uncounted(b)) <= Cardinality(T) BY <1>5, <1>7, FS_Injection
<1> QED BY <1>1, <1>4, <1>5, <1>8, Bounds


\* What the steps other than those of stop()'s end do to a log.
LEMMA EndKept ==
    ASSUME TypeOK, HandInv, [Next]_vars, NEW b \in Logs,
           ~Start(b), ~IoExit(b), ~StopBegin(b), ~JoinIo(b), ~Close(b),
           DrainedAll(b) => spc'[b] = spc[b]
    PROVE  /\ before'[b] = before[b] /\ clean'[b] = clean[b]
           /\ target'[Io(b)] = target[Io(b)]
           /\ cpc'[Io(b)] = "idle" => cpc[Io(b)] = "idle"
           /\ spc'[b] \in {"close", "stopped"} => spc'[b] = spc[b]
<1> USE DEF drainVars, stopVars
<1> DEFINE Goal == /\ before'[b] = before[b] /\ clean'[b] = clean[b]
                   /\ target'[Io(b)] = target[Io(b)]
                   /\ cpc'[Io(b)] = "idle" => cpc[Io(b)] = "idle"
                   /\ spc'[b] \in {"close", "stopped"} => spc'[b] = spc[b]
<1>1. /\ Io(b) \in Drainers
      /\ cpc \in [Drainers -> {"idle", "top", "slot", "pop", "count", "write", "park", "exit", "look"}]
      /\ target \in [Drainers -> Logs \cup {NoLog}]
      /\ spc \in [Logs -> {"new", "up", "clear", "epoch", "handoff", "leftovers", "poke",
                         "join", "close", "stopped"}]
      /\ before \in [Logs -> SUBSET accepted] /\ clean \in [Logs -> BOOLEAN]
  BY DrainersDiffer DEF TypeOK, DrainTypes, StopTypes
<1>2. ASSUME NEW p \in Writers, TryLog(p) PROVE Goal
  BY <1>2 DEF TryLog, CheckRunning, CheckDepth, Claim, Publish, Count, Notify
<1>3. ASSUME NEW c \in Drainers, Drain(c) PROVE Goal
  BY <1>1, <1>3 DEF Drain, Pop, Uncount, Write, Goes
<1>4. CASE SweepStep
  BY <1>1, <1>4, DrainersDiffer
     DEF SweepStep, BeginSweep, LoadSlot, LeaveSlot, EndSweep, Unpark, serviceOnly, Goes
<1>5. CASE FlushStep \/ UNCHANGED vars
  BY <1>5 DEF FlushStep, FlushBegin, FlushNotify, Flushed, FlushTimeout, flushOnly, vars
<1>6. ASSUME NEW a \in Logs, Start(a) PROVE Goal
  <2>1. a # b BY <1>6
  <2> QED BY <1>1, <1>6, <2>1, DrainersDiffer DEF Start
<1>7. ASSUME NEW a \in Logs, IoStep(a) PROVE Goal
  <2>1. a = b => ~IoExit(a) OBVIOUS
  <2>2. UNCHANGED <<target, spc, before, clean>>
    BY <1>7 DEF IoStep, IoEmpty, IoExit, IoLook, IoUnpark, ioOnly
  <2>3. cpc'[Io(b)] = "idle" => cpc[Io(b)] = "idle"
    BY <1>1, <1>7, <2>1, DrainersDiffer DEF IoStep, IoEmpty, IoExit, IoLook, IoUnpark, Goes
  <2> QED BY <2>2, <2>3
<1>8. ASSUME NEW a \in Logs, StopStep(a) PROVE Goal
  <2>1. CASE DrainedAll(a)
    <3>1. target'[Io(b)] = target[Io(b)] /\ cpc'[Io(b)] = cpc[Io(b)] /\ UNCHANGED <<before, clean>>
      BY <1>1, <2>1, DrainersDiffer DEF DrainedAll, Goes, ghosts
    <3>2. spc'[b] = spc[b] BY <1>1, <2>1 DEF DrainedAll, StopGoes
    <3> QED BY <3>1, <3>2
  <2>2. CASE HandedOff(a)
    <3>1. target'[Io(b)] = target[Io(b)] /\ cpc'[Io(b)] = cpc[Io(b)] /\ UNCHANGED <<before, clean>>
      BY <1>1, <2>2, DrainersDiffer DEF HandedOff, ghosts
    <3>2. spc'[b] \in {"close", "stopped"} => spc'[b] = spc[b] BY <1>1, <2>2 DEF HandedOff, StopGoes
    <3> QED BY <3>1, <3>2
  <2>3. CASE StopBegin(a) \/ JoinIo(a) \/ Close(a)
    <3>1. a # b BY <2>3
    <3> QED BY <1>1, <2>3, <3>1 DEF StopBegin, JoinIo, Close, StopGoes, ghosts
  <2>4. CASE ClearSlot(a) \/ ReadEpoch(a) \/ PokeService(a) \/ PokeIo(a)
    BY <1>1, <2>4 DEF ClearSlot, ReadEpoch, PokeService, PokeIo, StopGoes, ghosts
  <2> QED BY <1>8, <2>1, <2>2, <2>3, <2>4 DEF StopStep
<1> QED BY <1>2, <1>3, <1>4, <1>5, <1>6, <1>7, <1>8, Steps

\* No entry leaves the ring of a log that is about to be closed.
LEMMA CloseKept ==
    ASSUME TypeOK, HandInv, PlaceInv, [Next]_vars, NEW b \in Logs, spc[b] = "close",
           \A p \in Uncounted(b) : Mine(p) \in InRing(b)
    PROVE  (\A p \in Uncounted(b) : Mine(p) \in InRing(b))'
<1>0. \A p \in Writers : LogOf(p)' = LogOf(p) BY Constant
<1>1. ASSUME UNCHANGED <<ppc, sent>>, InRing(b)' = InRing(b)
      PROVE  (\A p \in Uncounted(b) : Mine(p) \in InRing(b))'
  <2>1. Uncounted(b)' = Uncounted(b) BY <1>0, <1>1 DEF Uncounted
  <2> QED BY <1>1, <2>1 DEF Mine
<1>2. ASSUME NEW p \in Writers, TryLog(p) PROVE (\A q \in Uncounted(b) : Mine(q) \in InRing(b))'
  <2>1. CASE Talk(p)
    <3>1. ring' = ring /\ ppc'[p] \notin {"publish", "count"}
          /\ \A q \in Writers : q # p => ppc'[q] = ppc[q] /\ sent'[q] = sent[q]
      BY <2>1, TalkDoes
    <3>2. ASSUME NEW q \in Uncounted(b)' PROVE q \in Uncounted(b) /\ Mine(q)' = Mine(q)
      BY <1>0, <3>1 DEF Uncounted, Mine
    <3>3. InRing(b)' = InRing(b) BY <3>1 DEF InRing
    <3> QED BY <3>2, <3>3
  <2>2. CASE Publish(p)
    <3>1. PICK a \in Logs : a = LogOf(p) BY LayoutIs
    <3>2. InRing(b)' = InRing(b) BY <2>2, <3>1, PublishDoes
    <3>3. ppc[p] = "publish" /\ sent' = sent /\ \A q \in Writers : q # p => ppc'[q] = ppc[q]
      BY <2>2 DEF Publish, To, TypeOK, WriterTypes
    <3>4. ASSUME NEW q \in Uncounted(b)' PROVE q \in Uncounted(b) /\ Mine(q)' = Mine(q)
      BY <1>0, <3>3 DEF Uncounted, Mine
    <3> QED BY <3>2, <3>4
  <2>3. CASE Claim(p) /\ ~UNCHANGED ring
    <3>1. PICK a \in Logs : a = LogOf(p) BY LayoutIs
    <3>2. InRing(a)' = InRing(a) \cup {Mine(p)} /\ \A d \in Logs : d # a => ring'[d] = ring[d]
      BY <2>3, <3>1, ClaimDoes
    <3>3. InRing(b) \subseteq InRing(b)'
      <4>1. b # a => InRing(b)' = InRing(b) BY <3>2 DEF InRing
      <4> QED BY <3>2, <4>1
    <3>4. sent' = sent /\ \A q \in Writers : q # p => ppc'[q] = ppc[q]
      BY <2>3 DEF Claim, To, TypeOK, WriterTypes
    <3>5. ASSUME NEW q \in Uncounted(b)' PROVE Mine(q)' \in InRing(b)'
      <4>1. q \in Writers /\ LogOf(q) = b /\ Mine(q)' = Mine(q) BY <1>0, <3>4 DEF Uncounted, Mine
      <4>2. CASE q = p BY <3>1, <3>2, <4>1, <4>2
      <4>3. CASE q # p
        <5>1. q \in Uncounted(b) BY <1>0, <3>4, <4>3 DEF Uncounted
        <5> QED BY <3>3, <4>1, <5>1
      <4> QED BY <4>2, <4>3
    <3> QED BY <3>5
  <2> QED BY <1>2, <2>1, <2>2, <2>3 DEF TryLog, Talk
<1>3. ASSUME NEW c \in Drainers, Drain(c) PROVE UNCHANGED <<ppc, sent>> /\ InRing(b)' = InRing(b)
  <2>1. ppc' = ppc /\ sent' = sent BY <1>3 DEF Drain, Pop, Uncount, Write, writerVars
  <2>2. cpc[c] \in Draining BY <1>3 DEF Drain, Pop, Uncount, Write, Draining
  <2>3. target[c] # b
    <3>1. cpc[Stopper(b)] = "idle" BY DEF HandInv, Stopping
    <3> QED BY <2>2, <3>1, Handed DEF Draining
  <2>4. ring'[b] = ring[b]
    BY <1>3, <2>3 DEF Drain, Pop, Uncount, Write, ringVars, TypeOK, EntryTypes
  <2> QED BY <2>1, <2>4 DEF InRing
<1>4. ASSUME \/ SweepStep \/ FlushStep \/ UNCHANGED vars
             \/ \E a \in Logs : Start(a) \/ IoStep(a) \/ StopStep(a)
      PROVE  UNCHANGED <<ppc, sent>> /\ InRing(b)' = InRing(b)
  BY <1>4, Elsewhere DEF Shared, InRing
<1> QED BY <1>1, <1>2, <1>3, <1>4, Steps

LEMMA KeepStep ==
    ASSUME TypeOK, HandInv, PlaceInv, OrderInv, DepthInv, KeepInv, [Next]_vars
    PROVE  KeepInv'
<1> SUFFICES ASSUME NEW b \in Logs PROVE KeepOf(b)' BY DEF KeepInv
<1>0. /\ KeepOf(b) /\ HandOf(b) BY DEF KeepInv, HandInv, HandOf
<1>1. /\ \A p \in Writers : LogOf(p)' = LogOf(p)
      /\ WritersOf(b)' = WritersOf(b)
      /\ InFile(b) \subseteq InFile(b)'
  BY Constant, Advance
<1>2. \A e \in accepted : e[1] \in Writers BY Hidden DEF TypeOK, EntryTypes
<1>3. /\ before[b] \subseteq accepted /\ \A e \in before[b] : LogOf(e[1])' = b
  BY <1>0, <1>1, <1>2 DEF KeepOf, TypeOK, StopTypes
<1>4. CASE /\ ~Start(b) /\ ~IoExit(b) /\ ~StopBegin(b) /\ ~JoinIo(b) /\ ~Close(b)
           /\ DrainedAll(b) => spc'[b] = spc[b]
  <2>1. /\ before'[b] = before[b] /\ clean'[b] = clean[b]
        /\ target'[Io(b)] = target[Io(b)]
        /\ cpc'[Io(b)] = "idle" => cpc[Io(b)] = "idle"
        /\ spc'[b] \in {"close", "stopped"} => spc'[b] = spc[b]
    BY <1>4, EndKept
  <2>2. Ended(b)' => Ended(b) BY <2>1 DEF Ended, Io
  <2>3. spc'[b] = "close" /\ (\A p \in Uncounted(b) : Mine(p) \in InRing(b)) =>
           (\A p \in Uncounted(b) : Mine(p) \in InRing(b))'
    BY <2>1, CloseKept
  <2>4. before[b] \subseteq InFile(b) => before'[b] \subseteq InFile(b)' BY <1>1, <2>1
  <2>5. \A e \in before'[b] : LogOf(e[1])' = b BY <1>3, <2>1
  <2> QED BY <1>0, <1>1, <2>1, <2>2, <2>3, <2>4, <2>5 DEF KeepOf, Io
<1>5. CASE Start(b)
  <2>1. /\ before' = before /\ spc[b] = "new" /\ spc'[b] = "up" BY <1>5 DEF Start, TypeOK, StopTypes
  <2>2. target[Io(b)] = NoLog BY <1>0, <2>1 DEF HandOf, Owned
  <2>3. ~Ended(b)'
    <3>1. target'[Io(b)] = NoLog \/ cpc'[Io(b)] = "pop"
      BY <1>5, <2>2, DrainersDiffer DEF Start, TypeOK, DrainTypes
    <3> QED BY <2>1, <3>1, LogAssumption DEF Ended, Io
  <2> QED BY <1>3, <2>1, <2>3 DEF KeepOf
<1>6. CASE IoExit(b)
  <2>1. /\ UNCHANGED <<before, spc, clean, target>> /\ cpc[Io(b)] = "exit"
        /\ cpc'[Io(b)] = "idle" => depth[b] = 0
    BY <1>6, DrainersDiffer DEF IoExit, ioOnly, stopVars, Goes, TypeOK, DrainTypes
  <2>2. home[b] = "own" /\ target[Io(b)] = b /\ spc[b] \notin {"close", "stopped"}
    BY <1>0, <2>1 DEF HandOf, Owned, Life
  <2>3. InHand(b) = {}
    <3>1. ASSUME NEW c \in Drainers, target[c] = b, cpc[c] \in {"count", "write"} PROVE FALSE
      <4>1. \A a \in Logs : HandOf(a) BY DEF HandInv, HandOf
      <4>2. c # Service BY <1>0, <2>2, <3>1 DEF HandOf, Served
      <4>3. ASSUME NEW a \in Logs, c = Io(a) PROVE FALSE
        BY <2>1, <3>1, <4>1, <4>3, LogAssumption DEF HandOf, Owned
      <4>4. ASSUME NEW a \in Logs, c = Stopper(a) PROVE FALSE
        BY <2>2, <3>1, <4>1, <4>4, LogAssumption DEF HandOf, Stopping, Life
      <4> QED BY <4>2, <4>3, <4>4, DrainersDiffer
    <3> QED BY <3>1, NoHand
  <2>4. Ended(b)' => depth[b] = 0 BY <2>1, <2>2 DEF Ended, Io
  <2>5. \A e \in before[b] : LogOf(e[1]) = b BY <1>0 DEF KeepOf
  <2>6. Ended(b)' /\ Cardinality(WritersOf(b)) <= 1 => before[b] \subseteq InFile(b)
    BY <1>3, <2>3, <2>4, <2>5, DepthZero
  <2> QED BY <1>1, <1>3, <2>1, <2>2, <2>6 DEF KeepOf
<1>7. CASE StopBegin(b)
  <2>1. /\ UNCHANGED <<cpc, target>> /\ spc[b] = "up" /\ spc'[b] \in {"clear", "poke"}
        /\ before'[b] = {e \in accepted : LogOf(e[1]) = b}
    BY <1>7 DEF StopBegin, StopGoes, TypeOK, StopTypes
  <2>2. ~(target[Io(b)] = b /\ cpc[Io(b)] = "idle")
    BY <1>0, <2>1, LogAssumption DEF HandOf, Owned, Life
  <2>3. ~Ended(b)' BY <2>1, <2>2 DEF Ended, Io
  <2>4. \A e \in before'[b] : LogOf(e[1])' = b BY <1>1, <1>2, <2>1
  <2> QED BY <2>1, <2>3, <2>4 DEF KeepOf
<1>8. CASE JoinIo(b)
  <2>1. /\ UNCHANGED <<cpc, target, before, clean>> /\ spc[b] = "join" /\ cpc[Io(b)] = "idle"
        /\ spc'[b] = "close"
    BY <1>8 DEF JoinIo, StopGoes, ghosts, TypeOK, StopTypes
  <2>2. target[Io(b)] = b BY <1>0, <2>1 DEF HandOf, Owned, Life
  <2>3. Ended(b) BY <2>1, <2>2 DEF Ended
  <2>4. Cardinality(WritersOf(b)) <= 1 => before[b] \subseteq InFile(b) BY <1>0, <2>3 DEF KeepOf
  <2> QED BY <1>1, <1>3, <2>1, <2>2, <2>4, LogAssumption DEF KeepOf, Io
<1>9. CASE DrainedAll(b) /\ spc'[b] # spc[b]
  <2>1. /\ UNCHANGED <<before, clean, ppc, sent, ring>> /\ spc'[b] = "close" /\ ~Ready(b)
        /\ cpc[Stopper(b)] = "pop" /\ target'[Io(b)] = target[Io(b)]
    BY <1>9, DrainersDiffer
       DEF DrainedAll, StopGoes, ghosts, stopOnly, writerVars, ringVars, TypeOK, StopTypes, DrainTypes
  <2>2. spc[b] = "leftovers" BY <1>0, <2>1 DEF HandOf, Stopping
  <2>3. InHand(b) = {}
    <3>1. ASSUME NEW c \in Drainers, target[c] = b PROVE cpc[c] \notin {"count", "write"}
      BY <2>1, <2>2, <3>1, Handed
    <3> QED BY <3>1, NoHand
  <2>4. \A e \in before[b] : e \in accepted /\ LogOf(e[1]) = b BY <1>0, <1>3 DEF KeepOf
  <2>5. Cardinality(WritersOf(b)) <= 1 => before[b] \subseteq InFile(b)
    BY <2>1, <2>3, <2>4, BlockedOne
  <2>6. ASSUME Cardinality(WritersOf(b)) = 2, ~(before[b] \subseteq InFile(b))
        PROVE  \A p \in Uncounted(b) : Mine(p) \in InRing(b)
    <3>1. PICK e \in before[b] : e \notin InFile(b) BY <2>6
    <3> QED BY <2>1, <2>3, <2>4, <2>6, <3>1, BlockedTwo
  <2>7. (\A p \in Uncounted(b) : Mine(p) \in InRing(b)) => (\A p \in Uncounted(b) : Mine(p) \in InRing(b))'
    <3>1. Uncounted(b)' = Uncounted(b) BY <1>1, <2>1 DEF Uncounted
    <3>2. InRing(b)' = InRing(b) BY <2>1 DEF InRing
    <3> QED BY <2>1, <3>1, <3>2 DEF Mine
  <2>8. before[b] \subseteq InFile(b) => before'[b] \subseteq InFile(b)' BY <1>1, <2>1
  <2> QED BY <1>1, <1>3, <2>1, <2>5, <2>6, <2>7, <2>8 DEF KeepOf
<1>10. CASE Close(b)
  <2>1. /\ UNCHANGED <<before, cpc, target>> /\ spc[b] = "close" /\ spc'[b] = "stopped"
        /\ clean'[b] => depth[b] = 0
    BY <1>10 DEF Close, StopGoes, ghosts, TypeOK, StopTypes
  <2>2. Ended(b) BY <2>1 DEF Ended
  <2>3. Cardinality(WritersOf(b)) <= 1 => before[b] \subseteq InFile(b) BY <1>0, <2>2 DEF KeepOf
  <2>4. InHand(b) = {}
    <3>1. cpc[Stopper(b)] = "idle" BY <1>0, <2>1 DEF HandOf, Stopping
    <3>2. ASSUME NEW c \in Drainers, target[c] = b PROVE cpc[c] \notin {"count", "write"}
      BY <2>1, <3>1, <3>2, Handed
    <3> QED BY <3>2, NoHand
  <2>5. ASSUME clean'[b], Cardinality(WritersOf(b)) = 2, target[Io(b)] = NoLog
        PROVE  before[b] \subseteq InFile(b)
    <3>1. SUFFICES ASSUME NEW e \in before[b], e \notin InFile(b) PROVE FALSE OBVIOUS
    <3>2. \A p \in Uncounted(b) : Mine(p) \in InRing(b) BY <1>0, <2>1, <2>5, <3>1 DEF KeepOf
    <3>3. e \in accepted /\ LogOf(e[1]) = b BY <1>0, <1>3 DEF KeepOf
    <3>4. e \in InRing(b) BY <2>4, <3>1, <3>3, Writing DEF Placed
    <3> QED BY <2>1, <2>5, <3>2, <3>3, <3>4, Cramped
  <2> QED BY <1>1, <1>3, <2>1, <2>3, <2>5 DEF KeepOf, Io
<1> QED BY <1>4, <1>5, <1>6, <1>7, <1>8, <1>9, <1>10

----------------------------------------------------------------------------
(* The theorems.                                                           *)

LEMMA InitInv == ASSUME Init PROVE IInv
<1> USE DEF Init
<1>1. TypeOK BY InitTypes
<1>2. HandInv BY InitHand
<1>3. /\ \A b \in Logs : InRing(b) = {} /\ InHand(b) = {} /\ InFile(b) = {} /\ Placed(b) = {}
      /\ \A b \in Logs : Uncounted(b) = {} /\ Taken(b) = 0
  BY DEF InRing, InHand, Holds, InFile, ToSet, Placed, Uncounted, Taken
<1>4. PlaceInv BY <1>3 DEF PlaceInv, HoldInv, PlacedInv, PlacedOf, FoundInv, FoundOf
<1>5. OrderInv BY <1>3 DEF OrderInv, OrderOf
<1>6. DepthInv
  <2>1. Cardinality({}) = 0 BY FS_EmptySet
  <2>2. \A b \in Logs : Len(ring[b]) = 0 OBVIOUS
  <2>3. ASSUME NEW b \in Logs PROVE Balance(b) = 0
    <3>1. Len(ring[b]) = 0 /\ Taken(b) = 0 /\ Cardinality(Uncounted(b)) = 0 BY <1>3, <2>1, <2>2
    <3> HIDE DEF Init
    <3> QED BY <3>1 DEF Balance
  <2> QED BY <2>3 DEF DepthInv, AsDepth
<1>7. SleepInv
  <2>1. \A b \in Logs : cpc[Io(b)] # "park" BY DrainersDiffer
  <2> QED BY <2>1 DEF SleepInv, Parked, Swept
<1>8. FlushInv BY DEF FlushInv, FlushOf
<1>9. KeepInv BY DEF KeepInv, KeepOf
<1> QED BY <1>1, <1>2, <1>4, <1>5, <1>6, <1>7, <1>8, <1>9 DEF IInv

LEMMA NextInv == ASSUME IInv, [Next]_vars PROVE IInv'
<1>1. TypeOK' /\ HandInv' BY TypeStep, HandStep DEF IInv
<1>2. PlaceInv' /\ OrderInv' BY PlaceStep, OrderStep DEF IInv
<1>3. DepthInv' /\ SleepInv' BY DepthStep, SleepStep DEF IInv
<1>4. FlushInv' /\ KeepInv' BY FlushInvStep, KeepStep DEF IInv
<1> QED BY <1>1, <1>2, <1>3, <1>4 DEF IInv

LEMMA Inductive == Spec => []IInv
  BY InitInv, NextInv, PTL DEF Spec

\* Every variable keeps its type, and no ring holds more than its capacity.
THEOREM TypeCorrect == Spec => []TypeOK
<1>1. IInv => TypeOK BY DEF IInv
<1> QED BY <1>1, Inductive, PTL

\* Once stop() drains a log itself, and after it has closed the file, no other
\* thread is inside drainBatch of that log, whatever sweep was under way.
THEOREM HandsOver == Spec => []HandedOver
<1>1. ASSUME IInv PROVE HandedOver
  <2>1. HandInv BY <1>1 DEF IInv
  <2> QED BY <2>1, Handed DEF HandedOver
<1> QED BY <1>1, Inductive, PTL

\* What had been logged when stop() was called is in the file when it returns, in
\* the order each thread logged it, as far as stop() can know.
THEOREM StopLeavesNothing == Spec => []StopKeeps
<1>1. ASSUME IInv, NEW b \in Logs, spc[b] = "stopped"
      PROVE  /\ \/ Cardinality(WritersOf(b)) <= 1
                \/ clean[b] /\ Cardinality(WritersOf(b)) = 2 /\ cpc[Io(b)] = "idle"
                            /\ target[Io(b)] = NoLog
                => before[b] \subseteq InFile(b)
             /\ \A i, j \in DOMAIN file[b] :
                   i < j /\ file[b][i][1] = file[b][j][1] => file[b][i][2] < file[b][j][2]
  <2>1. KeepOf(b) /\ OrderOf(b) BY <1>1 DEF IInv, KeepInv, OrderInv
  <2> QED BY <1>1, <2>1 DEF KeepOf, Ended, OrderOf, Later
<1>2. IInv => StopKeeps BY <1>1 DEF StopKeeps
<1> QED BY <1>2, Inductive, PTL

\* When flush() reports success, what one thread had logged before it is in the
\* file, but for the entry that is being written.
THEOREM FlushLeavesOne == Spec => []FlushedButOne
<1>1. ASSUME IInv, fpc = "flushed", Cardinality(WritersOf(flog)) = 1
      PROVE  unsynced \subseteq InFile(flog) \cup {hold[c] : c \in Drainers}
  <2>1. PICK b \in Logs : b = flog BY <1>1 DEF IInv, FlushInv
  <2>2. unsynced \subseteq InFile(b) \cup InHand(b) BY <1>1, <2>1 DEF IInv, FlushInv, FlushOf
  <2>3. InHand(b) \subseteq {hold[c] : c \in Drainers} BY DEF InHand
  <2> QED BY <2>1, <2>2, <2>3
<1>2. IInv => FlushedButOne BY <1>1 DEF FlushedButOne
<1> QED BY <1>2, Inductive, PTL

\* When nobody is logging, a running log that drains itself, or that one thread
\* writes, does not sleep over what it was given.
THEOREM SleepsOverNothing == Spec => []SleepsEmpty
<1>1. ASSUME IInv, NEW b \in Logs, running[b], Quiet(b), Asleep(b),
             home[b] = "own" \/ Cardinality(WritersOf(b)) = 1
      PROVE  ring[b] = <<>>
  <2>0. TypeOK /\ PlaceInv /\ DepthInv /\ Parked(b) /\ Swept(b) BY <1>1 DEF IInv, SleepInv
  <2>1. \A p \in Writers : LogOf(p) = b => ppc[p] = "idle" BY <1>1, <2>0, Writing DEF Quiet
  <2>2. Uncounted(b) = {} /\ ~Notifying(b) BY <2>1 DEF Uncounted, Notifying
  <2>3. CASE home[b] = "own"
    <3>1. depth[b] = 0 BY <1>1, <2>0, <2>2, <2>3 DEF Asleep, Parked
    <3>2. Balance(b) \in Int /\ 0 - Width < Balance(b) /\ Width \in Nat BY <2>0, Bounds, LogAssumption
    <3>3. Balance(b) = 0 BY <2>0, <3>1, <3>2 DEF DepthInv, AsDepth
    <3>4. Cardinality(Uncounted(b)) = 0 BY <2>2, FS_EmptySet
    <3>5. Len(ring[b]) = 0 BY <2>0, <3>3, <3>4, Bounds DEF Balance
    <3>6. ring[b] \in Seq(Cells) BY <2>0 DEF TypeOK, EntryTypes, Cells
    <3> QED BY <3>5, <3>6, SeqFacts
  <2>4. CASE home[b] = "service"
    <3>1. cpc[Service] = "park" /\ ~wake /\ Cardinality(WritersOf(b)) = 1 BY <1>1, <2>4 DEF Asleep
    <3>2. ~WillVisit(b) BY <3>1 DEF WillVisit
    <3> QED BY <1>1, <2>0, <2>2, <2>4, <3>1, <3>2 DEF Swept
  <2> QED BY <1>1, <2>3, <2>4 DEF Asleep
<1>2. ASSUME IInv PROVE SleepsEmpty
  <2>1. layout.logs \subseteq Logs BY <1>2, LogAssumption DEF IInv, TypeOK, EntryTypes, LayoutShape
  <2>2. \A b \in Logs : ring[b] = <<>> => Left(b) = {} BY DEF Left
  <2> QED BY <1>1, <1>2, <2>1, <2>2 DEF SleepsEmpty
<1> QED BY <1>2, Inductive, PTL

=============================================================================
